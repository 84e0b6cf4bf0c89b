--------------------------- MODULE KeyServerProofs ---------------------------
(***************************************************************************)
(* Theorems about the anchoring side of the system, from the inside out:   *)
(* the contract (AuditAnchorContract), the service that commits to it      *)
(* (Anchor), the process it runs in (KeyServer) and the page that polls    *)
(* that process (Dashboard).  Each layer takes the steps of the one below  *)
(* and its proofs rest on those of the one below.  For any number of       *)
(* goroutines, accounts, heads, requests, errors and restarts.             *)
(***************************************************************************)
EXTENDS Dashboard, TLAPS

(***************************************************************************)
(* AuditAnchorContract, for any accounts, roots and bounds.                *)
(***************************************************************************)

(* A commit the contract accepts adds one well-typed anchor at the end and *)
(* leaves the others (commit, AuditAnchor.sol 76-88).                      *)
LEMMA CommitFacts ==
  ASSUME ChainTypeOK, NEW sender \in Addresses, NEW treeSize \in 0..MaxSize,
         NEW root \in Roots, Commit(sender, treeSize, root)
  PROVE  /\ anchors' \in Seq(AnchorType)
         /\ Len(anchors) \in Nat
         /\ DOMAIN anchors = 1..Len(anchors)
         /\ DOMAIN anchors' = 1..(Len(anchors) + 1)
         /\ \A i \in 1..Len(anchors) : anchors'[i] = anchors[i]
         /\ Len(anchors') = Len(anchors) + 1
         /\ anchors'[Len(anchors) + 1]
              = [size |-> treeSize, root |-> root, by |-> sender]
         /\ anchors'[Len(anchors) + 1].size = treeSize
         /\ treeSize > LastSize
<1> DEFINE a == [size |-> treeSize, root |-> root, by |-> sender]
<1>1. anchors \in Seq(AnchorType) /\ MaxSize \in Nat
  BY SizeAssumption DEF ChainTypeOK
<1>2. a \in AnchorType /\ a.size = treeSize
  BY <1>1 DEF Commit, Accepts, AnchorType
<1>3. anchors' = Append(anchors, a)
  BY DEF Commit
<1>4. treeSize > LastSize
  BY DEF Commit, Accepts, LastSize
<1> HIDE DEF a
<1>5. /\ anchors' \in Seq(AnchorType)
      /\ DOMAIN anchors = 1..Len(anchors) /\ Len(anchors) \in Nat
      /\ DOMAIN anchors' = 1..(Len(anchors) + 1)
      /\ \A i \in 1..Len(anchors) : anchors'[i] = anchors[i]
      /\ anchors'[Len(anchors) + 1] = a
      /\ Len(anchors') = Len(anchors) + 1
  BY <1>1, <1>2, <1>3
<1>. QED BY <1>2, <1>4, <1>5 DEF a

(* Storage keeps its types (AuditAnchor.sol 40-129).                       *)
LEMMA ChainTypeStep ==
  ASSUME ChainTypeOK, [ChainNext]_chainVars
  PROVE  ChainTypeOK'
<1>1. ASSUME NEW sender \in Addresses, NEW treeSize \in 0..MaxSize,
             NEW root \in Roots, Commit(sender, treeSize, root)
      PROVE  ChainTypeOK'
  <2>1. anchors' \in Seq(AnchorType)
    BY <1>1, CommitFacts
  <2>. QED BY <1>1, <2>1 DEF Commit, roles, ChainTypeOK
<1>2. ASSUME NEW sender \in Addresses, NEW next \in Addresses \cup {NoAddress},
             SetCommitter(sender, next) \/ TransferOwnership(sender, next)
      PROVE  ChainTypeOK'
  BY <1>2 DEF SetCommitter, TransferOwnership, ChainTypeOK
<1>3. ASSUME NEW sender \in Addresses, AcceptOwnership(sender)
      PROVE  ChainTypeOK'
  BY <1>3 DEF AcceptOwnership, ChainTypeOK
<1>4. CASE UNCHANGED chainVars
  BY <1>4 DEF chainVars, ChainTypeOK
<1>. QED BY <1>1, <1>2, <1>3, <1>4 DEF ChainNext

(* Type correctness of the contract's storage.                             *)
THEOREM ChainTypeCorrect == ChainSpec => []ChainTypeOK
<1>1. ChainInit => ChainTypeOK
  BY DEF ChainInit, ChainTypeOK
<1>. QED BY <1>1, ChainTypeStep, PTL DEF ChainSpec

(* A commit keeps the order: the contract compares with the last anchor    *)
(* only, and the last is the largest (AuditAnchor.sol 76-88).              *)
LEMMA CommitIncreases ==
  ASSUME ChainTypeOK, SizesIncrease, NEW sender \in Addresses,
         NEW treeSize \in 0..MaxSize, NEW root \in Roots,
         Commit(sender, treeSize, root)
  PROVE  SizesIncrease'
<1> DEFINE n == Len(anchors)
<1>1. /\ n \in Nat /\ DOMAIN anchors = 1..n /\ DOMAIN anchors' = 1..(n + 1)
      /\ \A i \in 1..n : anchors'[i] = anchors[i]
      /\ anchors'[n + 1].size = treeSize
      /\ treeSize > LastSize
  BY CommitFacts
<1>2. \A i \in 1..n : anchors[i].size \in Nat
  <2>1. \A i \in 1..n : anchors[i] \in AnchorType
    BY <1>1 DEF ChainTypeOK
  <2>. QED BY <2>1, SizeAssumption DEF AnchorType
<1>3. ASSUME NEW i \in 1..n
      PROVE  anchors[i].size < treeSize
  <2>1. anchors # <<>> /\ LastSize = anchors[n].size
    BY <1>1 DEF LastSize
  <2>2. i = n \/ anchors[i].size < anchors[n].size
    <3>a. n \in Nat /\ DOMAIN anchors = 1..n
      BY <1>1
    <3> HIDE DEF n
    <3>1. i \in DOMAIN anchors /\ n \in DOMAIN anchors /\ (i = n \/ i < n)
      BY <3>a
    <3>. QED BY <3>1 DEF SizesIncrease
  <2>3. /\ n \in 1..n /\ treeSize > anchors[n].size /\ treeSize \in Nat
        /\ anchors[i].size \in Nat /\ anchors[n].size \in Nat
    BY <1>1, <1>2, <2>1, SizeAssumption
  <2> HIDE DEF n
  <2>. QED BY <2>2, <2>3
<1> SUFFICES ASSUME NEW i \in DOMAIN anchors', NEW j \in DOMAIN anchors',
                    i < j
             PROVE  anchors'[i].size < anchors'[j].size
  BY DEF SizesIncrease
<1>4. CASE j = n + 1
  BY <1>1, <1>3, <1>4
<1>5. CASE j # n + 1
  BY <1>1, <1>5 DEF SizesIncrease
<1>. QED BY <1>4, <1>5

(* SizesIncrease is inductive (AuditAnchor.sol 76-129).                    *)
LEMMA SizesIncreaseStep ==
  ASSUME ChainTypeOK, SizesIncrease, [ChainNext]_chainVars
  PROVE  SizesIncrease'
<1>1. ASSUME NEW sender \in Addresses, NEW treeSize \in 0..MaxSize,
             NEW root \in Roots, Commit(sender, treeSize, root)
      PROVE  SizesIncrease'
  BY <1>1, CommitIncreases
<1>2. ASSUME anchors' = anchors
      PROVE  SizesIncrease'
  BY <1>2 DEF SizesIncrease
<1>. QED
  BY <1>1, <1>2 DEF ChainNext, SetCommitter, TransferOwnership,
     AcceptOwnership, chainVars

(* However the committer and the owner change, any two anchors have        *)
(* different sizes, in the order of their ids (AuditAnchor.sol 71-75).     *)
THEOREM AnchorsGrow == ChainSpec => []SizesIncrease
<1>1. ChainInit => ChainTypeOK /\ SizesIncrease
  BY DEF ChainInit, ChainTypeOK, SizesIncrease
<1>. QED BY <1>1, ChainTypeStep, SizesIncreaseStep, PTL DEF ChainSpec

(* Only the owner's own nominee can take over: a nomination never outlives *)
(* the tenure of the owner who made it (AuditAnchor.sol 115-129).          *)
THEOREM NomineeIsTheOwners == ChainSpec => []NominationIsCurrent
<1>1. ChainInit => NominationIsCurrent
  BY DEF ChainInit, NominationIsCurrent
<1>2. NominationIsCurrent /\ [ChainNext]_chainVars => NominationIsCurrent'
  BY DEF NominationIsCurrent, ChainNext, Commit, SetCommitter,
     TransferOwnership, AcceptOwnership, roles, chainVars
<1>. QED BY <1>1, <1>2, PTL DEF ChainSpec

(* The list is append-only and only the committer of the moment extends it *)
(* (AuditAnchor.sol 44-46, 66-70, 108-113).                                *)
THEOREM CommitterAloneExtends == ChainSpec => OnlyCommitterExtends
<1> DEFINE Ext ==
      /\ Len(anchors') >= Len(anchors)
      /\ \A i \in DOMAIN anchors : anchors'[i] = anchors[i]
      /\ \A i \in DOMAIN anchors' \ DOMAIN anchors : anchors'[i].by = committer
<1>1. ASSUME ChainTypeOK, [ChainNext]_chainVars
      PROVE  [Ext]_chainVars
  <2>1. ASSUME NEW sender \in Addresses, NEW treeSize \in 0..MaxSize,
               NEW root \in Roots, Commit(sender, treeSize, root)
        PROVE  Ext
    <3> DEFINE a == [size |-> treeSize, root |-> root, by |-> sender]
    <3>1. anchors' = Append(anchors, a) /\ sender = committer /\ a.by = sender
      BY <2>1 DEF Commit, Accepts
    <3>2. /\ DOMAIN anchors = 1..Len(anchors) /\ Len(anchors) \in Nat
          /\ DOMAIN anchors' = 1..(Len(anchors) + 1)
          /\ \A i \in 1..Len(anchors) : anchors'[i] = anchors[i]
      BY <1>1, <2>1, CommitFacts
    <3>3. anchors'[Len(anchors) + 1] = a /\ Len(anchors') = Len(anchors) + 1
      <4>1. anchors \in Seq(AnchorType)
        BY <1>1 DEF ChainTypeOK
      <4> HIDE DEF a
      <4>. QED BY <3>1, <4>1
    <3>. QED BY <3>1, <3>2, <3>3
  <2>2. ASSUME anchors' = anchors
        PROVE  Ext
    BY <2>2 DEF ChainTypeOK
  <2>. QED
    BY <1>1, <2>1, <2>2 DEF ChainNext, SetCommitter, TransferOwnership,
       AcceptOwnership
<1>. QED BY <1>1, ChainTypeCorrect, PTL DEF ChainSpec, OnlyCommitterExtends

-----------------------------------------------------------------------------
(***************************************************************************)
(* Anchor.                                                                 *)
(***************************************************************************)

Pcs == {"idle", "snapped", "sent", "mined", "reverted", "ok", "set", "hung",
        "exited"}

ProcType == [pc : Pcs, size : 0..MaxSize]

TxType == [from : Procs \cup {NoProc}, size : 1..MaxSize, root : 0..MaxRestarts]

(* Goroutine p goes on to c with the snapshot s; the others stay.          *)
Moves(p, c, s) ==
  /\ proc' \in [Procs -> ProcType]
  /\ proc'[p].pc = c /\ proc'[p].size = s
  /\ \A q \in Procs \ {p} : proc'[q] = proc[q]

(* What Moves takes when the whole record, or its pc alone, is assigned.   *)
LEMMA RecordMoves ==
  ASSUME proc \in [Procs -> ProcType], NEW p \in Procs, NEW c \in Pcs,
         NEW s \in 0..MaxSize, proc' = [proc EXCEPT ![p] = [pc |-> c, size |-> s]]
  PROVE  Moves(p, c, s)
<1>1. [pc |-> c, size |-> s] \in ProcType
  BY DEF ProcType
<1>. QED BY <1>1 DEF Moves

(* A process that only moves its program counter keeps the size it took at *)
(* its snapshot (commit, committer.go 150-187).                            *)
LEMMA PcMoves ==
  ASSUME proc \in [Procs -> ProcType], NEW p \in Procs, NEW c \in Pcs,
         proc' = [proc EXCEPT ![p].pc = c]
  PROVE  Moves(p, c, proc[p].size)
<1>1. proc[p] = [pc |-> proc[p].pc, size |-> proc[p].size]
      /\ proc[p].size \in 0..MaxSize
  BY DEF ProcType
<1>2. [proc[p] EXCEPT !.pc = c] = [pc |-> c, size |-> proc[p].size]
  BY <1>1
<1>3. proc' = [proc EXCEPT ![p] = [pc |-> c, size |-> proc[p].size]]
  BY <1>2
<1>. QED BY <1>1, <1>3, RecordMoves

(* Where each step of a pass takes its goroutine (committer.go 149-179,    *)
(* client.go 160-183).                                                     *)
LEMMA PassMoves ==
  ASSUME TypeOK, NEW p \in Procs
  PROVE  /\ Snapshot(p) => Moves(p, "snapped", size)
         /\ Skip(p) \/ StoreLast(p) \/ CastFails(p) => Moves(p, "idle", 0)
         /\ Send(p) => Moves(p, "sent", proc[p].size)
         /\ Receipt(p) => Moves(p, "ok", proc[p].size)
         /\ Reverted(p) => \/ RevertIsError /\ Moves(p, "idle", 0)
                           \/ ~RevertIsError /\ Moves(p, "ok", proc[p].size)
         /\ CastHangs(p) => Moves(p, "hung", proc[p].size)
         /\ SetLatest(p) => Moves(p, "set", proc[p].size)
         /\ FakeCommit(p) =>
              \/ /\ Moves(p, "ok", proc[p].size) /\ UNCHANGED errors
                 /\ Commit(Service, proc[p].size, life)
              \/ /\ Moves(p, "idle", 0) /\ UNCHANGED chainVars
                 /\ \/ errors' = errors
                    \/ errors < MaxErrors /\ errors' = errors + 1
         /\ LoopExit => Moves(Loop, "exited", proc[Loop].size)
<1>0. proc \in [Procs -> ProcType] /\ size \in 0..MaxSize /\ 0 \in 0..MaxSize
      /\ Loop \in Procs
  BY SizeAssumption DEF TypeOK, ProcType, Pcs, Procs
<1>1. Snapshot(p) => Moves(p, "snapped", size)
  BY <1>0, RecordMoves DEF Snapshot, Pcs
<1>2. ASSUME proc' = [proc EXCEPT ![p] = Idle]
      PROVE  Moves(p, "idle", 0)
  BY <1>0, <1>2, RecordMoves DEF Idle, Pcs
<1>3. Skip(p) \/ StoreLast(p) \/ CastFails(p) => Moves(p, "idle", 0)
  BY <1>2 DEF Skip, StoreLast, CastFails
<1>4. \A c \in Pcs : proc' = [proc EXCEPT ![p].pc = c]
                       => Moves(p, c, proc[p].size)
  BY <1>0, PcMoves
<1>5. Send(p) => Moves(p, "sent", proc[p].size)
  BY <1>4 DEF Send, Pcs
<1>6. Receipt(p) => Moves(p, "ok", proc[p].size)
  BY <1>4 DEF Receipt, Pcs
<1>7. Reverted(p) => \/ RevertIsError /\ Moves(p, "idle", 0)
                     \/ ~RevertIsError /\ Moves(p, "ok", proc[p].size)
  BY <1>2, <1>4 DEF Reverted, Pcs
<1>8. CastHangs(p) => Moves(p, "hung", proc[p].size)
  BY <1>4 DEF CastHangs, Pcs
<1>9. SetLatest(p) => Moves(p, "set", proc[p].size)
  BY <1>4 DEF SetLatest, Pcs
<1>10. FakeCommit(p) =>
         \/ /\ Moves(p, "ok", proc[p].size) /\ UNCHANGED errors
            /\ Commit(Service, proc[p].size, life)
         \/ /\ Moves(p, "idle", 0) /\ UNCHANGED chainVars
            /\ \/ errors' = errors
               \/ errors < MaxErrors /\ errors' = errors + 1
  <2> SUFFICES ASSUME FakeCommit(p)
               PROVE  \/ /\ Moves(p, "ok", proc[p].size) /\ UNCHANGED errors
                         /\ Commit(Service, proc[p].size, life)
                      \/ /\ Moves(p, "idle", 0) /\ UNCHANGED chainVars
                         /\ \/ errors' = errors
                            \/ errors < MaxErrors /\ errors' = errors + 1
    OBVIOUS
  <2>1. CASE proc' = [proc EXCEPT ![p].pc = "ok"]
                 /\ Commit(Service, proc[p].size, life) /\ UNCHANGED errors
    <3>1. Moves(p, "ok", proc[p].size)
      BY <1>4, <2>1 DEF Pcs
    <3>. QED BY <2>1, <3>1
  <2>2. CASE /\ proc' = [proc EXCEPT ![p] = Idle] /\ UNCHANGED chainVars
             /\ \/ errors' = errors
                \/ errors < MaxErrors /\ errors' = errors + 1
    BY <1>2, <2>2
  <2>. QED BY <2>1, <2>2 DEF FakeCommit
<1>11. LoopExit => Moves(Loop, "exited", proc[Loop].size)
  BY <1>0, PcMoves DEF LoopExit, Pcs
<1>. QED BY <1>1, <1>3, <1>5, <1>6, <1>7, <1>8, <1>9, <1>10, <1>11

(* Where mining a transaction takes the goroutine that waits for it, if    *)
(* one does (client.go 160-183).                                           *)
LEMMA MineMoves ==
  ASSUME TypeOK, NEW tx \in pool, Mine(tx)
  PROVE  /\ proc' \in [Procs -> ProcType]
         /\ \A p \in Procs : p # tx.from => proc'[p] = proc[p]
         /\ \A p \in Procs : p = tx.from =>
              /\ proc'[p].size = proc[p].size
              /\ proc'[p].pc = IF Accepts(Service, tx.size) THEN "mined"
                                                             ELSE "reverted"
<1> DEFINE c == IF Accepts(Service, tx.size) THEN "mined" ELSE "reverted"
<1>1. proc' = [p \in Procs |->
                IF p = tx.from THEN [proc[p] EXCEPT !.pc = c] ELSE proc[p]]
  BY DEF Mine
<1>2. c \in Pcs
  BY DEF Pcs
<1> HIDE DEF c
<1>3. ASSUME NEW p \in Procs
      PROVE  /\ [proc[p] EXCEPT !.pc = c] = [pc |-> c, size |-> proc[p].size]
             /\ [pc |-> c, size |-> proc[p].size] \in ProcType
             /\ proc[p] \in ProcType
  <2>1. proc[p] \in ProcType
    BY DEF TypeOK, ProcType, Pcs
  <2>2. proc[p] = [pc |-> proc[p].pc, size |-> proc[p].size]
        /\ proc[p].size \in 0..MaxSize
    BY <2>1 DEF ProcType
  <2>. QED BY <1>2, <2>1, <2>2 DEF ProcType
<1>4. \A p \in Procs :
        proc'[p] = IF p = tx.from THEN [pc |-> c, size |-> proc[p].size]
                                  ELSE proc[p]
  BY <1>1, <1>3
<1>5. proc' \in [Procs -> ProcType]
  BY <1>1, <1>3
<1>. QED BY <1>4, <1>5 DEF c

(* The roots of the service's own heads are roots, and none is a foreign   *)
(* one.                                                                    *)
LEMMA RootFacts ==
  ASSUME NEW r \in 0..MaxRestarts
  PROVE  r \in Roots /\ r # ForeignRoot /\ r \in Nat
BY AnchorAssumption

(* A transaction whose waiting goroutine is gone is still a transaction.   *)
LEMMA OrphanFacts ==
  ASSUME NEW tx \in TxType, NEW q \in Procs \cup {NoProc}
  PROVE  /\ [tx EXCEPT !.from = q] \in TxType
         /\ [tx EXCEPT !.from = q].from = q
         /\ [tx EXCEPT !.from = q].size = tx.size
         /\ [tx EXCEPT !.from = q].root = tx.root
<1>1. tx = [from |-> tx.from, size |-> tx.size, root |-> tx.root]
  BY DEF TxType
<1>2. [tx EXCEPT !.from = q] = [from |-> q, size |-> tx.size, root |-> tx.root]
  BY <1>1
<1>. QED BY <1>2 DEF TxType

(* The contract keeps its types under what the service and others send it. *)
LEMMA ChainKeepsTypes ==
  ASSUME ChainTypeOK
  PROVE  /\ \A sender \in Addresses, s \in 0..MaxSize, r \in Roots :
              Commit(sender, s, r) => ChainTypeOK'
         /\ Govern => ChainTypeOK'
<1>1. ASSUME NEW sender \in Addresses, NEW s \in 0..MaxSize, NEW r \in Roots,
             Commit(sender, s, r)
      PROVE  ChainTypeOK'
  BY <1>1, CommitFacts DEF Commit, roles, ChainTypeOK
<1>2. ASSUME Govern PROVE ChainTypeOK'
  <2>1. ASSUME NEW sender \in Addresses \ {Service}, NEW s \in 1..MaxSize,
               Commit(sender, s, ForeignRoot)
        PROVE  ChainTypeOK'
    BY <1>1, <2>1, AnchorAssumption
  <2>. QED
    BY <1>2, <2>1 DEF Govern, SetCommitter, TransferOwnership, AcceptOwnership,
       ChainTypeOK
<1>. QED BY <1>1, <1>2

(* A new process, a new chain and an empty store have their types          *)
(* (NewCommitter, committer.go 55-87).                                     *)
LEMMA TypeInit == Init => TypeOK
<1> SUFFICES ASSUME Init PROVE TypeOK
  OBVIOUS
<1>1. ChainTypeOK
  BY DEF Init, ChainInit, ChainTypeOK
<1>2. Idle \in [pc : {"idle", "snapped", "sent", "mined", "reverted",
                      "ok", "set", "hung", "exited"}, size : 0..MaxSize]
  BY SizeAssumption DEF Idle
<1>3. latest \in [size : 0..MaxSize, root : 0..MaxRestarts]
  BY SizeAssumption, AnchorAssumption DEF Init, NoAnchor
<1>4. proc \in [Procs -> [pc : {"idle", "snapped", "sent", "mined", "reverted",
                                "ok", "set", "hung", "exited"},
                          size : 0..MaxSize]]
  BY <1>2 DEF Init
<1>5. size \in 0..MaxSize /\ last \in 0..MaxSize /\ life \in 0..MaxRestarts
      /\ errors \in 0..MaxErrors
  BY SizeAssumption, AnchorAssumption DEF Init
<1>. QED BY <1>1, <1>3, <1>4, <1>5 DEF Init, TypeOK

(* Every step of every goroutine, of the chain and of the outside keeps    *)
(* the types (committer.go 149-179, client.go 160-183).                    *)
LEMMA TypeStep == TypeOK /\ [Next]_vars => TypeOK'
<1> SUFFICES ASSUME TypeOK, [Next]_vars PROVE TypeOK'
  OBVIOUS
<1>0. /\ proc \in [Procs -> ProcType] /\ pool \subseteq TxType
      /\ size \in 0..MaxSize /\ life \in 0..MaxRestarts /\ last \in 0..MaxSize
      /\ errors \in 0..MaxErrors /\ ChainTypeOK
      /\ MaxSize \in Nat /\ MaxErrors \in Nat /\ MaxRestarts \in Nat
  BY SizeAssumption, AnchorAssumption DEF TypeOK, ProcType, Pcs, TxType
<1>m. ASSUME NEW p \in Procs, NEW c, NEW s, Moves(p, c, s)
      PROVE  proc' \in [Procs -> [pc : {"idle", "snapped", "sent", "mined",
                "reverted", "ok", "set", "hung", "exited"}, size : 0..MaxSize]]
  BY <1>m DEF Moves, ProcType, Pcs
<1>1. CASE Grow
  BY <1>0, <1>1 DEF Grow, TypeOK, chainVars, ChainTypeOK
<1>2. ASSUME NEW p \in Procs,
             Snapshot(p) \/ Skip(p) \/ Receipt(p) \/ Reverted(p)
      PROVE  TypeOK'
  <2>1. \E c, s : Moves(p, c, s)
    BY <1>2, PassMoves
  <2>. QED BY <1>2, <1>m, <2>1 DEF Snapshot, Skip, Receipt, Reverted, TypeOK,
              chainVars, ChainTypeOK
<1>3. ASSUME NEW p \in Procs, Send(p)
      PROVE  TypeOK'
  <2>1. proc[p].size \in 1..MaxSize
    BY <1>0, <1>3 DEF Send, Stale, ProcType
  <2>2. [from |-> p, size |-> proc[p].size, root |-> life] \in TxType
    BY <1>0, <2>1 DEF TxType
  <2>3. Moves(p, "sent", proc[p].size)
    BY <1>3, PassMoves
  <2>. QED BY <1>3, <1>m, <2>2, <2>3 DEF Send, TypeOK, TxType, chainVars,
              ChainTypeOK
<1>4. ASSUME NEW p \in Procs, CastFails(p) \/ CastHangs(p)
      PROVE  TypeOK'
  <2>1. pool' \subseteq TxType
    <3>1. \A tx \in pool : [tx EXCEPT !.from = NoProc] \in TxType
      BY <1>0, OrphanFacts
    <3>2. \A tx \in pool :
            [tx EXCEPT !.from = IF @ = p THEN NoProc ELSE @] \in TxType
      <4> SUFFICES ASSUME NEW tx \in pool
                   PROVE  [tx EXCEPT !.from = IF @ = p THEN NoProc ELSE @]
                            \in TxType
        OBVIOUS
      <4>1. tx.from \in Procs \cup {NoProc} /\ tx \in TxType
        BY <1>0 DEF TxType
      <4>. QED BY <4>1, OrphanFacts
    <3>. QED BY <1>0, <1>4, <3>1, <3>2 DEF CastFails, CastHangs
  <2>2. \E c, s : Moves(p, c, s)
    BY <1>4, PassMoves
  <2>3. errors' \in 0..MaxErrors
    BY <1>0, <1>4 DEF CastFails, CastHangs
  <2>. QED BY <1>4, <1>m, <2>1, <2>2, <2>3 DEF CastFails, CastHangs, TypeOK,
              TxType, chainVars, ChainTypeOK
<1>5. ASSUME NEW p \in Procs, FakeCommit(p)
      PROVE  TypeOK'
  <2>1. proc[p].size \in 0..MaxSize /\ Service \in Addresses /\ life \in Roots
    BY <1>0, AnchorAssumption, RootFacts DEF ProcType
  <2>2. ChainTypeOK'
    <3>1. Commit(Service, proc[p].size, life) \/ UNCHANGED chainVars
      BY <1>5, PassMoves
    <3>. QED BY <1>0, <2>1, <3>1, ChainKeepsTypes DEF chainVars, ChainTypeOK
  <2>3. \E c, s : Moves(p, c, s)
    BY <1>5, PassMoves
  <2>4. errors' \in 0..MaxErrors
    BY <1>0, <1>5 DEF FakeCommit
  <2>. QED BY <1>5, <1>m, <2>2, <2>3, <2>4 DEF FakeCommit, TypeOK
<1>6. ASSUME NEW p \in Procs, SetLatest(p) \/ StoreLast(p)
      PROVE  TypeOK'
  <2>1. proc[p].size \in 0..MaxSize
    BY <1>0 DEF ProcType
  <2>2. \E c, s : Moves(p, c, s)
    BY <1>6, PassMoves
  <2>. QED BY <1>0, <1>6, <1>m, <2>1, <2>2 DEF SetLatest, StoreLast, TypeOK,
              chainVars, ChainTypeOK
<1>7. ASSUME NEW tx \in pool, Mine(tx)
      PROVE  TypeOK'
  <2>1. tx.size \in 0..MaxSize /\ tx.root \in Roots
    BY <1>0, RootFacts DEF TxType
  <2>2. ChainTypeOK'
    BY <1>0, <1>7, <2>1, ChainKeepsTypes, AnchorAssumption
       DEF Mine, chainVars, ChainTypeOK
  <2>3. proc' \in [Procs -> ProcType]
    BY <1>7, MineMoves
  <2>. QED BY <1>7, <2>2, <2>3 DEF Mine, TypeOK, ProcType, Pcs
<1>8. CASE Stop \/ LoopExit
  <2>1. Loop \in Procs
    BY DEF Procs
  <2>2. UNCHANGED proc \/ \E c, s : Moves(Loop, c, s)
    BY <1>8, <2>1, PassMoves DEF Stop
  <2>. QED BY <1>8, <1>m, <2>1, <2>2 DEF Stop, LoopExit, TypeOK, chainVars,
              ChainTypeOK
<1>9. CASE Restart
  <2>1. proc' \in [Procs -> ProcType]
    <3>1. Idle \in ProcType
      BY SizeAssumption DEF Idle, ProcType, Pcs
    <3>. QED BY <1>9, <3>1 DEF Restart
  <2>2. pool' \subseteq TxType
    BY <1>0, <1>9, OrphanFacts DEF Restart
  <2>3. ChainTypeOK'
    BY <1>0, <1>9 DEF Restart, roles, ChainTypeOK
  <2>4. life' \in 0..MaxRestarts /\ latest' \in [size : 0..MaxSize,
                                                 root : 0..MaxRestarts]
    BY <1>0, <1>9 DEF Restart, NoAnchor
  <2>5. size' \in 0..MaxSize /\ last' \in 0..MaxSize /\ errors' \in 0..MaxErrors
    BY <1>0, <1>9 DEF Restart
  <2>6. cast' \in Modes /\ stop' \in BOOLEAN
    BY <1>9 DEF Restart, TypeOK
  <2>. QED BY <2>1, <2>2, <2>3, <2>4, <2>5, <2>6 DEF TypeOK, ProcType, Pcs, TxType
<1>10. CASE Govern
  <2>1. ChainTypeOK'
    BY <1>0, <1>10, ChainKeepsTypes
  <2>. QED BY <1>10, <2>1 DEF Govern, service, TypeOK
<1>11. CASE UNCHANGED vars
  BY <1>11 DEF vars, service, chainVars, TypeOK, ChainTypeOK
<1>. QED
  BY <1>1, <1>2, <1>3, <1>4, <1>5, <1>6, <1>7, <1>8, <1>9, <1>10, <1>11
     DEF Next, Pass

(* Type correctness of the anchoring service and of the contract it        *)
(* commits to.                                                             *)
THEOREM AnchorTypeCorrect == Spec => []TypeOK
BY TypeInit, TypeStep, PTL DEF Spec

-----------------------------------------------------------------------------
(* The inductive invariant.                                                *)

(* A transaction somebody waits for is the one that goroutine sent, in     *)
(* this life (client.go 160-183).                                          *)
Waiting ==
  \A tx \in pool : tx.from \in Procs =>
    /\ proc[tx.from].pc = "sent"
    /\ tx.size = proc[tx.from].size
    /\ tx.root = life

(* Between the receipt and the last of the two writes that report it, the  *)
(* head is on the chain (committer.go 164-179).                            *)
Acknowledged ==
  \A p \in Procs : proc[p].pc \in {"mined", "ok", "set"}
                     => Anchored(proc[p].size, life)

(* No head from the future: neither in a goroutine, nor under way, nor on  *)
(* the chain, which holds nothing of a later life (committer.go 151-165).  *)
NoFutureHead ==
  /\ \A p \in Procs : proc[p].size <= size
  /\ \A tx \in pool : tx.root <= life /\ (tx.root = life => tx.size <= size)
  /\ \A i \in DOMAIN anchors :
       anchors[i].root # ForeignRoot => anchors[i].root \in 0..life

(* A head of the given size and root is on the chain after the step.       *)
Held(s, r) == \E i \in DOMAIN anchors' :
                anchors'[i].size = s /\ anchors'[i].root = r

(* What a commit adds to the chain and what it leaves there                *)
(* (AuditAnchor.sol 76-88).                                                *)
LEMMA CommitAnchors ==
  ASSUME ChainTypeOK, NEW sender \in Addresses, NEW s \in 0..MaxSize,
         NEW r \in Roots, Commit(sender, s, r)
  PROVE  /\ \A s0, r0 : Anchored(s0, r0) => Held(s0, r0)
         /\ Held(s, r)
         /\ \A i \in DOMAIN anchors' :
              \/ i \in DOMAIN anchors /\ anchors'[i] = anchors[i]
              \/ anchors'[i].size = s /\ anchors'[i].root = r
<1>1. /\ Len(anchors) \in Nat
      /\ DOMAIN anchors = 1..Len(anchors)
      /\ DOMAIN anchors' = 1..(Len(anchors) + 1)
      /\ \A i \in 1..Len(anchors) : anchors'[i] = anchors[i]
      /\ anchors'[Len(anchors) + 1] = [size |-> s, root |-> r, by |-> sender]
  BY CommitFacts
<1>2. anchors'[Len(anchors) + 1].size = s /\ anchors'[Len(anchors) + 1].root = r
  BY <1>1
<1>3. DOMAIN anchors \subseteq DOMAIN anchors'
      /\ Len(anchors) + 1 \in DOMAIN anchors'
  BY <1>1
<1>4. \A i \in DOMAIN anchors' : i \in DOMAIN anchors \/ i = Len(anchors) + 1
  BY <1>1
<1>. QED BY <1>1, <1>2, <1>3, <1>4 DEF Anchored, Held

(* What any step but a restart does to the list: what was anchored stays,  *)
(* and what is new was sent by a goroutine, or by another committer        *)
(* (committer.go 164, client.go 160-183, AuditAnchor.sol 76-88).           *)
LEMMA StepAnchors ==
  ASSUME TypeOK, [Next]_vars, ~Restart
  PROVE  /\ \A s0, r0 : Anchored(s0, r0) => Held(s0, r0)
         /\ \A i \in DOMAIN anchors' :
              \/ i \in DOMAIN anchors /\ anchors'[i] = anchors[i]
              \/ anchors'[i].root = ForeignRoot
              \/ \E p \in Procs : anchors'[i].root = life
                                    /\ anchors'[i].size = proc[p].size
              \/ \E tx \in pool : anchors'[i].root = tx.root
                                    /\ anchors'[i].size = tx.size
<1> DEFINE Kept == \A s0, r0 : Anchored(s0, r0) => Held(s0, r0)
           New == \A i \in DOMAIN anchors' :
                    \/ i \in DOMAIN anchors /\ anchors'[i] = anchors[i]
                    \/ anchors'[i].root = ForeignRoot
                    \/ \E p \in Procs : anchors'[i].root = life
                                          /\ anchors'[i].size = proc[p].size
                    \/ \E tx \in pool : anchors'[i].root = tx.root
                                          /\ anchors'[i].size = tx.size
<1>0. /\ ChainTypeOK /\ Service \in Addresses /\ life \in Roots
      /\ ForeignRoot \in Roots
      /\ \A p \in Procs : proc[p].size \in 0..MaxSize
      /\ \A tx \in pool : tx.size \in 0..MaxSize /\ tx.root \in Roots
  BY RootFacts, AnchorAssumption DEF TypeOK
<1>1. ASSUME anchors' = anchors PROVE Kept /\ New
  BY <1>1 DEF Anchored, Held
<1>2. ASSUME NEW p \in Procs, FakeCommit(p) PROVE Kept /\ New
  <2>1. CASE Commit(Service, proc[p].size, life)
    BY <1>0, <2>1, CommitAnchors
  <2>. QED BY <1>1, <1>2, <2>1 DEF FakeCommit, chainVars
<1>3. ASSUME NEW tx \in pool, Mine(tx) PROVE Kept /\ New
  <2>1. CASE Commit(Service, tx.size, tx.root)
    BY <1>0, <2>1, CommitAnchors
  <2>. QED BY <1>1, <1>3, <2>1 DEF Mine, chainVars
<1>4. CASE Govern
  <2>1. ASSUME NEW sender \in Addresses, NEW s \in 1..MaxSize,
               Commit(sender, s, ForeignRoot)
        PROVE  Kept /\ New
    BY <1>0, <2>1, CommitAnchors
  <2>. QED BY <1>1, <1>4, <2>1
              DEF Govern, SetCommitter, TransferOwnership, AcceptOwnership
<1>5. \/ anchors' = anchors
      \/ \E p \in Procs : FakeCommit(p)
      \/ \E tx \in pool : Mine(tx)
      \/ Govern
  BY DEF Next, Pass, Grow, Snapshot, Skip, Send, Receipt, Reverted, CastFails,
     CastHangs, SetLatest, StoreLast, Stop, LoopExit, vars, chainVars
<1>. QED BY <1>1, <1>2, <1>3, <1>4, <1>5

(* A goroutine's step disturbs nobody else's transaction (client.go        *)
(* 160-183).                                                               *)
LEMMA WaitingStep ==
  ASSUME TypeOK, Waiting, [Next]_vars
  PROVE  Waiting'
<1>0. /\ pool \subseteq TxType
      /\ NoProc \notin Procs /\ Loop \in Procs
  BY AnchorAssumption DEF TypeOK, TxType, Procs
<1>1. ASSUME NEW p \in Procs, NEW c, NEW s, Moves(p, c, s),
             proc[p].pc # "sent", pool' = pool, life' = life
      PROVE  Waiting'
  BY <1>1 DEF Moves, Waiting
<1>2. ASSUME NEW p \in Procs,
             \/ Snapshot(p) \/ Skip(p) \/ Receipt(p) \/ Reverted(p)
             \/ FakeCommit(p) \/ SetLatest(p) \/ StoreLast(p)
      PROVE  Waiting'
  <2>1. \E c, s : Moves(p, c, s)
    BY <1>2, PassMoves
  <2>. QED BY <1>1, <1>2, <2>1 DEF Snapshot, Skip, Receipt, Reverted,
              FakeCommit, SetLatest, StoreLast
<1>3. CASE LoopExit
  <2>1. \E c, s : Moves(Loop, c, s)
    BY <1>0, <1>3, PassMoves
  <2>. QED BY <1>0, <1>1, <1>3, <2>1 DEF LoopExit
<1>4. ASSUME NEW p \in Procs, Send(p)
      PROVE  Waiting'
  <2> DEFINE new == [from |-> p, size |-> proc[p].size, root |-> life]
  <2>1. /\ proc'[p].pc = "sent" /\ proc'[p].size = proc[p].size
        /\ \A q \in Procs \ {p} : proc'[q] = proc[q]
    BY <1>4, PassMoves DEF Moves
  <2>2. \A tx \in pool : tx.from # p
    BY <1>4 DEF Send, Waiting
  <2>3. pool' = pool \cup {new} /\ life' = life
    BY <1>4 DEF Send
  <2>4. new.from = p /\ new.size = proc[p].size /\ new.root = life
    OBVIOUS
  <2> HIDE DEF new
  <2>. QED BY <2>1, <2>2, <2>3, <2>4 DEF Waiting
<1>5. ASSUME NEW p \in Procs, CastFails(p) \/ CastHangs(p)
      PROVE  Waiting'
  <2>1. /\ \A q \in Procs \ {p} : proc'[q] = proc[q]
        /\ life' = life
    BY <1>5, PassMoves DEF Moves, CastFails, CastHangs
  <2>2. \A tx \in pool' : tx.from = NoProc \/ (tx \in pool /\ tx.from # p)
    <3> DEFINE orphan(tx) == [tx EXCEPT !.from = NoProc]
    <3>1. \A tx \in pool : orphan(tx).from = NoProc
      BY <1>0, OrphanFacts
    <3>2. CASE CastFails(p)
      <4>1. ASSUME NEW tx \in pool'
            PROVE  \/ tx \in pool /\ tx.from # p
                   \/ \E t \in pool : tx = orphan(t)
        BY <3>2, <4>1 DEF CastFails
      <4> HIDE DEF orphan
      <4>. QED BY <3>1, <4>1
    <3>3. CASE CastHangs(p)
      <4> DEFINE kept(tx) == [tx EXCEPT !.from = IF @ = p THEN NoProc ELSE @]
      <4>1. ASSUME NEW tx \in pool
            PROVE  kept(tx).from = NoProc \/ (kept(tx) = tx /\ tx.from # p)
        <5>1. tx = [from |-> tx.from, size |-> tx.size, root |-> tx.root]
          BY <1>0 DEF TxType
        <5>2. CASE tx.from = p
          <6>1. kept(tx) = orphan(tx)
            BY <5>2
          <6>. QED BY <3>1, <6>1
        <5>3. CASE tx.from # p
          BY <5>1, <5>3
        <5>. QED BY <5>2, <5>3
      <4>2. \A tx \in pool' : \E t \in pool : tx = kept(t)
        BY <3>3 DEF CastHangs
      <4> HIDE DEF kept
      <4>. QED BY <4>1, <4>2
    <3>. QED BY <1>5, <3>2, <3>3
  <2>. QED BY <1>0, <2>1, <2>2 DEF Waiting
<1>6. ASSUME NEW tx \in pool, Mine(tx)
      PROVE  Waiting'
  <2>1. \A p \in Procs : p # tx.from => proc'[p] = proc[p]
    BY <1>6, MineMoves
  <2>2. pool' = pool \ {tx} /\ life' = life
    BY <1>6 DEF Mine
  <2>3. ASSUME NEW t \in pool, t.from \in Procs, t.from = tx.from
        PROVE  t = tx
    <3>1. t.size = tx.size /\ t.root = tx.root
      BY <2>3 DEF Waiting
    <3>. QED BY <1>0, <2>3, <3>1 DEF TxType
  <2>. QED BY <2>1, <2>2, <2>3 DEF Waiting
<1>7. CASE Restart
  <2> DEFINE orphan(tx) == [tx EXCEPT !.from = NoProc]
  <2>1. \A tx \in pool : orphan(tx).from = NoProc
    BY <1>0, OrphanFacts
  <2>2. \A tx \in pool' : \E t \in pool : tx = orphan(t)
    BY <1>7 DEF Restart
  <2> HIDE DEF orphan
  <2>. QED BY <1>0, <2>1, <2>2 DEF Waiting
<1>8. ASSUME UNCHANGED <<proc, pool, life>>
      PROVE  Waiting'
  BY <1>8 DEF Waiting
<1>. QED
  BY <1>2, <1>3, <1>4, <1>5, <1>6, <1>7, <1>8
     DEF Next, Pass, Grow, Stop, Govern, vars, service

(* A head is acknowledged only once it is on the chain, when `cast send`   *)
(* fails for a transaction that reverts (client.go 165-183).               *)
LEMMA AcknowledgedStep ==
  ASSUME RevertIsError, TypeOK, Waiting, Acknowledged, [Next]_vars
  PROVE  Acknowledged'
<1>0. Loop \in Procs
  BY DEF Procs
<1>1. CASE Restart
  <2>1. \A p \in Procs : proc'[p].pc = "idle"
    BY <1>1 DEF Restart, Idle
  <2>. QED BY <2>1 DEF Acknowledged
<1> SUFFICES ASSUME ~Restart PROVE Acknowledged'
  BY <1>1
<1>k. \A s0, r0 : Anchored(s0, r0) => Held(s0, r0)
  BY StepAnchors
<1>2. life' = life
  BY DEF Next, Pass, Grow, Snapshot, Skip, Send, Receipt, Reverted, CastFails,
     CastHangs, FakeCommit, SetLatest, StoreLast, Mine, Stop, LoopExit, Govern,
     service, vars
<1>3. ASSUME NEW p \in Procs, NEW c, NEW s, Moves(p, c, s),
             c \in {"mined", "ok", "set"} => Held(s, life)
      PROVE  Acknowledged'
  <2> SUFFICES ASSUME NEW q \in Procs, proc'[q].pc \in {"mined", "ok", "set"}
               PROVE  Held(proc'[q].size, life)
    BY <1>2 DEF Acknowledged, Anchored, Held
  <2>1. CASE q = p
    BY <1>3, <2>1 DEF Moves
  <2>2. CASE q # p
    <3>1. proc'[q] = proc[q]
      BY <1>3, <2>2 DEF Moves
    <3>. QED BY <1>k, <3>1 DEF Acknowledged
  <2>. QED BY <2>1, <2>2
<1>4. ASSUME NEW p \in Procs, Receipt(p) \/ SetLatest(p)
      PROVE  Acknowledged'
  <2>1. Held(proc[p].size, life)
    BY <1>4, <1>k DEF Receipt, SetLatest, Acknowledged
  <2>2. \E c : Moves(p, c, proc[p].size)
    BY <1>4, PassMoves
  <2>. QED BY <1>3, <2>1, <2>2
<1>5. ASSUME NEW p \in Procs,
             \/ Snapshot(p) \/ Skip(p) \/ Send(p) \/ Reverted(p)
             \/ CastFails(p) \/ CastHangs(p) \/ StoreLast(p)
      PROVE  Acknowledged'
  <2>1. \E c \in {"snapped", "idle", "sent", "hung"} : \E s : Moves(p, c, s)
    BY <1>5, PassMoves
  <2>. QED BY <1>3, <2>1
<1>6. ASSUME NEW p \in Procs, FakeCommit(p)
      PROVE  Acknowledged'
  <2>1. CASE Moves(p, "ok", proc[p].size) /\ Commit(Service, proc[p].size, life)
    <3>1. Held(proc[p].size, life)
      <4>1. ChainTypeOK /\ Service \in Addresses /\ life \in Roots
            /\ proc[p].size \in 0..MaxSize
        BY RootFacts, AnchorAssumption DEF TypeOK
      <4>. QED BY <2>1, <4>1, CommitAnchors
    <3>. QED BY <1>3, <2>1, <3>1
  <2>2. CASE Moves(p, "idle", 0)
    BY <1>3, <2>2
  <2>. QED BY <1>6, <2>1, <2>2, PassMoves
<1>7. ASSUME NEW tx \in pool, Mine(tx)
      PROVE  Acknowledged'
  <2>0. ChainTypeOK /\ Service \in Addresses
        /\ tx.size \in 0..MaxSize /\ tx.root \in Roots
    BY RootFacts, AnchorAssumption DEF TypeOK
  <2> SUFFICES ASSUME NEW q \in Procs, proc'[q].pc \in {"mined", "ok", "set"}
               PROVE  Held(proc'[q].size, life)
    BY <1>2 DEF Acknowledged, Anchored, Held
  <2>1. CASE q = tx.from
    <3>1. /\ proc'[q].size = proc[q].size
          /\ proc'[q].pc = IF Accepts(Service, tx.size) THEN "mined"
                                                        ELSE "reverted"
      BY <1>7, <2>1, MineMoves
    <3>2. Commit(Service, tx.size, tx.root)
      BY <1>7, <3>1 DEF Mine
    <3>3. tx.size = proc[q].size /\ tx.root = life
      BY <2>1 DEF Waiting
    <3>. QED BY <2>0, <3>1, <3>2, <3>3, CommitAnchors
  <2>2. CASE q # tx.from
    <3>1. proc'[q] = proc[q]
      BY <1>7, <2>2, MineMoves
    <3>. QED BY <1>k, <3>1 DEF Acknowledged
  <2>. QED BY <2>1, <2>2
<1>8. CASE LoopExit
  <2>1. Moves(Loop, "exited", proc[Loop].size)
    BY <1>0, <1>8, PassMoves
  <2>. QED BY <1>0, <1>3, <2>1
<1>9. ASSUME UNCHANGED proc
      PROVE  Acknowledged'
  <2> SUFFICES ASSUME NEW q \in Procs, proc'[q].pc \in {"mined", "ok", "set"}
               PROVE  Held(proc'[q].size, life)
    BY <1>2 DEF Acknowledged, Anchored, Held
  <2>. QED BY <1>k, <1>9 DEF Acknowledged
<1>. QED
  BY <1>4, <1>5, <1>6, <1>7, <1>8, <1>9
     DEF Next, Pass, Grow, Stop, Govern, vars, service

(* What the service reports stays on the chain until it forgets it, and a  *)
(* dry-run list is lost only together with the report (committer.go        *)
(* 164-179).                                                               *)
LEMMA ReportedStep ==
  ASSUME TypeOK, Acknowledged, ReportedIsAnchored, [Next]_vars
  PROVE  ReportedIsAnchored'
<1>1. CASE Restart
  BY <1>1 DEF Restart, NoAnchor, ReportedIsAnchored
<1> SUFFICES ASSUME ~Restart PROVE ReportedIsAnchored'
  BY <1>1
<1>k. \A s0, r0 : Anchored(s0, r0) => Held(s0, r0)
  BY StepAnchors
<1>2. life' = life
  BY DEF Next, Pass, Grow, Snapshot, Skip, Send, Receipt, Reverted, CastFails,
     CastHangs, FakeCommit, SetLatest, StoreLast, Mine, Stop, LoopExit, Govern,
     service, vars
<1> SUFFICES /\ latest'.size > 0 =>
                  Held(latest'.size, latest'.root) /\ latest'.root = life
             /\ last' > 0 => Held(last', life)
  BY <1>2 DEF ReportedIsAnchored, Anchored, Held
<1>3. ASSUME NEW p \in Procs, SetLatest(p)
      PROVE  latest'.size > 0 =>
               Held(latest'.size, latest'.root) /\ latest'.root = life
  <2>1. latest'.size = proc[p].size /\ latest'.root = life
    BY <1>3 DEF SetLatest
  <2>2. Held(proc[p].size, life)
    BY <1>3, <1>k DEF SetLatest, Acknowledged
  <2>. QED BY <2>1, <2>2
<1>4. ASSUME NEW p \in Procs, StoreLast(p)
      PROVE  Held(last', life)
  <2>1. last' = proc[p].size
    BY <1>4 DEF StoreLast
  <2>. QED BY <1>4, <1>k, <2>1 DEF StoreLast, Acknowledged
<1>5. latest' = latest \/ \E p \in Procs : SetLatest(p)
  BY DEF Next, Pass, Grow, Snapshot, Skip, Send, Receipt, Reverted, CastFails,
     CastHangs, FakeCommit, StoreLast, Mine, Stop, LoopExit, Govern, service,
     vars
<1>6. last' = last \/ \E p \in Procs : StoreLast(p)
  BY DEF Next, Pass, Grow, Snapshot, Skip, Send, Receipt, Reverted, CastFails,
     CastHangs, FakeCommit, SetLatest, Mine, Stop, LoopExit, Govern, service,
     vars
<1>. QED BY <1>3, <1>4, <1>5, <1>6, <1>k DEF ReportedIsAnchored

(* A head is snapped from the tree, sent and mined no larger than the tree *)
(* is; a restart starts a root nothing carries yet (committer.go 151-165). *)
LEMMA HeadsStep ==
  ASSUME TypeOK, NoFutureHead, AnchorsAreHeads, [Next]_vars
  PROVE  NoFutureHead' /\ AnchorsAreHeads'
<1>0. /\ size \in Nat /\ life \in 0..MaxRestarts /\ MaxRestarts \in Nat
      /\ proc \in [Procs -> ProcType] /\ pool \subseteq TxType
      /\ \A p \in Procs : proc[p].size \in Nat
      /\ \A tx \in pool : tx.size \in Nat /\ tx.root \in 0..MaxRestarts
      /\ Loop \in Procs
  BY AnchorAssumption, SizeAssumption DEF TypeOK, ProcType, Pcs, TxType, Procs
<1>a. \A i \in DOMAIN anchors : anchors[i].size \in Nat
  <2>1. \A i \in DOMAIN anchors : anchors[i] \in AnchorType
    BY DEF TypeOK, ChainTypeOK
  <2>. QED BY <2>1 DEF AnchorType
<1>1. CASE Restart
  <2>1. /\ life' = life + 1 /\ life' \in 0..MaxRestarts /\ size' = 0
        /\ \A p \in Procs : proc'[p].size = 0
    BY <1>0, <1>1 DEF Restart, Idle
  <2>2. \A i \in DOMAIN anchors' :
          i \in DOMAIN anchors /\ anchors'[i] = anchors[i]
    BY <1>1 DEF Restart
  <2>3. \A i \in DOMAIN anchors' :
          /\ anchors'[i].root # ForeignRoot => anchors'[i].root \in 0..life
          /\ anchors'[i].root # life'
    <3>1. life' # ForeignRoot
      BY <2>1, RootFacts
    <3>. QED BY <1>0, <2>1, <2>2, <3>1 DEF NoFutureHead
  <2>4. \A tx \in pool' : tx.root <= life
    <3> DEFINE orphan(tx) == [tx EXCEPT !.from = NoProc]
    <3>1. \A tx \in pool : orphan(tx).root = tx.root
      BY <1>0, OrphanFacts
    <3>2. \A tx \in pool' : \E t \in pool : tx = orphan(t)
      BY <1>1 DEF Restart
    <3> HIDE DEF orphan
    <3>. QED BY <3>1, <3>2 DEF NoFutureHead
  <2>5. \A tx \in pool' : tx.root \in Nat
    <3>1. TypeOK'
      BY TypeStep
    <3>. QED BY <3>1 DEF TypeOK
  <2>. QED BY <1>0, <2>1, <2>2, <2>3, <2>4, <2>5
              DEF NoFutureHead, AnchorsAreHeads
<1> SUFFICES ASSUME ~Restart PROVE NoFutureHead' /\ AnchorsAreHeads'
  BY <1>1
<1>2. life' = life /\ size' \in {size, size + 1}
  BY DEF Next, Pass, Grow, Snapshot, Skip, Send, Receipt, Reverted, CastFails,
     CastHangs, FakeCommit, SetLatest, StoreLast, Mine, Stop, LoopExit, Govern,
     service, vars
<1>3. \A p \in Procs : proc'[p].size <= size
  <2>1. ASSUME NEW p \in Procs, NEW c, NEW s, Moves(p, c, s), s <= size
        PROVE  \A q \in Procs : proc'[q].size <= size
    BY <2>1 DEF Moves, NoFutureHead
  <2>2. ASSUME NEW p \in Procs, Snapshot(p) \/ Pass(p) \/ CastHangs(p)
        PROVE  \A q \in Procs : proc'[q].size <= size
    <3>1. \E c : \E s \in {0, size, proc[p].size} : Moves(p, c, s)
      BY <2>2, PassMoves DEF Pass
    <3>2. 0 <= size /\ size <= size /\ proc[p].size <= size
      BY <1>0 DEF NoFutureHead
    <3>. QED BY <2>1, <3>1, <3>2
  <2>3. CASE LoopExit
    <3>1. Moves(Loop, "exited", proc[Loop].size)
      BY <1>0, <2>3, PassMoves
    <3>. QED BY <1>0, <2>1, <3>1 DEF NoFutureHead
  <2>4. ASSUME NEW tx \in pool, Mine(tx)
        PROVE  \A q \in Procs : proc'[q].size <= size
    <3>1. \A q \in Procs : proc'[q].size = proc[q].size
      BY <2>4, MineMoves
    <3>. QED BY <3>1 DEF NoFutureHead
  <2>5. ASSUME UNCHANGED proc
        PROVE  \A q \in Procs : proc'[q].size <= size
    BY <2>5 DEF NoFutureHead
  <2>. QED BY <2>2, <2>3, <2>4, <2>5 DEF Next, Grow, Stop, Govern, service, vars
<1>4. \A tx \in pool' : tx.root <= life /\ (tx.root = life => tx.size <= size)
  <2> DEFINE Ok(tx) == tx.root <= life /\ (tx.root = life => tx.size <= size)
  <2>0. \A tx \in pool : Ok(tx)
    BY DEF NoFutureHead
  <2>1. ASSUME NEW p \in Procs, Send(p)
        PROVE  \A tx \in pool' : Ok(tx)
    <3> DEFINE new == [from |-> p, size |-> proc[p].size, root |-> life]
    <3>1. pool' = pool \cup {new}
      BY <2>1 DEF Send
    <3>2. Ok(new)
      BY <1>0 DEF NoFutureHead
    <3> HIDE DEF new, Ok
    <3>. QED BY <2>0, <3>1, <3>2
  <2>2. ASSUME NEW p \in Procs, CastFails(p) \/ CastHangs(p)
        PROVE  \A tx \in pool' : Ok(tx)
    <3> DEFINE orphan(tx) == [tx EXCEPT !.from = NoProc]
               kept(tx) == [tx EXCEPT !.from = IF @ = p THEN NoProc ELSE @]
    <3>1. \A tx \in pool : Ok(orphan(tx))
      <4>1. \A tx \in pool : orphan(tx).root = tx.root
                               /\ orphan(tx).size = tx.size
        BY <1>0, OrphanFacts
      <4> HIDE DEF orphan
      <4>. QED BY <2>0, <4>1
    <3>2. \A tx \in pool : Ok(kept(tx))
      <4>1. ASSUME NEW tx \in pool
            PROVE  kept(tx).root = tx.root /\ kept(tx).size = tx.size
        <5>1. tx = [from |-> tx.from, size |-> tx.size, root |-> tx.root]
          BY <1>0 DEF TxType
        <5>. QED BY <5>1
      <4> HIDE DEF kept
      <4>. QED BY <2>0, <4>1
    <3>3. \A tx \in pool' : \/ tx \in pool
                            \/ \E t \in pool : tx = orphan(t) \/ tx = kept(t)
      BY <2>2 DEF CastFails, CastHangs
    <3> HIDE DEF Ok, orphan, kept
    <3>. QED BY <2>0, <3>1, <3>2, <3>3
  <2>3. \/ pool' \subseteq pool
        \/ \E p \in Procs : Send(p) \/ CastFails(p) \/ CastHangs(p)
    BY DEF Next, Pass, Grow, Snapshot, Skip, Receipt, Reverted, FakeCommit,
       SetLatest, StoreLast, Mine, Stop, LoopExit, Govern, vars
  <2> HIDE DEF Ok
  <2>4. \A tx \in pool' : Ok(tx)
    BY <2>0, <2>1, <2>2, <2>3
  <2>. QED BY <2>4 DEF Ok
<1>5. \A i \in DOMAIN anchors' :
        /\ anchors'[i].root # ForeignRoot => anchors'[i].root \in 0..life
        /\ anchors'[i].root = life => anchors'[i].size <= size
  <2> SUFFICES ASSUME NEW i \in DOMAIN anchors'
               PROVE  /\ anchors'[i].root # ForeignRoot
                           => anchors'[i].root \in 0..life
                      /\ anchors'[i].root = life => anchors'[i].size <= size
    OBVIOUS
  <2>1. CASE i \in DOMAIN anchors /\ anchors'[i] = anchors[i]
    BY <2>1 DEF NoFutureHead, AnchorsAreHeads
  <2>2. CASE anchors'[i].root = ForeignRoot
    BY <1>0, <2>2, RootFacts
  <2>3. CASE \E p \in Procs : anchors'[i].root = life
                                /\ anchors'[i].size = proc[p].size
    BY <1>0, <2>3 DEF NoFutureHead
  <2>4. CASE \E tx \in pool : anchors'[i].root = tx.root
                                /\ anchors'[i].size = tx.size
    BY <1>0, <2>4 DEF NoFutureHead
  <2>. QED BY <2>1, <2>2, <2>3, <2>4, StepAnchors
<1>6. /\ \A p \in Procs : proc'[p].size \in Nat
      /\ \A tx \in pool' : tx.size \in Nat
      /\ \A i \in DOMAIN anchors' : anchors'[i].size \in Nat
  <2>1. TypeOK'
    BY TypeStep
  <2>2. \A i \in DOMAIN anchors' : anchors'[i] \in AnchorType
    BY <2>1 DEF TypeOK, ChainTypeOK
  <2>. QED BY <2>1, <2>2 DEF TypeOK, AnchorType
<1>. QED BY <1>0, <1>2, <1>3, <1>4, <1>5, <1>6 DEF NoFutureHead, AnchorsAreHeads

(* What the service reports or remembers as committed was mined in this    *)
(* life, for any number of concurrent passes, errors, hangs, rotations of  *)
(* the committer and restarts, provided `cast send` exits with an error    *)
(* when its transaction reverts (committer.go 164-179).                    *)
THEOREM ReportsAreAnchored ==
  ASSUME RevertIsError
  PROVE  Spec => []ReportedIsAnchored
<1>1. Init => Waiting /\ Acknowledged /\ ReportedIsAnchored
  BY DEF Init, Waiting, Acknowledged, ReportedIsAnchored, Idle, NoAnchor
<1>2. TypeOK /\ Waiting /\ Acknowledged /\ ReportedIsAnchored /\ [Next]_vars
        => Waiting' /\ Acknowledged' /\ ReportedIsAnchored'
  BY WaitingStep, AcknowledgedStep, ReportedStep
<1>. QED BY <1>1, <1>2, AnchorTypeCorrect, PTL DEF Spec

(* Every anchor of a life is a head its log really had, even one mined     *)
(* from a transaction the service gave up on, and whatever `cast` returns  *)
(* (committer.go 151-165).                                                 *)
THEOREM AnchoredHeadsExisted == Spec => []AnchorsAreHeads
<1>1. Init => NoFutureHead /\ AnchorsAreHeads
  BY DEF Init, ChainInit, NoFutureHead, AnchorsAreHeads, Idle
<1>2. TypeOK /\ NoFutureHead /\ AnchorsAreHeads /\ [Next]_vars
        => NoFutureHead' /\ AnchorsAreHeads'
  BY HeadsStep
<1>. QED BY <1>1, <1>2, AnchorTypeCorrect, PTL DEF Spec

(* The service's traffic keeps the contract's promise: sizes grow along    *)
(* the list, across restarts of the service and rotations of its address   *)
(* (AuditAnchor.sol 71-88).                                                *)
LEMMA ServiceSizesStep ==
  ASSUME TypeOK, SizesIncrease, [Next]_vars
  PROVE  SizesIncrease'
<1>0. /\ ChainTypeOK /\ Service \in Addresses /\ life \in Roots
      /\ ForeignRoot \in Roots
      /\ \A p \in Procs : proc[p].size \in 0..MaxSize
      /\ \A tx \in pool : tx.size \in 0..MaxSize /\ tx.root \in Roots
  BY RootFacts, AnchorAssumption DEF TypeOK
<1>1. CASE \E p \in Procs : Commit(Service, proc[p].size, life)
  BY <1>0, <1>1, CommitIncreases
<1>2. CASE \E tx \in pool : Commit(Service, tx.size, tx.root)
  BY <1>0, <1>2, CommitIncreases
<1>3. CASE \E sender \in Addresses, s \in 1..MaxSize :
             Commit(sender, s, ForeignRoot)
  BY <1>0, <1>3, CommitIncreases
<1>4. CASE anchors' = anchors \/ anchors' = <<>>
  BY <1>4 DEF SizesIncrease
<1>. QED
  <2>1. CASE Restart
    BY <1>4, <2>1 DEF Restart
  <2>2. CASE Govern
    BY <1>3, <1>4, <2>2
       DEF Govern, SetCommitter, TransferOwnership, AcceptOwnership
  <2>3. ASSUME NEW p \in Procs, FakeCommit(p)
        PROVE  SizesIncrease'
    BY <1>1, <1>4, <2>3 DEF FakeCommit, chainVars
  <2>4. ASSUME NEW tx \in pool, Mine(tx)
        PROVE  SizesIncrease'
    BY <1>2, <1>4, <2>4 DEF Mine, chainVars
  <2>5. \/ anchors' = anchors
        \/ \E p \in Procs : FakeCommit(p)
        \/ \E tx \in pool : Mine(tx)
        \/ Govern \/ Restart
    BY DEF Next, Pass, Grow, Snapshot, Skip, Send, Receipt, Reverted, CastFails,
       CastHangs, SetLatest, StoreLast, Stop, LoopExit, vars, chainVars
  <2>. QED BY <1>4, <2>1, <2>2, <2>3, <2>4, <2>5

(* However the service, its retries and its restarts use the contract, any *)
(* two anchors have different sizes, in the order of their ids.            *)
THEOREM ServiceAnchorsGrow == Spec => []SizesIncrease
<1>1. Init => SizesIncrease
  BY DEF Init, ChainInit, SizesIncrease
<1>. QED BY <1>1, ServiceSizesStep, AnchorTypeCorrect, PTL DEF Spec

-----------------------------------------------------------------------------
(***************************************************************************)
(* KeyServer and Dashboard.                                                *)
(***************************************************************************)

ReqType == [pc : {"idle", "sent", "handling", "answered", "reset"},
            what : {"head", "anchor"}, val : Answers, live : BOOLEAN]

(* Request q becomes r; the others stay.                                   *)
Becomes(q, r) ==
  /\ requests' \in [Requests -> ReqType]
  /\ requests'[q] = r
  /\ \A o \in Requests \ {q} : requests'[o] = requests[o]

(* The process takes no step that Anchor does not know: what it starts,    *)
(* stops and kills moves the committer by the committer's own steps        *)
(* (main.go 53-110).                                                       *)
LEMMA AnchorStepsOfPage ==
  ASSUME [PageNext]_pageVars
  PROVE  \/ UNCHANGED vars \/ Restart \/ Stop \/ Grow \/ Snapshot(Loop)
         \/ LoopExit \/ Govern
         \/ \E tx \in pool : Mine(tx)
         \/ \E p \in Procs : Pass(p) \/ CastHangs(p)
<1>1. CASE ServerNext
  BY <1>1 DEF ServerNext, StartFails, Start, Listen, ListenFails, Killed,
     Signal, StopReturns, StopTimesOut, DrainReturns, DrainTimesOut, Ends,
     Accept, Handle, OpenStream, LeaveStream, Submitted, Ticks, Exits,
     Included, CommitterSteps
<1>2. CASE ~ServerNext
  BY <1>2 DEF PageNext, Poll, Deliver, Rejects, TimesOut, Remount, pageVars,
     serverVars
<1>. QED BY <1>1, <1>2

(* So a step of the page and the server is a step of the anchoring         *)
(* service, or leaves it alone (main.go 34-69).                            *)
LEMMA PageStepIsStep == [PageNext]_pageVars => [Next]_vars
<1>1. Loop \in Procs
  BY DEF Procs
<1>. QED BY <1>1, AnchorStepsOfPage DEF Next

(* Whatever is proved of the anchoring service holds of the process that   *)
(* runs it and of the page's view of it.                                   *)
THEOREM PageRunsAnchor == PageSpec => Spec
<1>1. PageInit => Init
  BY DEF PageInit, ServerInit
<1>. QED BY <1>1, PageStepIsStep, PTL DEF PageSpec, Spec

(* What the handlers answer (anchor/http handler.go 47-66).                *)
LEMMA ServedFacts ==
  ASSUME TypeOK, NEW what
  PROVE  Served(what) \in Answers
<1>1. /\ latest \in [size : 0..MaxSize, root : 0..MaxRestarts]
      /\ size \in 0..MaxSize /\ life \in 0..MaxRestarts
      /\ 0 \in 0..MaxSize
  BY SizeAssumption DEF TypeOK
<1>2. latest.root \in Roots /\ life \in Roots /\ ForeignRoot \in Roots
  BY <1>1, RootFacts, AnchorAssumption
<1>3. latest = [size |-> latest.size, root |-> latest.root]
  BY <1>1
<1>4. latest \in Answers /\ MerkleHead \in Answers /\ NoData \in Answers
  BY <1>1, <1>2, <1>3 DEF Answers, MerkleHead, NoData
<1>. QED BY <1>4 DEF Served, LatestAnchor, Latest

(* What each step makes of a request (usePoll.ts 20-39, api.ts).           *)
LEMMA RequestMoves ==
  ASSUME PageTypeOK, NEW q \in Requests
  PROVE  /\ Poll(q) => Becomes(q, [pc |-> "sent", what |-> hook,
                                   val |-> requests[q].val,
                                   live |-> requests[q].live])
         /\ Accept(q) => Becomes(q, [pc |-> "handling",
                                     what |-> requests[q].what,
                                     val |-> requests[q].val,
                                     live |-> requests[q].live])
         /\ Handle(q) => Becomes(q, [pc |-> "answered",
                                     what |-> requests[q].what,
                                     val |-> Served(requests[q].what),
                                     live |-> requests[q].live])
         /\ Ended(q) => Becomes(q, IdleRequest)
<1>0. /\ requests \in [Requests -> ReqType] /\ hook \in {"head", "anchor"}
      /\ TypeOK
  BY DEF PageTypeOK, ServerTypeOK, ReqType
<1> DEFINE r == requests[q]
<1>1. /\ r \in ReqType
      /\ r = [pc |-> r.pc, what |-> r.what, val |-> r.val, live |-> r.live]
      /\ r.what \in {"head", "anchor"} /\ r.val \in Answers
      /\ r.live \in BOOLEAN
  BY <1>0 DEF ReqType
<1>2. ASSUME NEW new \in ReqType, requests' = [requests EXCEPT ![q] = new]
      PROVE  Becomes(q, new)
  BY <1>0, <1>2 DEF Becomes
<1>3. Served(r.what) \in Answers
  BY <1>0, ServedFacts
<1>4. Poll(q) => Becomes(q, [pc |-> "sent", what |-> hook, val |-> r.val,
                             live |-> r.live])
  <2> DEFINE new == [pc |-> "sent", what |-> hook, val |-> r.val,
                     live |-> r.live]
  <2>1. new \in ReqType
    BY <1>0, <1>1 DEF ReqType
  <2>2. Poll(q) => requests' = [requests EXCEPT ![q] = new]
    BY <1>1 DEF Poll
  <2> HIDE DEF new
  <2>3. Poll(q) => Becomes(q, new)
    BY <1>2, <2>1, <2>2
  <2>. QED BY <2>3 DEF new
<1>5. Accept(q) => Becomes(q, [pc |-> "handling", what |-> r.what,
                               val |-> r.val, live |-> r.live])
  <2> DEFINE new == [pc |-> "handling", what |-> r.what, val |-> r.val,
                     live |-> r.live]
  <2>1. new \in ReqType
    BY <1>1 DEF ReqType
  <2>2. Accept(q) => requests' = [requests EXCEPT ![q] = new]
    BY <1>1 DEF Accept
  <2> HIDE DEF new
  <2>3. Accept(q) => Becomes(q, new)
    BY <1>2, <2>1, <2>2
  <2>. QED BY <2>3 DEF new
<1>6. Handle(q) => Becomes(q, [pc |-> "answered", what |-> r.what,
                               val |-> Served(r.what), live |-> r.live])
  <2> DEFINE new == [pc |-> "answered", what |-> r.what,
                     val |-> Served(r.what), live |-> r.live]
  <2>1. new \in ReqType
    BY <1>1, <1>3 DEF ReqType
  <2>2. Handle(q) => requests' = [requests EXCEPT ![q] = new]
    BY <1>1 DEF Handle
  <2> HIDE DEF new
  <2>3. Handle(q) => Becomes(q, new)
    BY <1>2, <2>1, <2>2
  <2>. QED BY <2>3 DEF new
<1>7. Ended(q) => Becomes(q, IdleRequest)
  <2>1. NoData \in Answers
    BY SizeAssumption, AnchorAssumption DEF NoData, Answers
  <2>2. IdleRequest \in ReqType
    BY <2>1 DEF IdleRequest, ReqType
  <2> HIDE DEF Becomes
  <2>. QED BY <1>2, <2>2 DEF Ended
<1>. QED BY <1>4, <1>5, <1>6, <1>7

(* Every step of the process and of the page keeps the types.              *)
LEMMA PageTypeStep == PageTypeOK /\ [PageNext]_pageVars => PageTypeOK'
<1> SUFFICES ASSUME PageTypeOK, [PageNext]_pageVars PROVE PageTypeOK'
  OBVIOUS
<1>0. requests \in [Requests -> ReqType] /\ TypeOK
  BY DEF PageTypeOK, ServerTypeOK, ReqType
<1>1. TypeOK'
  BY <1>0, PageStepIsStep, TypeStep
<1>2. UNCHANGED <<mode, cast, hook, slots>>
  <2>1. UNCHANGED mode /\ UNCHANGED <<hook, slots>>
    BY DEF PageNext, ServerNext, StartFails, Start, Listen, ListenFails, Killed,
       Signal, StopReturns, StopTimesOut, DrainReturns, DrainTimesOut, Ends,
       Accept, Handle, OpenStream, LeaveStream, Submitted, Ticks, Exits,
       Included, CommitterSteps, Committing, Poll, Deliver, Rejects, TimesOut,
       Remount, process, page, pageVars, serverVars
  <2>2. UNCHANGED cast
    BY PageStepIsStep
       DEF Next, Pass, Grow, Snapshot, Skip, Send, Receipt, Reverted, CastFails,
       CastHangs, FakeCommit, SetLatest, StoreLast, Mine, Stop, LoopExit,
       Restart, Govern, service, vars
  <2>. QED BY <2>1, <2>2
<1>3. /\ main' \in {"down", "serving", "stopping", "draining"}
      /\ listener' \in {"none", "open", "closed"}
      /\ status' \in {None, 0, 1, 2}
  BY DEF PageNext, ServerNext, StartFails, Start, Listen, ListenFails, Killed,
     Signal, Shutdown, StopReturns, StopTimesOut, DrainReturns, DrainTimesOut,
     Ends, Accept, Handle, OpenStream, LeaveStream, Submitted, Ticks, Exits,
     Included, CommitterSteps, Committing, Poll, Deliver, Rejects, TimesOut,
     Remount, process, page, pageVars, serverVars, PageTypeOK, ServerTypeOK
<1>4. lost' \in BOOLEAN /\ stream' \in BOOLEAN
  <2>0. lost \in BOOLEAN /\ stream \in BOOLEAN
    BY DEF PageTypeOK, ServerTypeOK
  <2>1. lost' \in {lost, FALSE, Active # {}}
    BY DEF PageNext, ServerNext, StartFails, Start, Listen, ListenFails, Killed,
       Signal, StopReturns, StopTimesOut, DrainReturns, DrainTimesOut,
       Ends, Accept, Handle, OpenStream, LeaveStream, Submitted, Ticks, Exits,
       Included, CommitterSteps, Committing, Poll, Deliver, Rejects, TimesOut,
       Remount, process, pageVars, serverVars
  <2>2. stream' \in {stream, TRUE, FALSE}
    BY DEF PageNext, ServerNext, StartFails, Start, Listen, ListenFails, Killed,
       Signal, StopReturns, StopTimesOut, DrainReturns, DrainTimesOut,
       Ends, Accept, Handle, OpenStream, LeaveStream, Submitted, Ticks, Exits,
       Included, CommitterSteps, Committing, Poll, Deliver, Rejects, TimesOut,
       Remount, http, pageVars, serverVars
  <2>. QED BY <2>0, <2>1, <2>2
<1>5. requests' \in [Requests -> ReqType]
  <2>1. ASSUME NEW q \in Requests, NEW r, Becomes(q, r)
        PROVE  requests' \in [Requests -> ReqType]
    BY <2>1 DEF Becomes
  <2>2. ASSUME NEW q \in Requests,
               \/ Poll(q) \/ Accept(q) \/ Handle(q) \/ Ended(q)
        PROVE  requests' \in [Requests -> ReqType]
    <3>1. \E r : Becomes(q, r)
      BY <2>2, RequestMoves
    <3>. QED BY <2>1, <3>1
  <2>3. ASSUME NEW code, Ends(code)
        PROVE  requests' \in [Requests -> ReqType]
    <3>1. ASSUME NEW q \in Requests
          PROVE  [requests[q] EXCEPT !.pc = "reset"] \in ReqType
      <4> DEFINE r == requests[q]
      <4>1. /\ r = [pc |-> r.pc, what |-> r.what, val |-> r.val,
                    live |-> r.live]
            /\ r \in ReqType
        BY <1>0 DEF ReqType
      <4>2. [r EXCEPT !.pc = "reset"] = [pc |-> "reset", what |-> r.what,
                                         val |-> r.val, live |-> r.live]
        BY <4>1
      <4>. QED BY <4>1, <4>2 DEF ReqType
    <3>. QED BY <1>0, <2>3, <3>1 DEF Ends
  <2>4. CASE Remount
    <3>1. ASSUME NEW q \in Requests
          PROVE  [requests[q] EXCEPT !.live = requests[q].pc = "idle"]
                   \in ReqType
      <4> DEFINE r == requests[q]
      <4>1. /\ r = [pc |-> r.pc, what |-> r.what, val |-> r.val,
                    live |-> r.live]
            /\ r \in ReqType
        BY <1>0 DEF ReqType
      <4>2. \A b \in BOOLEAN :
              [r EXCEPT !.live = b] = [pc |-> r.pc, what |-> r.what,
                                       val |-> r.val, live |-> b]
        BY <4>1
      <4>3. \A b \in BOOLEAN : [r EXCEPT !.live = b] \in ReqType
        BY <4>1, <4>2 DEF ReqType
      <4>. QED BY <4>3
    <3>. QED BY <2>4, <3>1 DEF Remount
  <2>5. \/ \E q \in Requests : Poll(q) \/ Accept(q) \/ Handle(q) \/ Ended(q)
        \/ \E code \in {0, 1, 2} : Ends(code)
        \/ Remount
        \/ UNCHANGED requests
    BY DEF PageNext, ServerNext, StartFails, Start, Listen, ListenFails, Killed,
       Signal, StopReturns, StopTimesOut, DrainReturns, DrainTimesOut,
       OpenStream, LeaveStream, Submitted, Ticks, Exits,
       Included, CommitterSteps, Committing, Deliver, Rejects, TimesOut, http,
       pageVars, serverVars
  <2>. QED BY <1>0, <2>2, <2>3, <2>4, <2>5
<1>6. data' \in Answers
  <2>1. \A q \in Requests : requests[q].val \in Answers
    BY <1>0 DEF ReqType
  <2>. QED BY <2>1 DEF PageNext, Poll, Deliver, Shown, Rejects, TimesOut,
              Remount, page, pageVars, PageTypeOK
<1>7. faults' \in Nat
  <2>1. faults' = faults \/ (faults > 0 /\ faults' = faults - 1)
    BY DEF PageNext, Poll, Deliver, Rejects, TimesOut, Remount, page, pageVars
  <2>2. faults \in Nat
    BY DEF PageTypeOK
  <2>. QED BY <2>1, <2>2
<1>8. ServerTypeOK'
  BY <1>1, <1>2, <1>3, <1>4, <1>5 DEF PageTypeOK, ServerTypeOK, ReqType
<1>. QED BY <1>2, <1>6, <1>7, <1>8 DEF PageTypeOK

(* Type correctness of the process and of the page.                        *)
THEOREM PageTypeCorrect == PageSpec => []PageTypeOK
<1>1. PageInit => PageTypeOK
  <2> SUFFICES ASSUME PageInit PROVE PageTypeOK
    OBVIOUS
  <2>1. TypeOK
    BY TypeInit DEF PageInit, ServerInit
  <2>2. NoData \in Answers
    BY SizeAssumption, AnchorAssumption DEF NoData, Answers
  <2>3. IdleRequest \in ReqType
    BY <2>2 DEF IdleRequest, ReqType
  <2>4. requests \in [Requests -> ReqType]
    BY <2>3 DEF PageInit, ServerInit
  <2>5. /\ hook \in {"head", "anchor"} /\ slots \subseteq Requests
        /\ faults \in Nat
    BY DashboardAssumption DEF PageInit
  <2>6. {stream, lost} \subseteq BOOLEAN /\ cast = (mode = "cast")
    BY DEF PageInit, ServerInit
  <2>. QED BY <2>1, <2>2, <2>4, <2>5, <2>6
              DEF PageInit, ServerInit, PageTypeOK, ServerTypeOK, ReqType
<1>. QED BY <1>1, PageTypeStep, PTL DEF PageSpec

-----------------------------------------------------------------------------
(* In the process only the loop commits (main.go 53-79).                   *)
LoopOnly == \A p \in Procs \ {Loop} : proc[p].pc = "idle"

(* The two records of the last commit differ only between the two writes   *)
(* (committer.go 171-177).                                                 *)
Recorded ==
  /\ proc[Loop].pc # "set" => last = latest.size
  /\ proc[Loop].pc = "set" => latest.size = proc[Loop].size

(* What is under way is larger than what was committed (committer.go       *)
(* 155-160).                                                               *)
Fresh == proc[Loop].pc \in {"sent", "mined", "reverted", "ok"}
           => proc[Loop].size > last

(* One committer at a time keeps its two records together, in whatever     *)
(* pass errors, reverts, hangs and signals leave it (committer.go 101-179, *)
(* main.go 91-110).                                                        *)
LEMMA LoopStep ==
  ASSUME TypeOK, Waiting, LoopOnly, Recorded, Fresh, [PageNext]_pageVars
  PROVE  LoopOnly' /\ Recorded' /\ Fresh'
<1>0. /\ Loop \in Procs /\ NoProc \notin Procs
      /\ proc \in [Procs -> ProcType]
      /\ \A p \in Procs : proc[p].size \in Nat
      /\ last \in Nat
  BY SizeAssumption, AnchorAssumption DEF TypeOK, Procs, ProcType, Pcs
<1>1. ASSUME NEW c, NEW s, Moves(Loop, c, s)
      PROVE  /\ LoopOnly'
             /\ proc'[Loop].pc = c /\ proc'[Loop].size = s
  BY <1>1 DEF Moves, LoopOnly
<1>2. ASSUME NEW p \in Procs, Pass(p) \/ CastHangs(p)
      PROVE  p = Loop
  <2>1. proc[p].pc # "idle"
    BY <1>2 DEF Pass, Skip, Send, Receipt, Reverted, CastFails, FakeCommit,
       SetLatest, StoreLast, CastHangs
  <2>. QED BY <2>1 DEF LoopOnly
<1>3. CASE \/ Snapshot(Loop) \/ Skip(Loop) \/ Receipt(Loop) \/ Reverted(Loop)
           \/ CastFails(Loop) \/ CastHangs(Loop) \/ FakeCommit(Loop)
           \/ Send(Loop) \/ LoopExit
  <2>1. UNCHANGED <<last, latest>> /\ proc[Loop].pc # "set"
    BY <1>3 DEF Snapshot, Skip, Receipt, Reverted, CastFails, CastHangs,
       FakeCommit, Send, LoopExit
  <2>2. ASSUME NEW c \in {"snapped", "idle", "hung", "exited"}, NEW s,
               Moves(Loop, c, s)
        PROVE  LoopOnly' /\ Recorded' /\ Fresh'
    BY <1>1, <2>1, <2>2 DEF Recorded, Fresh
  <2>3. ASSUME NEW c \in {"sent", "ok"}, Moves(Loop, c, proc[Loop].size),
               proc[Loop].size > last
        PROVE  LoopOnly' /\ Recorded' /\ Fresh'
    BY <1>1, <2>1, <2>3 DEF Recorded, Fresh
  <2>4. CASE Snapshot(Loop) \/ Skip(Loop) \/ CastFails(Loop) \/ CastHangs(Loop)
                \/ LoopExit
    <3>1. \E c \in {"snapped", "idle", "hung", "exited"} : \E s :
            Moves(Loop, c, s)
      BY <1>0, <2>4, PassMoves
    <3>. QED BY <2>2, <3>1
  <2>5. CASE Send(Loop) \/ FakeCommit(Loop)
    <3>1. proc[Loop].size > last
      BY <1>0, <2>5 DEF Send, FakeCommit, Stale
    <3>2. \/ Moves(Loop, "sent", proc[Loop].size)
          \/ Moves(Loop, "ok", proc[Loop].size)
          \/ Moves(Loop, "idle", 0)
      BY <1>0, <2>5, PassMoves
    <3>. QED BY <2>2, <2>3, <3>1, <3>2
  <2>6. CASE Receipt(Loop) \/ Reverted(Loop)
    <3>1. proc[Loop].size > last
      BY <2>6 DEF Receipt, Reverted, Fresh
    <3>2. Moves(Loop, "ok", proc[Loop].size) \/ Moves(Loop, "idle", 0)
      BY <1>0, <2>6, PassMoves
    <3>. QED BY <2>2, <2>3, <3>1, <3>2
  <2>. QED BY <1>3, <2>4, <2>5, <2>6
<1>4. CASE SetLatest(Loop)
  <2>1. LoopOnly' /\ proc'[Loop].pc = "set" /\ proc'[Loop].size = proc[Loop].size
    BY <1>0, <1>1, <1>4, PassMoves
  <2>2. latest'.size = proc[Loop].size
    BY <1>4 DEF SetLatest
  <2>. QED BY <2>1, <2>2 DEF Recorded, Fresh
<1>5. CASE StoreLast(Loop)
  <2>1. LoopOnly' /\ proc'[Loop].pc = "idle"
    BY <1>0, <1>1, <1>5, PassMoves
  <2>2. last' = proc[Loop].size /\ latest' = latest /\ proc[Loop].pc = "set"
    BY <1>5 DEF StoreLast
  <2>. QED BY <2>1, <2>2 DEF Recorded, Fresh
<1>6. ASSUME NEW tx \in pool, Mine(tx)
      PROVE  LoopOnly' /\ Recorded' /\ Fresh'
  <2>1. UNCHANGED <<last, latest>>
    BY <1>6 DEF Mine
  <2>2. tx.from \in Procs => tx.from = Loop /\ proc[Loop].pc = "sent"
    BY DEF Waiting, LoopOnly
  <2>3. \A p \in Procs : p # tx.from => proc'[p] = proc[p]
    BY <1>6, MineMoves
  <2>4. LoopOnly'
    BY <2>2, <2>3 DEF LoopOnly
  <2>5. CASE tx.from = Loop
    <3>1. /\ proc'[Loop].pc \in {"mined", "reverted"}
          /\ proc'[Loop].size = proc[Loop].size
      BY <1>0, <1>6, <2>5, MineMoves
    <3>. QED BY <1>0, <2>1, <2>2, <2>4, <2>5, <3>1 DEF Recorded, Fresh
  <2>6. CASE tx.from # Loop
    <3>1. proc'[Loop] = proc[Loop]
      BY <1>0, <2>3, <2>6
    <3>. QED BY <2>1, <2>4, <3>1 DEF Recorded, Fresh
  <2>. QED BY <2>5, <2>6
<1>7. CASE Restart
  <2>1. /\ \A p \in Procs : proc'[p].pc = "idle"
        /\ last' = latest'.size
    BY <1>7 DEF Restart, Idle, NoAnchor
  <2>. QED BY <1>0, <2>1 DEF LoopOnly, Recorded, Fresh
<1>8. ASSUME UNCHANGED <<proc, last, latest>>
      PROVE  LoopOnly' /\ Recorded' /\ Fresh'
  BY <1>8 DEF LoopOnly, Recorded, Fresh
<1>9. \A p \in Procs : Pass(p) \/ CastHangs(p) => Pass(Loop) \/ CastHangs(Loop)
  BY <1>2
<1>. QED
  BY <1>3, <1>4, <1>5, <1>6, <1>7, <1>8, <1>9, AnchorStepsOfPage
     DEF Pass, Stop, Grow, Govern, vars, service

(* What main takes for clean is clean: when the loop has closed done, its  *)
(* two records of the last commit agree and nobody waits for what it sent; *)
(* and status 0 means that no request was cut off (committer.go 101-109    *)
(* and 164-177, main.go 91-110).                                           *)
THEOREM CleanExitIsClean == PageSpec => []CleanMeansClean
<1> DEFINE NoneLost == main = "down" /\ status = 0 => ~lost
<1>1. PageInit => LoopOnly /\ Recorded /\ Fresh /\ Waiting /\ NoneLost
  <2>1. Loop \in Procs
    BY DEF Procs
  <2>. QED BY <2>1 DEF PageInit, ServerInit, Init, LoopOnly, Recorded, Fresh,
              Waiting, Idle, NoAnchor, None
<1>2. ASSUME NoneLost, [PageNext]_pageVars PROVE NoneLost'
  <2>1. CASE DrainReturns
    BY <2>1 DEF DrainReturns, Drained, Ends
  <2>2. CASE ListenFails \/ Killed \/ DrainTimesOut \/ StartFails \/ Start
    <3>1. status' # 0
      BY <2>2 DEF ListenFails, Killed, DrainTimesOut, Ends, StartFails, Start,
         None
    <3>. QED BY <3>1
  <2>3. CASE \/ UNCHANGED <<main, status, lost>>
             \/ main' # "down"
    BY <1>2, <2>3
  <2>. QED
    BY <1>2, <2>1, <2>2, <2>3 DEF PageNext, ServerNext, Listen, Signal,
       Shutdown, StopReturns, StopTimesOut, Accept, Handle, OpenStream,
       LeaveStream, Submitted, Ticks, Exits, Included, CommitterSteps,
       Committing, Poll, Deliver, Rejects, TimesOut, Remount, process,
       pageVars, serverVars
<1>3. ASSUME TypeOK, Waiting, LoopOnly, Recorded, Fresh, NoneLost,
             [PageNext]_pageVars
      PROVE  (Waiting /\ LoopOnly /\ Recorded /\ Fresh /\ NoneLost)'
  BY <1>2, <1>3, LoopStep, WaitingStep, PageStepIsStep
<1>4. Waiting /\ Recorded /\ NoneLost => CleanMeansClean
  <2>1. Loop \in Procs
    BY DEF Procs
  <2>. QED BY <2>1 DEF Waiting, Recorded, CleanMeansClean
<1>5. PageTypeOK => TypeOK
  BY DEF PageTypeOK, ServerTypeOK
<1>. QED BY <1>1, <1>3, <1>4, <1>5, PageTypeCorrect, PTL DEF PageSpec

-----------------------------------------------------------------------------
(* An answer about anchors that is under way to the page is about an       *)
(* anchor (usePoll.ts 20-39, anchor/http handler.go 47-66).                *)
AnswerIsAnchored ==
  hook = "anchor" => \A q \in Requests :
    /\ requests[q].pc # "idle" => requests[q].what = "anchor"
    /\ requests[q].pc = "answered" /\ requests[q].val # NoData /\ cast
         => Anchored(requests[q].val.size, requests[q].val.root)

(* On a real chain what is anchored stays anchored, through the end of the *)
(* process too (AuditAnchor.sol 44-46).                                    *)
LEMMA AnchoredStays ==
  ASSUME TypeOK, cast, [Next]_vars
  PROVE  \A s, r : Anchored(s, r) => Held(s, r)
<1>1. CASE Restart
  BY <1>1 DEF Restart, Anchored, Held
<1>. QED BY <1>1, StepAnchors

(* An answer is read from the store at one moment and shown at another:    *)
(* what it says stays true in between (anchor.go 57-77, usePoll.ts 22-32). *)
LEMMA ShownStep ==
  ASSUME PageTypeOK, ReportedIsAnchored, AnswerIsAnchored, ShownIsAnchored,
         [PageNext]_pageVars
  PROVE  AnswerIsAnchored' /\ ShownIsAnchored'
<1>0. TypeOK /\ requests \in [Requests -> ReqType]
  BY DEF PageTypeOK, ServerTypeOK, ReqType
<1>1. hook' = hook /\ cast' = cast
  <2>1. hook' = hook
    BY DEF PageNext, Poll, Deliver, Rejects, TimesOut, Remount, page, pageVars
  <2>2. UNCHANGED cast
    BY PageStepIsStep
       DEF Next, Pass, Grow, Snapshot, Skip, Send, Receipt, Reverted, CastFails,
       CastHangs, FakeCommit, SetLatest, StoreLast, Mine, Stop, LoopExit,
       Restart, Govern, service, vars
  <2>. QED BY <2>1, <2>2
<1>k. cast => \A s, r : Anchored(s, r) => Held(s, r)
  BY <1>0, PageStepIsStep, AnchoredStays
<1>2. ShownIsAnchored'
  <2> SUFFICES ASSUME hook = "anchor", data' # NoData, cast
               PROVE  Held(data'.size, data'.root)
    BY <1>1 DEF ShownIsAnchored, Anchored, Held, NoData
  <2>1. \/ data' = data
        \/ \E q \in Requests : requests[q].pc = "answered"
                                 /\ data' = requests[q].val
    BY DEF PageNext, Poll, Deliver, Shown, Rejects, TimesOut, Remount, page,
       pageVars
  <2>2. Anchored(data'.size, data'.root) \/ Held(data'.size, data'.root)
    BY <1>k, <2>1 DEF ShownIsAnchored, AnswerIsAnchored
  <2>. QED BY <1>k, <2>2
<1>3. AnswerIsAnchored'
  <2> DEFINE Good(r) == /\ r.pc # "idle" => r.what = "anchor"
                        /\ r.pc = "answered" /\ r.val # NoData /\ cast
                             => Held(r.val.size, r.val.root)
  <2> SUFFICES ASSUME hook = "anchor", NEW q \in Requests
               PROVE  Good(requests'[q])
    BY <1>1 DEF AnswerIsAnchored, Anchored, Held, NoData
  <2>0. \A o \in Requests : Good(requests[o])
    BY <1>k DEF AnswerIsAnchored
  <2>1. ASSUME NEW o \in Requests, NEW r, Becomes(o, r), Good(r)
        PROVE  Good(requests'[q])
    <3> HIDE DEF Good
    <3>. QED BY <2>0, <2>1 DEF Becomes
  <2>2. ASSUME NEW o \in Requests, Poll(o) \/ Accept(o)
        PROVE  Good(requests'[q])
    <3>1. requests[o].pc = "sent" => requests[o].what = "anchor"
      BY DEF AnswerIsAnchored
    <3>2. \E c \in {"sent", "handling"} :
            Becomes(o, [pc |-> c, what |-> "anchor", val |-> requests[o].val,
                        live |-> requests[o].live])
      BY <2>2, <3>1, RequestMoves DEF Accept
    <3>. QED BY <2>1, <3>2
  <2>3. ASSUME NEW o \in Requests, Handle(o)
        PROVE  Good(requests'[q])
    <3> DEFINE v == LatestAnchor
    <3>1. requests[o].what = "anchor"
      BY <2>3 DEF Handle, AnswerIsAnchored
    <3>2. v # NoData => v = latest /\ latest.size > 0
      BY <1>0 DEF LatestAnchor, Latest, TypeOK
    <3>3. v # NoData /\ cast => Held(v.size, v.root)
      BY <1>k, <3>2 DEF ReportedIsAnchored
    <3>4. Becomes(o, [pc |-> "answered", what |-> "anchor", val |-> v,
                      live |-> requests[o].live])
      BY <2>3, <3>1, RequestMoves DEF Served
    <3> HIDE DEF v
    <3>. QED BY <2>1, <3>3, <3>4
  <2>4. ASSUME NEW o \in Requests, Ended(o)
        PROVE  Good(requests'[q])
    <3>1. Good(IdleRequest)
      BY DEF IdleRequest
    <3>2. Becomes(o, IdleRequest)
      BY <2>4, RequestMoves
    <3> HIDE DEF Good
    <3>. QED BY <2>1, <3>1, <3>2
  <2>5. ASSUME \/ \E code \in {0, 1, 2} : Ends(code)
               \/ Remount
        PROVE  Good(requests'[q])
    <3> DEFINE r == requests[q]
    <3>1. /\ r = [pc |-> r.pc, what |-> r.what, val |-> r.val,
                  live |-> r.live]
      BY <1>0 DEF ReqType
    <3>2. \/ requests'[q] = r
          \/ r.pc = "handling" /\ requests'[q] = [r EXCEPT !.pc = "reset"]
          \/ \E b \in BOOLEAN : requests'[q] = [r EXCEPT !.live = b]
      BY <2>5 DEF Ends, Active, Remount
    <3>3. \/ requests'[q] = r
          \/ /\ r.pc = "handling"
             /\ requests'[q].pc = "reset" /\ requests'[q].what = r.what
          \/ /\ requests'[q].pc = r.pc /\ requests'[q].what = r.what
             /\ requests'[q].val = r.val
      BY <3>1, <3>2
    <3>. QED BY <2>0, <3>3
  <2>6. \/ \E o \in Requests : Poll(o) \/ Accept(o) \/ Handle(o) \/ Ended(o)
        \/ \E code \in {0, 1, 2} : Ends(code)
        \/ Remount
        \/ UNCHANGED requests
    BY DEF PageNext, ServerNext, StartFails, Start, Listen, ListenFails, Killed,
       Signal, StopReturns, StopTimesOut, DrainReturns, DrainTimesOut,
       OpenStream, LeaveStream, Submitted, Ticks, Exits,
       Included, CommitterSteps, Committing, Deliver, Rejects, TimesOut, http,
       pageVars, serverVars
  <2>7. CASE UNCHANGED requests
    <3> HIDE DEF Good
    <3>. QED BY <2>0, <2>7
  <2>. QED BY <2>2, <2>3, <2>4, <2>5, <2>6, <2>7
<1>. QED BY <1>2, <1>3

(* What the page shows as anchored was mined, although answers overtake    *)
(* one another and the service that gave them may be gone (usePoll.ts      *)
(* 22-32, anchor/http handler.go 47-66), provided `cast send` fails for a  *)
(* transaction that reverts.                                               *)
THEOREM PageShowsAnchored ==
  ASSUME RevertIsError
  PROVE  PageSpec => []ShownIsAnchored
<1>1. PageInit => AnswerIsAnchored /\ ShownIsAnchored
  BY DEF PageInit, ServerInit, IdleRequest, AnswerIsAnchored, ShownIsAnchored
<1>. QED
  BY <1>1, ShownStep, PageTypeCorrect, PageRunsAnchor, ReportsAreAnchored, PTL
     DEF PageSpec

-----------------------------------------------------------------------------
(* The refinement of AnchorWitness.                                        *)
SizesOf(a) == [i \in DOMAIN a |-> a[i].size]

Ledger == SizesOf(anchors)

(* The ledger has a number for every anchor of the list.                   *)
LEMMA LedgerFacts ==
  ASSUME NEW a \in Seq(AnchorType)
  PROVE  /\ SizesOf(a) \in Seq(Nat)
         /\ Len(SizesOf(a)) = Len(a)
         /\ DOMAIN SizesOf(a) = DOMAIN a
         /\ \A i \in DOMAIN a : SizesOf(a)[i] = a[i].size
<1> DEFINE n == Len(a)
<1>1. n \in Nat /\ DOMAIN a = 1..n
  OBVIOUS
<1>2. \A i \in 1..n : a[i].size \in Nat
  <2>1. \A i \in 1..n : a[i] \in AnchorType
    BY <1>1
  <2>. QED BY <2>1 DEF AnchorType
<1>3. SizesOf(a) = [i \in 1..n |-> a[i].size]
  BY <1>1 DEF SizesOf
<1> HIDE DEF n
<1>4. SizesOf(a) \in Seq(Nat) /\ Len(SizesOf(a)) = n /\ DOMAIN SizesOf(a) = 1..n
  BY <1>1, <1>2, <1>3
<1>. QED BY <1>1, <1>3, <1>4 DEF n

(* A commit, by whomever, extends the ledger with a larger head            *)
(* (AuditAnchor.sol 76-88).                                                *)
LEMMA CommitExtends ==
  ASSUME ChainTypeOK, NEW sender \in Addresses, NEW s \in 0..MaxSize,
         NEW r \in Roots, Commit(sender, s, r), latest' = latest
  PROVE  Witness!Extend
<1>1. /\ Len(anchors) \in Nat
      /\ Len(anchors') = Len(anchors) + 1
      /\ DOMAIN anchors = 1..Len(anchors)
      /\ DOMAIN anchors' = 1..(Len(anchors) + 1)
      /\ \A i \in 1..Len(anchors) : anchors'[i] = anchors[i]
      /\ anchors'[Len(anchors) + 1].size = s
      /\ s > LastSize
  BY CommitFacts
<1>2. ChainTypeOK'
  BY ChainKeepsTypes
<1>3. /\ Ledger' \in Seq(Nat)
      /\ Len(Ledger') = Len(anchors')
      /\ DOMAIN Ledger' = DOMAIN anchors'
      /\ \A i \in DOMAIN anchors' : Ledger'[i] = anchors'[i].size
  BY <1>2, LedgerFacts DEF ChainTypeOK, Ledger
<1>4. /\ Ledger \in Seq(Nat)
      /\ Len(Ledger) = Len(anchors)
      /\ DOMAIN Ledger = DOMAIN anchors
      /\ \A i \in DOMAIN anchors : Ledger[i] = anchors[i].size
  BY LedgerFacts DEF ChainTypeOK, Ledger
<1>5. LastSize = IF Ledger = <<>> THEN 0 ELSE Ledger[Len(Ledger)]
  <2>1. (Ledger = <<>>) <=> (anchors = <<>>)
    <3>1. anchors \in Seq(AnchorType)
      BY DEF ChainTypeOK
    <3>. QED BY <1>4, <3>1
  <2>2. anchors # <<>> => Len(anchors) \in DOMAIN anchors
    <3>1. anchors \in Seq(AnchorType)
      BY DEF ChainTypeOK
    <3>. QED BY <3>1
  <2>. QED BY <1>4, <2>1, <2>2 DEF LastSize
<1> HIDE DEF Ledger
<1>6. /\ Len(Ledger') = Len(Ledger) + 1
      /\ \A i \in DOMAIN Ledger : Ledger'[i] = Ledger[i]
      /\ Ledger'[Len(Ledger')] > (IF Ledger = <<>> THEN 0
                                                   ELSE Ledger[Len(Ledger)])
  BY <1>1, <1>3, <1>4, <1>5, SMTT(30)
<1>. QED BY <1>6 DEF Ledger, SizesOf, Witness!Extend, Witness!LedgerHead

(* Every step of the process and of the page is a step of the witness, or  *)
(* one it does not see (committer.go 151-179, main.go 91-110).             *)
LEMMA WitnessStep ==
  ASSUME RevertIsError, TypeOK, Waiting, Acknowledged, LoopOnly, Recorded, Fresh,
         [PageNext]_pageVars
  PROVE  \/ Witness!Extend \/ Witness!Learn \/ Witness!Forget
         \/ UNCHANGED <<Ledger, latest.size>>
<1>0. /\ ChainTypeOK /\ Service \in Addresses /\ life \in Roots
      /\ ForeignRoot \in Roots
      /\ \A p \in Procs : proc[p].size \in 0..MaxSize
      /\ \A tx \in pool : tx.size \in 0..MaxSize /\ tx.root \in Roots
      /\ Loop \in Procs
  BY RootFacts, AnchorAssumption DEF TypeOK, Procs
<1>1. ASSUME anchors' = anchors, latest' = latest
      PROVE  UNCHANGED <<Ledger, latest.size>>
  BY <1>1 DEF Ledger, SizesOf
<1>2. CASE Restart
  BY <1>2 DEF Restart, NoAnchor, Witness!Forget
<1>3. CASE SetLatest(Loop)
  <2>1. latest'.size = proc[Loop].size /\ anchors' = anchors
    BY <1>3 DEF SetLatest, chainVars
  <2>2. proc[Loop].size > latest.size
    BY <1>3 DEF SetLatest, Fresh, Recorded
  <2>3. PICK i \in DOMAIN anchors : anchors[i].size = proc[Loop].size
    BY <1>0, <1>3 DEF SetLatest, Acknowledged, Anchored
  <2>4. i \in DOMAIN Ledger /\ Ledger[i] = proc[Loop].size /\ Ledger' = Ledger
    BY <2>1, <2>3 DEF Ledger, SizesOf
  <2>5. Ledger[i] > latest.size /\ latest'.size = Ledger[i]
    BY <2>1, <2>2, <2>4
  <2>. QED BY <2>4, <2>5 DEF Witness!Learn, Ledger, SizesOf
<1>4. ASSUME NEW tx \in pool, Mine(tx)
      PROVE  Witness!Extend \/ UNCHANGED <<Ledger, latest.size>>
  BY <1>0, <1>1, <1>4, CommitExtends DEF Mine, chainVars
<1>5. ASSUME NEW p \in Procs, FakeCommit(p)
      PROVE  Witness!Extend \/ UNCHANGED <<Ledger, latest.size>>
  BY <1>0, <1>1, <1>5, CommitExtends DEF FakeCommit, chainVars
<1>6. CASE Govern
  <2>1. latest' = latest
    BY <1>6 DEF Govern, service
  <2>2. ASSUME NEW sender \in Addresses, NEW s \in 1..MaxSize,
               Commit(sender, s, ForeignRoot)
        PROVE  Witness!Extend
    BY <1>0, <2>1, <2>2, CommitExtends
  <2>. QED BY <1>1, <1>6, <2>1, <2>2
              DEF Govern, SetCommitter, TransferOwnership, AcceptOwnership
<1>7. ASSUME NEW p \in Procs, SetLatest(p) PROVE p = Loop
  BY <1>7 DEF SetLatest, LoopOnly
<1>8. \/ UNCHANGED <<anchors, latest>>
      \/ \E p \in Procs : FakeCommit(p) \/ SetLatest(p)
      \/ \E tx \in pool : Mine(tx)
      \/ Govern \/ Restart
  BY AnchorStepsOfPage
     DEF Pass, Grow, Snapshot, Skip, Send, Receipt, Reverted, CastFails,
     CastHangs, StoreLast, Stop, LoopExit, vars, service, chainVars
<1>. QED BY <1>1, <1>2, <1>3, <1>4, <1>5, <1>6, <1>7, <1>8

(* The process keeps what anchoring promises an auditor: the reported head *)
(* is an anchored one and only moves forward over a ledger that only       *)
(* grows, until a restart (committer.go 151-179), provided `cast send`     *)
(* fails for a transaction that reverts.                                   *)
THEOREM ProcessImplementsWitness ==
  ASSUME RevertIsError
  PROVE  PageSpec => ImplementsWitness
<1>1. PageInit => LoopOnly /\ Recorded /\ Fresh /\ Waiting /\ Acknowledged
  <2>1. Loop \in Procs
    BY DEF Procs
  <2>. QED BY <2>1 DEF PageInit, ServerInit, Init, LoopOnly, Recorded, Fresh,
              Waiting, Acknowledged, Idle, NoAnchor
<1>2. ASSUME TypeOK, Waiting, Acknowledged, LoopOnly, Recorded, Fresh,
             [PageNext]_pageVars
      PROVE  (Waiting /\ Acknowledged /\ LoopOnly /\ Recorded /\ Fresh)'
  BY <1>2, LoopStep, WaitingStep, AcknowledgedStep, PageStepIsStep
<1>3. PageInit => Witness!Init
  BY DEF PageInit, ServerInit, Init, ChainInit, NoAnchor, Witness!Init
<1>4. TypeOK /\ Waiting /\ Acknowledged /\ LoopOnly /\ Recorded /\ Fresh
        /\ [PageNext]_pageVars
        => [Witness!Extend \/ Witness!Learn \/ Witness!Forget]_<<
             [i \in DOMAIN anchors |-> anchors[i].size], latest.size>>
  BY WitnessStep DEF Ledger, SizesOf
<1>5. PageTypeOK => TypeOK
  BY DEF PageTypeOK, ServerTypeOK
<1>. QED
  BY <1>1, <1>2, <1>3, <1>4, <1>5, PageTypeCorrect, PTL
     DEF PageSpec, ImplementsWitness, Witness!Spec

=============================================================================
