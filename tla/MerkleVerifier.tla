--------------------------- MODULE MerkleVerifier ---------------------------
(***************************************************************************)
(* Verifier.VerifyHistoricalRoot (verifier.go) against a tree other        *)
(* goroutines append to.  Size, Root and ProofForRange each take the       *)
(* tree's read lock for themselves, so appends fall between them.          *)
(***************************************************************************)
EXTENDS MerkleTree

CONSTANT MaxClaim   (* bound of the model: sizes of claimed logs          *)

ASSUME ClaimBound == MaxClaim \in Nat

VARIABLES
  pc,        (* "idle", "size", "root", "proof", "done"                    *)
  hist,      (* the historical [size, root] the caller asks about          *)
  liveSize, liveRoot,   (* the verifier's locals                           *)
  ok         (* report.OK                                                  *)

verifier == <<pc, hist, liveSize, liveRoot, ok>>
vars == <<leaves, verifier>>

NoHist == [size |-> 0, root |-> EmptyRoot]

VInit ==
  /\ Init
  /\ pc = "idle" /\ hist = NoHist
  /\ liveSize = 0 /\ liveRoot = EmptyRoot
  /\ ok = FALSE

(* The claims callers bring: any head of any log, with any size.           *)
Claims ==
  [size : 0..MaxClaim,
   root : {mth(log) : log \in UNION {Logs(len) : len \in 0..MaxClaim}}]

Ask(claim) ==
  /\ pc \in {"idle", "done"}
  /\ pc' = "size"
  /\ hist' = claim
  /\ liveSize' = 0 /\ liveRoot' = EmptyRoot /\ ok' = FALSE
  /\ UNCHANGED leaves

ReadSize ==
  /\ pc = "size"
  /\ pc' = "root"
  /\ liveSize' = Size
  /\ UNCHANGED <<leaves, hist, liveRoot, ok>>

(* The root, and the refusal of a size the live tree has not reached.      *)
ReadRoot ==
  /\ pc = "root"
  /\ liveRoot' = mth(leaves)
  /\ pc' = IF hist.size > liveSize THEN "done" ELSE "proof"
  /\ UNCHANGED <<leaves, hist, liveSize, ok>>

Check ==
  /\ pc = "proof"
  /\ pc' = "done"
  /\ ok' = VerifyConsistency(hist.root, liveRoot, hist.size, liveSize,
                             ProofForRange(hist.size, liveSize))
  /\ UNCHANGED <<leaves, hist, liveSize, liveRoot>>

VNext ==
  \/ (\E d \in Data : AppendLeaf(d)) /\ UNCHANGED verifier
  \/ \E claim \in Claims : Ask(claim)
  \/ ReadSize \/ ReadRoot \/ Check

VSpec == VInit /\ [][VNext]_vars

-----------------------------------------------------------------------------
(* The properties of the proofs are about the tree alone and are looked at *)
(* while no verifier runs.                                                 *)
AtRest == pc = "idle"

(* Every leaf of the tree, at every size it ever had, has an inclusion     *)
(* proof that verifies (inclusion.go 11-52 against 71-113), and every      *)
(* earlier head is provably extended by every later one (consistency.go    *)
(* 13-46 against 51-125).                                                  *)
ProofsComplete == AtRest => InclusionComplete /\ ConsistencyComplete

(* No proof the tree ever hands out, whole or cut short, shows another     *)
(* leaf in the place of one (inclusion.go 58-113), or the head of another  *)
(* log as an earlier head of this one (consistency.go 51-125).             *)
ProofsSound == AtRest => InclusionSound /\ ConsistencySound

(* The live tree's first size leaves hash to the claimed root.             *)
ClaimHolds == hist.size <= Size /\ RootAt(hist.size) = hist.root

(* Whatever is appended while the verifier runs, the root it reports       *)
(* consistent is a head the live log had at the claimed size or later: a   *)
(* rewritten log is never accepted (verifier.go 28-58).  Size 0 is apart.  *)
RewriteDetected ==
  pc = "done" /\ ok /\ hist.size > 0
    => \E size \in hist.size..Size : RootAt(size) = hist.root

(* A true claim about a size the verifier saw is refused only if an append *)
(* came between its two reads of the tree (verifier.go 29-30).             *)
FalseAlarmOnlyFromRace ==
  pc = "done" /\ ~ok /\ ClaimHolds /\ hist.size <= liveSize
    => liveRoot # RootAt(liveSize)

(* verifier.go 24-25: the report is OK "iff the live tree's first          *)
(* historicalSize leaves still hash to historicalRoot".  The only-if, for  *)
(* a claim about a log with leaves.                                        *)
OkOnlyIfClaimHolds == pc = "done" /\ ok /\ hist.size > 0 => ClaimHolds

=============================================================================
