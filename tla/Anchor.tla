------------------------------- MODULE Anchor -------------------------------
(***************************************************************************)
(* Anchoring: the committer goroutine and direct CommitOnce calls          *)
(* (anchor/committer.go), the EVM client they go through (client.go), the  *)
(* cache the dashboard reads (LatestStore, anchor.go) and the contract on  *)
(* the other side of an unreliable RPC.                                    *)
(*                                                                         *)
(* The log of each life of the service is a different one; a head of it is *)
(* a size and, for its root, the number of the life.  What a committer     *)
(* other than the service commits has a root of its own.                   *)
(***************************************************************************)
EXTENDS AuditAnchorContract, FiniteSets

CONSTANTS
  Loop,          (* the committer goroutine                                *)
  Others,        (* goroutines that call CommitOnce directly               *)
  Service,       (* the address of ANCHOR_PRIVATE_KEY                      *)
  Modes,         (* of ANCHOR_MODE: TRUE is cast, FALSE is dry-run         *)
  Governed,      (* whether the contract's owner and other accounts act    *)
  ForeignRoot,   (* root of what another committer commits                 *)
  RevertIsError, (* whether `cast send` fails when its transaction reverts *)
  NoProc,        (* sender of a transaction nobody waits for any more      *)
  MaxErrors, MaxRestarts      (* bounds of the model                       *)

ASSUME AnchorAssumption ==
  /\ Loop \notin Others /\ NoProc \notin Others \cup {Loop}
  /\ Service \in Addresses
  /\ Modes \subseteq BOOLEAN /\ {Governed, RevertIsError} \subseteq BOOLEAN
  /\ ForeignRoot \in Roots /\ 0..MaxRestarts \subseteq Roots \ {ForeignRoot}
  /\ MaxErrors \in Nat /\ MaxRestarts \in Nat

VARIABLES
  cast,     (* the mode the process runs in; fixed by its environment      *)
  life,     (* number of restarts of the key service                       *)
  size,     (* leaves of the live tree                                     *)
  proc,     (* the state of every goroutine in commit                      *)
  pool,     (* transactions broadcast and not yet mined                    *)
  last,     (* Committer.lastCommitted                                     *)
  latest,   (* LatestStore.latest: [size, root], size 0 if none            *)
  stop,     (* Committer.stop is closed                                    *)
  errors    (* how many calls to the client failed for an outside reason   *)

service == <<cast, life, size, proc, last, latest, stop>>
vars == <<chainVars, service, pool, errors>>

Procs == Others \cup {Loop}

Idle == [pc |-> "idle", size |-> 0]

NoAnchor == [size |-> 0, root |-> 0]

Init ==
  /\ ChainInit
  /\ committer = Service
  /\ cast \in Modes
  /\ life = 0 /\ size = 0
  /\ proc = [p \in Procs |-> Idle]
  /\ pool = {}
  /\ last = 0 /\ latest = NoAnchor
  /\ stop = FALSE
  /\ errors = 0

-----------------------------------------------------------------------------
(* The tree grows; commits only ever read it.                              *)
Grow ==
  /\ size < MaxSize
  /\ size' = size + 1
  /\ UNCHANGED <<chainVars, cast, life, proc, pool, last, latest, stop,
                 errors>>

(* Slip: the size of the next tree.                                        *)
SnapshotNext(p) ==
  /\ proc[p].pc = "idle"
  /\ size > 0
  /\ proc' = [proc EXCEPT ![p] = [pc |-> "snapped", size |-> size + 1]]
  /\ UNCHANGED <<chainVars, cast, life, size, pool, last, latest, stop,
                 errors>>

(* commit: the snapshot of the tree, on a tick or a call.  An empty tree   *)
(* ends the pass at once.  A tick can still be taken after Stop: select    *)
(* has no order between a closed stop and a pending tick.                  *)
Snapshot(p) ==
  /\ proc[p].pc = "idle"
  /\ size > 0
  /\ proc' = [proc EXCEPT ![p] = [pc |-> "snapped", size |-> size]]
  /\ UNCHANGED <<chainVars, cast, life, size, pool, last, latest, stop,
                 errors>>

(* Slip: the tree has to grow by two leaves.                               *)
StaleOneMore(p) == proc[p].size <= last + 1

Stale(p) == proc[p].size <= last

(* size <= lastCommitted: ErrTreeShrank, a non-event.                      *)
Skip(p) ==
  /\ proc[p].pc = "snapped"
  /\ Stale(p)
  /\ proc' = [proc EXCEPT ![p] = Idle]
  /\ UNCHANGED <<chainVars, cast, life, size, pool, last, latest, stop,
                 errors>>

(* CastClient.Commit: `cast send` broadcasts a transaction and waits.      *)
Send(p) ==
  /\ cast
  /\ proc[p].pc = "snapped"
  /\ ~Stale(p)
  /\ pool' = pool \cup {[from |-> p, size |-> proc[p].size, root |-> life]}
  /\ proc' = [proc EXCEPT ![p].pc = "sent"]
  /\ UNCHANGED <<chainVars, cast, life, size, last, latest, stop, errors>>

(* The transaction is included: it extends the list or reverts.            *)
Mine(tx) ==
  /\ tx \in pool
  /\ pool' = pool \ {tx}
  /\ \/ Commit(Service, tx.size, tx.root)
     \/ ~Accepts(Service, tx.size) /\ UNCHANGED chainVars
  /\ proc' = [p \in Procs |->
       IF p = tx.from
       THEN [proc[p] EXCEPT
               !.pc = IF Accepts(Service, tx.size) THEN "mined" ELSE "reverted"]
       ELSE proc[p]]
  /\ UNCHANGED <<cast, life, size, last, latest, stop, errors>>

(* cast prints the receipt, which parseCastSendOutput reads.               *)
Receipt(p) ==
  /\ proc[p].pc = "mined"
  /\ proc' = [proc EXCEPT ![p].pc = "ok"]
  /\ UNCHANGED <<chainVars, cast, life, size, pool, last, latest, stop,
                 errors>>

(* Slip: the exit code of cast is not looked at either.                    *)
RevertedUnnoticed(p) ==
  /\ proc[p].pc = "reverted"
  /\ proc' = [proc EXCEPT ![p].pc = "ok"]
  /\ UNCHANGED <<chainVars, cast, life, size, pool, last, latest, stop,
                 errors>>

(* A reverted transaction has a receipt too, and parseCastSendOutput does  *)
(* not look at its status: only the exit code of cast can tell.            *)
Reverted(p) ==
  /\ proc[p].pc = "reverted"
  /\ proc' = IF RevertIsError THEN [proc EXCEPT ![p] = Idle]
                              ELSE [proc EXCEPT ![p].pc = "ok"]
  /\ UNCHANGED <<chainVars, cast, life, size, pool, last, latest, stop,
                 errors>>

(* cast, or the RPC behind it, fails: before the broadcast, while the      *)
(* transaction is pending, which may later be mined or evicted, or after   *)
(* it was mined.  commit returns the error and updates nothing.            *)
CastFails(p) ==
  /\ errors < MaxErrors
  /\ proc[p].pc \in {"sent", "mined"}
  /\ errors' = errors + 1
  /\ LET mine == {tx \in pool : tx.from = p}
     IN  \/ pool' = pool \ mine
         \/ /\ mine # {}
            /\ pool' = (pool \ mine)
                         \cup {[tx EXCEPT !.from = NoProc] : tx \in mine}
  /\ proc' = [proc EXCEPT ![p] = Idle]
  /\ UNCHANGED <<chainVars, cast, life, size, last, latest, stop>>

(* cast never comes back: its context is never cancelled and has no        *)
(* deadline.  What it broadcast can still be mined.                        *)
CastHangs(p) ==
  /\ errors < MaxErrors
  /\ proc[p].pc \in {"sent", "mined", "reverted"}
  /\ errors' = errors + 1
  /\ pool' = {[tx EXCEPT !.from = IF @ = p THEN NoProc ELSE @] : tx \in pool}
  /\ proc' = [proc EXCEPT ![p].pc = "hung"]
  /\ UNCHANGED <<chainVars, cast, life, size, last, latest, stop>>

(* FakeEVMClient.Commit: one step.                                         *)
FakeCommit(p) ==
  /\ ~cast
  /\ proc[p].pc = "snapped"
  /\ ~Stale(p)
  /\ \/ /\ Commit(Service, proc[p].size, life)
        /\ proc' = [proc EXCEPT ![p].pc = "ok"]
        /\ UNCHANGED errors
     \/ /\ ~Accepts(Service, proc[p].size)
        /\ proc' = [proc EXCEPT ![p] = Idle]
        /\ UNCHANGED <<chainVars, errors>>
     \/ /\ errors < MaxErrors
        /\ errors' = errors + 1
        /\ proc' = [proc EXCEPT ![p] = Idle]
        /\ UNCHANGED chainVars
  /\ UNCHANGED <<cast, life, size, pool, last, latest, stop>>

(* store.Set, then lastCommitted.Store: two separate writes.               *)
SetLatest(p) ==
  /\ proc[p].pc = "ok"
  /\ latest' = [size |-> proc[p].size, root |-> life]
  /\ proc' = [proc EXCEPT ![p].pc = "set"]
  /\ UNCHANGED <<chainVars, cast, life, size, pool, last, stop, errors>>

StoreLast(p) ==
  /\ proc[p].pc = "set"
  /\ last' = proc[p].size
  /\ proc' = [proc EXCEPT ![p] = Idle]
  /\ UNCHANGED <<chainVars, cast, life, size, pool, latest, stop, errors>>

-----------------------------------------------------------------------------
(* Committer.Stop closes the channel; the loop leaves between two passes.  *)
Stop ==
  /\ ~stop
  /\ stop' = TRUE
  /\ UNCHANGED <<chainVars, cast, life, size, proc, pool, last, latest,
                 errors>>

LoopExit ==
  /\ stop
  /\ proc[Loop].pc = "idle"
  /\ proc' = [proc EXCEPT ![Loop].pc = "exited"]
  /\ UNCHANGED <<chainVars, cast, life, size, pool, last, latest, stop,
                 errors>>

(* The service restarts with an empty tree; the chain and what was already *)
(* broadcast stay.  The fake client's list is in memory.                   *)
Restart ==
  /\ life < MaxRestarts
  /\ life' = life + 1
  /\ size' = 0 /\ last' = 0 /\ latest' = NoAnchor /\ stop' = FALSE
  /\ proc' = [p \in Procs |-> Idle]
  /\ pool' = {[tx EXCEPT !.from = NoProc] : tx \in pool}
  /\ anchors' = IF cast THEN anchors ELSE <<>>
  /\ UNCHANGED <<cast, roles, errors>>

(* The other users of the contract: its owner, the owner it nominated, and *)
(* a committer that was put in the service's place.                        *)
Govern ==
  /\ cast /\ Governed
  /\ \/ \E sender, next \in Addresses :
          \/ SetCommitter(sender, next)
          \/ TransferOwnership(sender, next)
     \/ \E sender \in Addresses : AcceptOwnership(sender)
     \/ \E sender \in Addresses \ {Service}, s \in 1..MaxSize :
          Commit(sender, s, ForeignRoot)
  /\ UNCHANGED <<service, pool, errors>>

Pass(p) == Skip(p) \/ Send(p) \/ Receipt(p) \/ Reverted(p) \/ CastFails(p)
             \/ FakeCommit(p) \/ SetLatest(p) \/ StoreLast(p)

Next ==
  \/ Grow
  \/ \E p \in Procs : Snapshot(p) \/ Pass(p) \/ CastHangs(p)
  \/ \E tx \in pool : Mine(tx)
  \/ Stop \/ LoopExit \/ Restart \/ Govern

Spec == Init /\ [][Next]_vars

-----------------------------------------------------------------------------
(* The type invariant of the anchoring service.                            *)
TypeOK ==
  /\ ChainTypeOK
  /\ cast \in Modes
  /\ life \in 0..MaxRestarts
  /\ size \in 0..MaxSize
  /\ proc \in [Procs -> [pc : {"idle", "snapped", "sent", "mined", "reverted",
                               "ok", "set", "hung", "exited"},
                         size : 0..MaxSize]]
  /\ pool \subseteq [from : Procs \cup {NoProc}, size : 1..MaxSize,
                     root : 0..MaxRestarts]
  /\ last \in 0..MaxSize
  /\ latest \in [size : 0..MaxSize, root : 0..MaxRestarts]
  /\ stop \in BOOLEAN
  /\ errors \in 0..MaxErrors

Anchored(s, r) == \E i \in DOMAIN anchors :
                    anchors[i].size = s /\ anchors[i].root = r

(* What the service reports or remembers as committed was mined, in this   *)
(* life, whatever errors, reverts, rotations and restarts came between     *)
(* (committer.go 164-179).                                                 *)
ReportedIsAnchored ==
  /\ latest.size > 0 =>
       Anchored(latest.size, latest.root) /\ latest.root = life
  /\ last > 0 => Anchored(last, life)

(* Every anchor of a life is a head its log really had, even one mined     *)
(* from a transaction the service gave up on (committer.go 151-165).       *)
AnchorsAreHeads ==
  \A i \in DOMAIN anchors : anchors[i].root = life => anchors[i].size <= size

(* Every head of the log is eventually anchored, itself or inside a larger *)
(* one, unless the loop is stopped or cast never returns (committer.go     *)
(* 15-26, client.go 165 and 177).                                          *)
EventuallyAnchored ==
  \A s \in 1..MaxSize :
    size >= s /\ life = 0
      ~> LastSize >= s \/ stop \/ life > 0 \/ proc[Loop].pc = "hung"

(* anchor.go 17-19: the indexer "stores the most recent commit in memory   *)
(* so the dashboard can read it": in dry-run, where a commit and its       *)
(* receipt are one step, every anchored head is eventually reported.       *)
DryRunReports ==
  \A s \in 1..MaxSize : ~cast /\ LastSize >= s ~> latest.size >= s \/ life > 0

-----------------------------------------------------------------------------
(* What anchoring promises (module AnchorWitness).                         *)
Witness == INSTANCE AnchorWitness
             WITH ledger <- [i \in DOMAIN anchors |-> anchors[i].size],
                  known <- latest.size

(* The reported head is an anchored one and only moves forward over a      *)
(* ledger that only grows, until a restart (committer.go 151-179).         *)
ImplementsWitness == Witness!Spec

=============================================================================
