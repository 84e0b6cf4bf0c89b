---------------------------- MODULE ProposalFlow ----------------------------
(***************************************************************************)
(* Multi-signature execution in the Python SDK: ProposalFlow (proposal.py) *)
(* collects co-signatures, refuses replays, runs the function through a    *)
(* Gate (multisig.py) and leaves an audit record.  Threads share one flow  *)
(* and one gate; only the replay cache has a lock, and the gate's depth is *)
(* thread-local.                                                           *)
(*                                                                         *)
(* A call of execute is a frame on its thread's stack, because the         *)
(* approved function may call execute again.  A signature is the key it    *)
(* claims to be by and whether it verifies.                                *)
(***************************************************************************)
EXTENDS Integers, Sequences, FiniteSets

CONSTANTS
  Threads,
  Nonces,        (* the (agent_id, nonce) pairs of the proposals           *)
  Peers,         (* keys that can be asked to co-sign                      *)
  Proposer,      (* the key that signed every proposal                     *)
  Handed,        (* what callers of execute pass for signatures: sets of   *)
                 (* <<key, verifies>>                                      *)
  Window,        (* ProposalFlow._window                                   *)
  MaxNest,       (* bound of the model: frames of a thread                 *)
  MaxTime, MaxCalls      (* bounds of the model               *)

Keys == Peers \cup {Proposer}

ASSUME FlowAssumption ==
  /\ IsFiniteSet(Peers) /\ Proposer \notin Peers
  /\ \A s \in Handed : s \subseteq Keys \X BOOLEAN
  /\ Window \in Nat
  /\ {MaxNest, MaxTime, MaxCalls} \subseteq Nat

VARIABLES
  clock,
  threshold,   (* Gate.threshold_for the action type of the proposals      *)
  executed,    (* ProposalFlow._executed: per nonce the time, or None      *)
  depth,       (* Gate._exec.depth, one per thread                         *)
  stack,       (* the frames of every thread                               *)
  calls,       (* history: calls of execute so far                         *)
  returned,    (* history: per nonce, how often its function returned      *)
  marks,       (* history: [nonce, at] ever written to the replay cache    *)
  accepted     (* history: per nonce, records of acceptance sent           *)

gate == <<threshold, depth>>
history == <<calls, returned, marks, accepted>>
vars == <<clock, executed, stack, gate, history>>

None == -1

(* The locals of a call.  now is the clock when it pruned the cache, began *)
(* when its function started, prev what the gate found in depth, needed    *)
(* the threshold it applied; threw is set when a ThresholdNotMetError of a *)
(* nested call reached the function.  before is history: the marks of the  *)
(* nonce when the call was made.  Locals are blank while nobody uses them. *)
Blank(pc, n) ==
  [pc |-> pc, nonce |-> n, sigs |-> {},
   answers |-> [p \in Peers |-> "asked"],
   now |-> 0, began |-> 0, prev |-> 0, needed |-> 0, threw |-> FALSE,
   before |-> {}]

(* A call of execute at its beginning.                                     *)
Entered(n, sigs) ==
  [Blank("enter", n) EXCEPT !.sigs = sigs,
                            !.before = {m \in marks : m.nonce = n}]

Top(t) == stack[t][Len(stack[t])]

At(t, pc) == stack[t] # <<>> /\ Top(t).pc = pc

(* The top frame of t becomes f.                                           *)
Becomes(t, f) == stack' = [stack EXCEPT ![t][Len(stack[t])] = f]

(* ... and is left with a record to write, its other locals dead.          *)
Ends(t, pc) == Becomes(t, Blank(pc, Top(t).nonce))

(* The call is over; threw tells the function around it whether a          *)
(* ThresholdNotMetError came out.                                          *)
Pops(t, threw) ==
  LET rest == SubSeq(stack[t], 1, Len(stack[t]) - 1) IN
  stack' = [stack EXCEPT ![t] =
    IF rest = <<>> THEN rest ELSE [rest EXCEPT ![Len(rest)].threw = threw]]

Init ==
  /\ clock = 0
  /\ threshold \in 1..Cardinality(Keys)
  /\ executed = [n \in Nonces |-> None]
  /\ depth = [t \in Threads |-> 0]
  /\ stack = [t \in Threads |-> <<>>]
  /\ calls = 0
  /\ returned = [n \in Nonces |-> 0] /\ accepted = [n \in Nonces |-> 0]
  /\ marks = {}

Tick ==
  /\ clock < MaxTime
  /\ clock' = clock + 1
  /\ UNCHANGED <<executed, stack, gate, history>>

(* Gate.set_threshold                                                      *)
SetThreshold(n) ==
  /\ n >= 1
  /\ threshold' = n
  /\ UNCHANGED <<clock, executed, stack, depth, history>>

-----------------------------------------------------------------------------
(* A thread can make a call when it runs nothing, or inside an approved    *)
(* function.                                                               *)
Free(t) ==
  stack[t] = <<>> \/ At(t, "running")

Push(t, f) ==
  /\ Free(t)
  /\ Len(stack[t]) < MaxNest /\ calls < MaxCalls
  /\ calls' = calls + 1
  /\ stack' = [stack EXCEPT ![t] = Append(@, f)]
  /\ UNCHANGED <<clock, executed, gate, returned, marks, accepted>>

(* execute with signatures the caller has; an invalid proposal raises      *)
(* before anything changes.                                                *)
Execute(t, n, sigs) == Push(t, Entered(n, sigs))

(* propose_and_run: collect_signatures asks every peer on a pool of its    *)
(* own ...                                                                 *)
ProposeAndRun(t, n) == Push(t, Blank("collect", n))

(* ... where a peer signs, or abstains, raises or returns what does not    *)
(* verify (_ask_peer) ...                                                  *)
PeerAnswers(t, p) ==
  /\ At(t, "collect")
  /\ Top(t).answers[p] = "asked"
  /\ \E answer \in {"signed", "refused"} :
       Becomes(t, [Top(t) EXCEPT !.answers[p] = answer])
  /\ UNCHANGED <<clock, executed, gate, history>>

Collected(f) ==
  {<<Proposer, TRUE>>} \cup {<<p, TRUE>> : p \in {q \in Peers :
                                               f.answers[q] = "signed"}}

(* Slip: the pool is joined, so every peer is waited for.                  *)
DeadlineJoined(t) ==
  /\ At(t, "collect")
  /\ \A p \in Peers : Top(t).answers[p] # "asked"
  /\ Becomes(t, Entered(Top(t).nonce, Collected(Top(t))))
  /\ UNCHANGED <<clock, executed, gate, history>>

(* ... until all have answered or the timeout passes; later answers are    *)
(* never looked at.                                                        *)
Deadline(t) ==
  /\ At(t, "collect")
  /\ Becomes(t, Entered(Top(t).nonce, Collected(Top(t))))
  /\ UNCHANGED <<clock, executed, gate, history>>

-----------------------------------------------------------------------------
(* The body of execute.                                                    *)

(* _prune_replay_cache reads the clock, then takes the lock.               *)
ReadCutoff(t) ==
  /\ At(t, "enter")
  /\ Becomes(t, [Top(t) EXCEPT !.pc = "prune", !.now = clock])
  /\ UNCHANGED <<clock, executed, gate, history>>

(* Slip: an entry as old as the window is stale.                           *)
StaleAtWindow(at, now) == at <= now - Window

Stale(at, now) == at < now - Window

Prune(t) ==
  /\ At(t, "prune")
  /\ executed' = [n \in Nonces |->
       IF executed[n] # None /\ Stale(executed[n], Top(t).now)
       THEN None ELSE executed[n]]
  /\ Becomes(t, [Top(t) EXCEPT !.pc = "check", !.now = 0])
  /\ UNCHANGED <<clock, gate, history>>

(* The lock is taken again to look the nonce up, and released.             *)
CheckReplay(t) ==
  /\ At(t, "check")
  /\ \/ /\ executed[Top(t).nonce] # None
        /\ Ends(t, "replayed")
     \/ /\ executed[Top(t).nonce] = None
        /\ Becomes(t, [Top(t) EXCEPT !.pc = "gate"])
  /\ UNCHANGED <<clock, executed, gate, history>>

ValidSigners(sigs) == {k \in Keys : <<k, TRUE>> \in sigs}

(* Gate.evaluate, and Gate.execute up to the call of fn.                   *)
EnterGate(t) ==
  /\ At(t, "gate")
  /\ \/ /\ Cardinality(ValidSigners(Top(t).sigs)) >= threshold
        /\ Becomes(t, [Top(t) EXCEPT !.pc = "running", !.began = clock,
                         !.needed = threshold, !.prev = depth[t]])
        /\ depth' = [depth EXCEPT ![t] = @ + 1]
     \/ /\ Cardinality(ValidSigners(Top(t).sigs)) < threshold
        /\ Ends(t, "refused")
        /\ UNCHANGED depth
  /\ UNCHANGED <<clock, executed, threshold, history>>

(* Slip: the depth is put back and counted down as well.                   *)
FnReturnsTwice(t) ==
  /\ At(t, "running")
  /\ Ends(t, "mark")
  /\ depth' = [depth EXCEPT ![t] = Top(t).prev - 1]
  /\ returned' = [returned EXCEPT ![Top(t).nonce] = @ + 1]
  /\ UNCHANGED <<clock, executed, threshold, calls, marks, accepted>>

(* fn returns; the gate puts back the depth it found.                      *)
FnReturns(t) ==
  /\ At(t, "running")
  /\ Ends(t, "mark")
  /\ depth' = [depth EXCEPT ![t] = Top(t).prev]
  /\ returned' = [returned EXCEPT ![Top(t).nonce] = @ + 1]
  /\ UNCHANGED <<clock, executed, threshold, calls, marks, accepted>>

(* Slip: the depth is put back on a return only.                           *)
FnRaisesInside(t) ==
  /\ At(t, "running")
  /\ \/ Pops(t, FALSE)
     \/ Top(t).threw /\ Ends(t, "refused")
  /\ UNCHANGED <<clock, executed, gate, history>>

(* Slip: what fn raised is taken for a result.                             *)
FnRaisesCaught(t) ==
  /\ At(t, "running")
  /\ Ends(t, "mark")
  /\ depth' = [depth EXCEPT ![t] = Top(t).prev]
  /\ UNCHANGED <<clock, executed, threshold, history>>

(* fn raises: out of execute without a record, unless the exception is the *)
(* ThresholdNotMetError of a nested call, which execute takes for its own. *)
FnRaises(t) ==
  /\ At(t, "running")
  /\ \/ Pops(t, FALSE)
     \/ Top(t).threw /\ Ends(t, "refused")
  /\ depth' = [depth EXCEPT ![t] = Top(t).prev]
  /\ UNCHANGED <<clock, executed, threshold, history>>

(* The nonce goes into the replay cache only now.                          *)
Mark(t) ==
  LET n == Top(t).nonce IN
  /\ At(t, "mark")
  /\ executed' = [executed EXCEPT ![n] = clock]
  /\ marks' = marks \cup {[nonce |-> n, at |-> clock]}
  /\ Ends(t, "accepted")
  /\ UNCHANGED <<clock, gate, calls, returned, accepted>>

(* _safe_record: what the sink raises is swallowed.  Then the call returns *)
(* or raises.                                                              *)
Record(t) ==
  /\ \E pc \in {"accepted", "replayed", "refused"} : At(t, pc)
  /\ accepted' = IF At(t, "accepted")
                 THEN [accepted EXCEPT ![Top(t).nonce] = @ + 1] ELSE accepted
  /\ Pops(t, At(t, "refused"))
  /\ UNCHANGED <<clock, executed, gate, calls, returned, marks>>

-----------------------------------------------------------------------------
Proceed(t) ==
  \/ Deadline(t) \/ ReadCutoff(t) \/ Prune(t) \/ CheckReplay(t)
  \/ EnterGate(t) \/ FnReturns(t) \/ FnRaises(t) \/ Mark(t) \/ Record(t)

Next ==
  \/ Tick
  \/ \E n \in 1..Cardinality(Keys) : SetThreshold(n)
  \/ \E t \in Threads :
       \/ \E n \in Nonces, sigs \in Handed : Execute(t, n, sigs)
       \/ \E n \in Nonces : ProposeAndRun(t, n)
       \/ \E p \in Peers : PeerAnswers(t, p)
       \/ Proceed(t)

Spec == Init /\ [][Next]_vars

-----------------------------------------------------------------------------
Frames == [pc : {"collect", "enter", "prune", "check", "gate", "running",
                 "mark", "accepted", "replayed", "refused"},
           nonce : Nonces, sigs : SUBSET (Keys \X BOOLEAN),
           answers : [Peers -> {"asked", "signed", "refused"}],
           now : Nat, began : Nat, prev : Nat, needed : Nat,
           threw : BOOLEAN, before : SUBSET [nonce : Nonces, at : Nat]]

(* The type invariant of the flow and its gate.                            *)
TypeOK ==
  /\ clock \in Nat
  /\ threshold \in Nat \ {0}
  /\ executed \in [Nonces -> Nat \cup {None}]
  /\ depth \in [Threads -> Nat]
  /\ \A t \in Threads : stack[t] \in Seq(Frames)
  /\ calls \in Nat
  /\ returned \in [Nonces -> Nat] /\ accepted \in [Nonces -> Nat]
  /\ marks \subseteq [nonce : Nonces, at : Nat]

Running(t) == {i \in DOMAIN stack[t] : stack[t][i].pc = "running"}

(* A gated function runs exactly where an approved call of its own thread  *)
(* is under way, however calls nest and whatever they raise; and each of   *)
(* them had its threshold of distinct valid signers (multisig.py 75-107).  *)
DepthIsApproval ==
  \A t \in Threads :
    /\ depth[t] = Cardinality(Running(t))
    /\ \A i \in Running(t) : LET f == stack[t][i] IN
         Cardinality({k \in Keys : <<k, TRUE>> \in f.sigs}) >= f.needed

(* A nonce that was executed before the call was made is executed again    *)
(* only when it has left the replay window, whichever thread prunes the    *)
(* cache with whichever clock reading (proposal.py 349-356, 407-412).      *)
NoReplayOfExecuted ==
  \A t \in Threads : \A i \in DOMAIN stack[t] :
    LET f == stack[t][i] IN
    f.pc = "running" =>
      \A m \in f.before : f.began - m.at > Window

(* Calls of the nonce whose function returned and whose record is to come. *)
Unrecorded(n) ==
  UNION {{<<t, i>> : i \in {j \in DOMAIN stack[t] :
            stack[t][j].pc \in {"mark", "accepted"} /\ stack[t][j].nonce = n}}
         : t \in Threads}

(* The audit trail has one acceptance per function that returned and none  *)
(* for one that raised; the replay cache names no nonce whose function     *)
(* never returned (proposal.py 358-366).                                   *)
TrailMatchesRuns ==
  \A n \in Nonces :
    /\ returned[n] = accepted[n] + Cardinality(Unrecorded(n))
    /\ executed[n] # None => returned[n] > 0

(* Every call returns or raises, even if a peer never answers (proposal.py *)
(* 289-312): its thread gets back to where it made its first call.         *)
EveryCallEnds ==
  \A t \in Threads : stack[t] # <<>> ~> stack[t] = <<>>

(* "Replay check first - a replay must NOT trigger the gate" (proposal.py  *)
(* 349): within one window the function of a nonce runs to its end once.   *)
NonceExecutedOnce ==
  \A n \in Nonces : clock <= Window => returned[n] <= 1

=============================================================================
