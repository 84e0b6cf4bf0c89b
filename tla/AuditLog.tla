------------------------------ MODULE AuditLog ------------------------------
(***************************************************************************)
(* The audit pipeline of the key service (auditlog/pipeline.go) with the   *)
(* in-memory keystore it authenticates against, the Merkle tree it writes  *)
(* to, and the concurrent HTTP handlers that call it.                      *)
(*                                                                         *)
(* A call is split exactly where the code can be preempted between two     *)
(* shared accesses: the clock is read before the lock is taken, the key is *)
(* looked up under the keystore's own lock, and only the cache, the event  *)
(* log and the tree are touched under the pipeline's mutex.                *)
(*                                                                         *)
(* A key pair is a positive number, handed out in increasing order (a      *)
(* fresh Ed25519 key never repeats).  A signature is the number of the key *)
(* that made it, 0 for bytes no key made.  Time is a count of ticks.       *)
(* time.Now reads two clocks: the monotonic one, by which the age of a     *)
(* cache entry is taken (now.Sub), and the wall clock, which action        *)
(* timestamps are compared with (now.UnixMilli) and which can be stepped.  *)
(***************************************************************************)
EXTENDS Integers, Sequences

CONSTANTS
  Agents,       (* agent identifiers                                       *)
  Nonces,       (* well-formed nonces                                      *)
  Actions,      (* the actions clients may submit                          *)
  Callers,      (* concurrent handler goroutines                           *)
  MaxSkew,      (* action.MaxSkewMillis, in ticks                          *)
  NonceWindow,  (* action.NonceWindowMs, in ticks                          *)
  MaxStep,      (* how far apart steps of the wall clock may set it        *)
  NoAct,        (* the absent action of an idle call                       *)
  TreeMayFail,  (* TRUE: a file-backed tree, whose Append can return err   *)
  MaxTime, MaxEvents, MaxKeys, MaxRestarts   (* bounds of the model        *)

ASSUME ActionsAssumption ==
  /\ Actions \subseteq [agent : Agents, nonce : Nonces, ts : Nat]
  /\ NoAct \notin Actions

(* 30_000 and 600_000 in action.go leave 570 seconds for steps of the wall *)
(* clock.                                                                  *)
ASSUME WindowAssumption ==
  /\ MaxSkew \in Nat
  /\ NonceWindow \in Nat
  /\ MaxStep \in Nat
  /\ NonceWindow >= MaxSkew + MaxStep

ASSUME FailureAssumption == TreeMayFail \in BOOLEAN

ASSUME BoundsAssumption == MaxTime \in Nat /\ MaxEvents \in Nat
                           /\ MaxKeys \in Nat /\ MaxRestarts \in Nat

VARIABLES
  clock,     (* the monotonic reading p.now() would return                 *)
  drift,     (* by how much the wall clock is ahead of it                  *)
  keys,      (* keystore.Memory: the key registered per agent, 0 if none   *)
  minted,    (* how many key pairs have been generated so far              *)
  seen,      (* Pipeline.seen: per replay key, a position in events or 0   *)
  events,    (* Pipeline.events; Seq is the position less one              *)
  tree,      (* the leaves of merkle.Tree                                  *)
  calls,     (* the state of every handler goroutine                       *)
  restarts,  (* how often the process was restarted                        *)
  archive,   (* history: leaves logged by earlier lives of the process     *)
  forgotten  (* history: replay keys a failed append dropped from seen     *)

vars == <<clock, drift, keys, minted, seen, events, tree, calls, restarts,
          archive, forgotten>>

ReplayKey == Agents \X Nonces

(* replayKey: agent and nonce; unambiguous, as a valid nonce has no "|".   *)
KeyOf(a) == <<a.agent, a.nonce>>

Abs(x) == IF x < 0 THEN -x ELSE x

Skewed(a, now) == Abs(now - a.ts) > MaxSkew

(* Slip: the skew is left out of the window.                               *)
WindowWithoutSkew == NonceWindow

Window == MaxSkew + NonceWindow

(* Slip: an entry exactly as old as the window counts as expired.          *)
ExpiredAtWindow(at, now) == now - at >= Window

Expired(at, now) == now - at > Window

(* canonical(action) || signature                                          *)
LeafOf(a, sig) == [act |-> a, sig |-> sig]

Pcs == {"idle", "skew", "lookup", "append", "deny", "publish", "done"}

(* The locals of a Submit call.  A call that returns an error is idle      *)
(* again; "done" is a call that returned the event at position ev with a   *)
(* nil error.  floor is history: the smallest key that was, or could still *)
(* become, the agent's key after the call arrived.                         *)
IdleCall == [pc |-> "idle", act |-> NoAct, sig |-> 0, now |-> 0, pub |-> 0,
             ev |-> 0, floor |-> 0]

(* Slip: the leaf index is read after the append.                          *)
AppendedEventLate(a, pub, leaf, at) ==
  [kind |-> "appended", act |-> a, pub |-> pub, leaf |-> leaf + 1, at |-> at]

AppendedEvent(a, pub, leaf, at) ==
  [kind |-> "appended", act |-> a, pub |-> pub, leaf |-> leaf, at |-> at]

(* Slip: a denial is recorded with the status of an append.                *)
RejectedAsAppended(a, at) ==
  [kind |-> "appended", act |-> a, pub |-> 0, leaf |-> 0, at |-> at]

RejectedEvent(a, at) ==
  [kind |-> "rejected", act |-> a, pub |-> 0, leaf |-> 0, at |-> at]

Appended(i) == events[i].kind = "appended"

Init ==
  /\ clock = 0
  /\ drift \in 0..MaxStep
  /\ keys = [g \in Agents |-> 0]
  /\ minted = 0
  /\ seen = [k \in ReplayKey |-> 0]
  /\ events = <<>>
  /\ tree = <<>>
  /\ calls = [c \in Callers |-> IdleCall]
  /\ restarts = 0
  /\ archive = {} /\ forgotten = {}

-----------------------------------------------------------------------------
(* The environment: time passes, operators create and delete agent keys.   *)

Tick ==
  /\ clock < MaxTime
  /\ clock' = clock + 1
  /\ UNCHANGED <<drift, keys, minted, seen, events, tree, calls, restarts,
                 archive, forgotten>>

(* The wall clock is set, forward or back.                                 *)
StepWallClock ==
  /\ drift' \in 0..MaxStep \ {drift}
  /\ UNCHANGED <<clock, keys, minted, seen, events, tree, calls, restarts,
                 archive, forgotten>>

(* keystore.Memory.Create: refused while the agent has a key.              *)
CreateKey(g) ==
  /\ minted < MaxKeys
  /\ keys[g] = 0
  /\ minted' = minted + 1
  /\ keys' = [keys EXCEPT ![g] = minted']
  /\ UNCHANGED <<clock, drift, seen, events, tree, calls, restarts,
                 archive, forgotten>>

(* keystore.Memory.Delete                                                  *)
DeleteKey(g) ==
  /\ keys[g] # 0
  /\ keys' = [keys EXCEPT ![g] = 0]
  /\ UNCHANGED <<clock, drift, minted, seen, events, tree, calls, restarts,
                 archive, forgotten>>

-----------------------------------------------------------------------------
(* One Submit call.                                                        *)

(* A handler receives a request that passes the schema and shape checks.   *)
Begin(c, a, sig) ==
  /\ calls[c].pc \in {"idle", "done"}
  /\ Len(events) < MaxEvents
  /\ calls' = [calls EXCEPT ![c] = [IdleCall EXCEPT
                 !.pc = "skew", !.act = a, !.sig = sig,
                 !.floor = IF keys[a.agent] # 0 THEN keys[a.agent]
                                                ELSE minted + 1]]
  /\ UNCHANGED <<clock, drift, keys, minted, seen, events, tree, restarts,
                 archive, forgotten>>

(* A request with a wrong schema version or an invalid field, and a denial *)
(* another service reports through RecordRejection: both go straight to    *)
(* the emitter.                                                            *)
BeginDenied(c) ==
  /\ calls[c].pc \in {"idle", "done"}
  /\ Len(events) < MaxEvents
  /\ calls' = [calls EXCEPT ![c] = [IdleCall EXCEPT !.pc = "deny"]]
  /\ UNCHANGED <<clock, drift, keys, minted, seen, events, tree, restarts,
                 archive, forgotten>>

(* now := p.now() and the skew check, by the wall clock.  The value is     *)
(* kept to the end.                                                        *)
CheckSkew(c) ==
  /\ calls[c].pc = "skew"
  /\ calls' = [calls EXCEPT
                 ![c].now = clock,
                 ![c].pc = IF Skewed(calls[c].act, clock + drift)
                           THEN "deny" ELSE "lookup"]
  /\ UNCHANGED <<clock, drift, keys, minted, seen, events, tree, restarts,
                 archive, forgotten>>

(* Slip: any signature will do once the agent is known.                    *)
VerifiesAny(sig, pub) == pub # 0

(* The agent has a key, and the signature verifies under it.               *)
Verifies(sig, pub) == pub # 0 /\ sig = pub

(* store.Get, then signing.Verify of the signature under that key.         *)
Lookup(c) ==
  LET pub == keys[calls[c].act.agent] IN
  /\ calls[c].pc = "lookup"
  /\ \/ /\ Verifies(calls[c].sig, pub)
        /\ calls' = [calls EXCEPT ![c].pub = pub, ![c].pc = "append"]
     \/ /\ ~Verifies(calls[c].sig, pub)
        /\ calls' = [calls EXCEPT ![c].pc = "deny"]
  /\ UNCHANGED <<clock, drift, keys, minted, seen, events, tree, restarts,
                 archive, forgotten>>

(* recordRejectionFromAction and RecordRejection read the clock, again     *)
(* outside the lock ...                                                    *)
Deny(c) ==
  /\ calls[c].pc = "deny"
  /\ calls' = [calls EXCEPT ![c].now = clock, ![c].pc = "publish"]
  /\ UNCHANGED <<clock, drift, keys, minted, seen, events, tree, restarts,
                 archive, forgotten>>

(* ... and publish takes it to append the event.                           *)
Publish(c) ==
  /\ calls[c].pc = "publish"
  /\ events' = Append(events, RejectedEvent(calls[c].act, calls[c].now))
  /\ calls' = [calls EXCEPT ![c] = IdleCall]
  /\ UNCHANGED <<clock, drift, keys, minted, seen, tree, restarts,
                 archive, forgotten>>

(* Whether the cache holds an unexpired event for the call's replay key,   *)
(* judged by the time the call read before it took the lock.               *)
Hit(c) ==
  LET i == seen[KeyOf(calls[c].act)] IN
  i # 0 /\ ~Expired(events[i].at, calls[c].now)

(* Slip: the Seq of the event is taken for its position.                   *)
AnsweredSeq(call, i) ==
  [call EXCEPT !.pc = "done", !.ev = i - 1, !.now = 0, !.pub = 0]

(* The call returns event i with a nil error; its other locals are gone.   *)
Answered(call, i) ==
  [call EXCEPT !.pc = "done", !.ev = i, !.now = 0, !.pub = 0]

(* The critical section of Submit, one action per outcome.                 *)
AppendCached(c) ==
  /\ calls[c].pc = "append"
  /\ Hit(c)
  /\ calls' = [calls EXCEPT ![c] = Answered(@, seen[KeyOf(calls[c].act)])]
  /\ UNCHANGED <<clock, drift, keys, minted, seen, events, tree, restarts,
                 archive, forgotten>>

AppendNew(c) ==
  LET a == calls[c].act IN
  /\ calls[c].pc = "append"
  /\ ~Hit(c)
  /\ tree' = Append(tree, LeafOf(a, calls[c].sig))
  /\ events' = Append(events,
                 AppendedEvent(a, calls[c].pub, Len(tree), calls[c].now))
  /\ seen' = [seen EXCEPT ![KeyOf(a)] = Len(events) + 1]
  /\ calls' = [calls EXCEPT ![c] = Answered(@, Len(events) + 1)]
  /\ UNCHANGED <<clock, drift, keys, minted, restarts,
                 archive, forgotten>>

(* tree.Append fails after a stale cache entry was already deleted.        *)
AppendFails(c) ==
  LET k == KeyOf(calls[c].act) IN
  /\ TreeMayFail
  /\ calls[c].pc = "append"
  /\ ~Hit(c)
  /\ seen' = [seen EXCEPT ![k] = 0]
  /\ forgotten' = IF seen[k] = 0 THEN forgotten ELSE forgotten \cup {k}
  /\ calls' = [calls EXCEPT ![c] = IdleCall]
  /\ UNCHANGED <<clock, drift, keys, minted, events, tree, restarts, archive>>

-----------------------------------------------------------------------------
(* The process dies and comes back: keystore, cache, log and tree are all  *)
(* in memory (cmd/keyserver/main.go), and calls in flight are lost.        *)
Restart ==
  /\ restarts < MaxRestarts
  /\ restarts' = restarts + 1
  /\ archive' = archive \cup {tree[i] : i \in DOMAIN tree}
  /\ keys' = [g \in Agents |-> 0]
  /\ seen' = [k \in ReplayKey |-> 0]
  /\ events' = <<>>
  /\ tree' = <<>>
  /\ forgotten' = {}
  /\ calls' = [c \in Callers |-> IdleCall]
  /\ UNCHANGED <<clock, drift, minted>>

Step(c) ==
  \/ CheckSkew(c) \/ Lookup(c) \/ Deny(c) \/ Publish(c)
  \/ AppendCached(c) \/ AppendNew(c) \/ AppendFails(c)

Next ==
  \/ Tick \/ StepWallClock
  \/ \E g \in Agents : CreateKey(g) \/ DeleteKey(g)
  \/ \E c \in Callers :
       \/ \E a \in Actions, sig \in 0..minted : Begin(c, a, sig)
       \/ BeginDenied(c)
       \/ Step(c)
  \/ Restart

Spec == Init /\ [][Next]_vars

-----------------------------------------------------------------------------
(* Slip: the leaf the auditor asks for is itself left out.                 *)
EventsAfter(n) ==
  LET out[i \in Nat] ==
        IF i = 0 THEN <<>>
        ELSE IF Appended(i) /\ events[i].leaf > n
             THEN Append(out[i - 1], events[i])
             ELSE out[i - 1]
  IN  out[Len(events)]

(* EventsSince: the appended events from leaf index n on, in log order;    *)
(* out[i] is what the loop has collected from the first i events.          *)
EventsSince(n) ==
  LET out[i \in Nat] ==
        IF i = 0 THEN <<>>
        ELSE IF Appended(i) /\ events[i].leaf >= n
             THEN Append(out[i - 1], events[i])
             ELSE out[i - 1]
  IN  out[Len(events)]

-----------------------------------------------------------------------------
(* The type invariant of the pipeline's state and of every call.           *)
EventType ==
  [kind : {"appended"}, act : Actions, pub : Nat \ {0}, leaf : Nat, at : Nat]
    \cup
  [kind : {"rejected"}, act : Actions \cup {NoAct}, pub : {0}, leaf : {0},
   at : Nat]

CallType ==
  [pc : Pcs, act : Actions \cup {NoAct}, sig : Nat, now : Nat, pub : Nat,
   ev : Nat, floor : Nat]

LeafType == [act : Actions, sig : Nat \ {0}]

TypeOK ==
  /\ clock \in Nat
  /\ drift \in 0..MaxStep
  /\ minted \in Nat
  /\ restarts \in Nat
  /\ keys \in [Agents -> Nat]
  /\ events \in Seq(EventType)
  /\ tree \in Seq(LeafType)
  /\ archive \subseteq LeafType
  /\ forgotten \subseteq ReplayKey
  /\ seen \in [ReplayKey -> 0..Len(events)]
  /\ calls \in [Callers -> CallType]

(* The two append-only structures stay in step although they live under    *)
(* different locks and rejections land between appends: leaf indices grow  *)
(* along the log, every appended event names the leaf it describes, and no *)
(* leaf is without an event (Submit, lines 251-270).                       *)
TreeMatchesLog ==
  /\ \A i \in DOMAIN events : Appended(i) =>
       /\ events[i].leaf < Len(tree)
       /\ tree[events[i].leaf + 1] = LeafOf(events[i].act, events[i].pub)
  /\ \A i, j \in DOMAIN events :
       i < j /\ Appended(i) /\ Appended(j) => events[i].leaf < events[j].leaf
  /\ \A n \in DOMAIN tree : \E i \in DOMAIN events :
       Appended(i) /\ events[i].leaf = n - 1

(* What an auditor downloads with EventsSince(n) is, in order and without  *)
(* a hole, the tree from leaf n on (lines 368-387).                        *)
AuditorRebuildsTree ==
  \A n \in 0..Len(tree) :
    LET es == EventsSince(n) IN
    [i \in 1..Len(es) |-> LeafOf(es[i].act, es[i].pub)]
      = SubSeq(tree, n + 1, Len(tree))

(* Two leaves for one (agent, nonce) are more than the replay window apart *)
(* in recorded time, whatever the order in which calls that read the clock *)
(* before queueing for the lock get it (lines 213 and 240-249).  Only a    *)
(* failed append undoes this: it has already deleted the stale entry that  *)
(* still guards against calls with an older reading (lines 248 and 255).   *)
NonceSpacing ==
  \A i, j \in DOMAIN events :
    /\ i < j
    /\ Appended(i) /\ Appended(j)
    /\ KeyOf(events[i].act) = KeyOf(events[j].act)
    /\ KeyOf(events[i].act) \notin forgotten
    => events[j].at - events[i].at > Window

(* No signed action is logged twice in a life of the process: a copy that  *)
(* outlives its cache entry is by then outside the skew (docs/schema.md    *)
(* 49-55), even if the wall clock is set back meanwhile, by no more than   *)
(* the window exceeds the skew (lines 214 and 416-419).                    *)
LoggedOnce ==
  \A i, j \in DOMAIN events :
    /\ Appended(i) /\ Appended(j) /\ events[i].act = events[j].act
    /\ KeyOf(events[i].act) \notin forgotten
    => i = j

(* The replay cache dies with the process, and yet nothing an earlier life *)
(* logged can be logged again: the keystore dies with it and fresh keys    *)
(* verify no old signature.                                                *)
NoReplayAfterRestart ==
  \A n \in DOMAIN tree : tree[n] \notin archive

(* A call that arrives after its agent's key was deleted cannot log under  *)
(* that key, even if the agent is registered anew before it gets the lock  *)
(* (the lookup of line 219 and the use of pub at line 269 are apart).      *)
NoRetiredKey ==
  \A c \in Callers :
    calls[c].ev # 0 /\ calls[c].ev \in DOMAIN events
      => calls[c].sig >= calls[c].floor

(* A nil error names an appended event of the caller's agent and nonce, so *)
(* a client that never reuses a nonce is answered with its own leaf.       *)
AnswerIsLogged ==
  \A c \in Callers : calls[c].ev # 0 =>
    /\ calls[c].ev \in DOMAIN events
    /\ Appended(calls[c].ev)
    /\ KeyOf(events[calls[c].ev].act) = KeyOf(calls[c].act)

(* The reading of docs/schema.md line 54, "a verifier MUST reject" a seen  *)
(* (agent, nonce): a nil error is only ever given for the action that was  *)
(* itself logged.                                                          *)
SeenNonceRejected ==
  \A c \in Callers : calls[c].ev # 0 =>
    events[calls[c].ev].act = calls[c].act

=============================================================================
