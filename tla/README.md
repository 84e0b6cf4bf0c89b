# CryptoAgent in TLA+

This directory is a verification development of CryptoAgent: a Go key service
that keeps agents' keys, accepts their signed actions into an append-only
Merkle log, streams the log to a dashboard, issues capability tokens and
anchors the log's head in a contract; and a Python SDK with which agents sign,
ask for tokens and run actions that several of them must approve. The modules
are translated from the code; paths and line numbers in them refer to it.

Check a model with `tlc -config MCAuditLog_audit.cfg MCAuditLog.tla`, a proof
with `tlapm AuditLogProofs.tla`. `PROJECT.json` says for every definition which
lines it models, and for every property which change to which definition
breaks it. Those changed definitions stand in the modules, each before the
original and marked "Slip".

## 1. The system

| Part | State | Operations | What is hard |
|---|---|---|---|
| Audit pipeline (`auditlog/pipeline.go`) | event log, replay cache, subscriber channels, one mutex | `Submit`, `RecordRejection`, `Subscribe`, `EventsSince`, `AllEventsSince` | the clock and the key are read before the mutex is taken; tree and keystore have locks of their own; everything dies with the process |
| Keystore (`keystore/memory.go`) | key pair per agent | create, get, list, delete | deletes and recreations during a `Submit` |
| Merkle tree (`merkle/*.go`) | leaf hashes | append, root, inclusion and consistency proofs, their verifiers | odd sizes, powers of two, sizes and roots read apart |
| File-backed tree (`merkle/persistence.go`) | a file of 32-byte leaves | open, append, close | a write and a sync that can each fail or be cut off |
| Live feed (`auditlog/http/handler.go`, `useAuditStream.ts`) | one channel, one backlog, the socket, the page's last position | stream, reconnect | events between subscribe and backlog, full channels, lost connections, server restarts |
| Anchoring (`anchor/*.go`) | last committed size, latest anchor, a goroutine | tick, `CommitOnce`, `Stop` | transactions that are mined though the call failed; races of two commits; restarts with a smaller tree |
| Process (`cmd/keyserver/main.go`, `httpapi/handlers.go`) | the wiring, a listener, requests in flight, an exit status | start, listen, signal, `Stop`, `Shutdown`, routes | two timeouts in a row, streams that never end, a `cast` that hangs, failure at any point |
| Dashboard polling (`usePoll.ts`, `api.ts`) | what is shown | poll, deliver, time out, remount | requests overlap and answers overtake one another; the service restarts under the page |
| Contract (`AuditAnchor.sol`) | anchors, committer, owner, pending owner | `commit`, `setCommitter`, `transferOwnership`, `acceptOwnership` | rotation while a service is sending, nominations of former owners |
| Tokens (`capability/*.go`, `tokens.py`, `decorators.py`) | signing key, revoked ids; the guard's counter | issue, verify, revoke; guarded calls | checks that read key, clock and revocations in turn; revocations that a restart forgets; answers that do not arrive |
| Proposals (`proposal.py`, `multisig.py`) | replay cache, thresholds, depth per thread | collect signatures, execute | nested calls, exceptions, two threads in one proposal, silent peers |

**How they interact.** HTTP handlers call the pipeline, which calls the
keystore and the tree synchronously. The token service reports each refusal to
the pipeline (`RejectionSink`), which publishes it on the feed. The pipeline
hands events to SSE handlers through buffered channels and never waits for
them. The anchoring goroutine only reads the tree, and talks to the contract
through the `cast` executable. `main` starts it before the listener, and on a
signal stops it before it drains the listener. The dashboard polls the tree's
head and the latest anchor, and follows the stream. The SDK talks HTTP to the
token service and to the log. Nothing the Go process holds survives it; the contract's storage does.

**What makes each part correct.**

- Pipeline: one leaf per action, also across restarts; log and tree agree;
  a deleted key logs nothing; an answer names the caller's own event.
- Feed: in order, nothing twice, nothing missing unless a channel overflowed,
  and it catches up.
- Tree: what it proves is true, and it can prove everything true; acknowledged
  leaves survive a crash.
- Anchoring and contract: heads are anchored, the ledger grows, what is reported
  is on it.
- Process: a signal ends it, whatever hangs; a clean exit cut nothing off.
- Polling: the page comes to show what is served, and only anchors that exist.
- Tokens: exactly the valid ones let a call through, and a revoked one never
  does again.
- Proposals: an approved function runs only with enough signers, once per
  window, and leaves one record.

## 2. Modules

| Module | Models | Composition |
|---|---|---|
| `AuditLog` | pipeline, in-memory keystore, handler goroutines, restarts | |
| `AuditLogProofs` | its theorems | extends `AuditLog`, instantiates `Recursion` |
| `Feed` | what a live feed promises (abstract) | |
| `AuditStream` | fan-out, SSE handler, socket, dashboard hook | implements `Feed` |
| `AuditStreamProofs` | its theorems | extends `AuditStream` |
| `AuditAnchorContract` | the contract | |
| `AnchorWitness` | what anchoring promises (abstract) | |
| `Anchor` | committer, clients, RPC, restarts, governance | extends the contract; implements `AnchorWitness` |
| `KeyServer` | the process: start, requests, streams, signals, exit | extends `Anchor` |
| `Dashboard` | one `usePoll` of a page | extends `KeyServer` |
| `KeyServerProofs` | the theorems of contract, anchoring, process and page | extends `Dashboard` |
| `MerkleTree` | tree, proofs, verifiers as recursive functions | |
| `MerkleVerifier` | `VerifyHistoricalRoot` against appends | extends `MerkleTree` |
| `MerkleProofs` | the theorems of both | extends `MerkleVerifier`, instantiates `Recursion` |
| `Recursion` | induction and recursive functions over the naturals, for the proofs | |
| `MerkleFile` | the file behind a tree | |
| `MerkleFileProofs` | its theorems | extends `MerkleFile` |
| `Capability` | token service and the SDK's guard | |
| `CapabilityProofs` | its theorems | extends `Capability` |
| `ProposalFlow` | proposal flow and gate | |
| `GateBypass` | `gated()` and the bypass metric | extends `ProposalFlow` |
| `GateBypassProofs` | theorems of flow, gate and metric | extends `GateBypass` |
| `MC*` | instances for TLC | one per checked module |

The log is abstracted from module to module: `AuditLog` has full events and a
tree; `AuditStream` has only their sequence numbers; `Anchor` only the tree's
size and, as its root, the life of the process it belongs to. This is sound
because the feed copies events and the committer reads sizes and roots, and
neither ever writes what it reads.

### 2.1 AuditLog

A call of `Submit` is a program counter in `calls[c]`. It can be preempted,
and is split, between the clock (line 213), the keystore's lock (219) and the
pipeline's mutex (233-281); everything under the mutex is one action.

- `Begin`, `BeginDenied`, `CheckSkew`, `Lookup`: the handler and the checks
  before the lock; `Deny` and `Publish`: a refusal, whose clock reading and
  publication are also apart.
- `Hit`, `AppendCached` and the append of a new leaf: the critical section, a
  failing `tree.Append` included (`TreeMayFail`, for a file-backed tree).
- `CreateKey`, `DeleteKey`, `Restart`, `Tick`: the world around it.

A key pair is a fresh number and a signature is the number of its key. That
abstracts Ed25519 (no forgery, no collision) and the canonical JSON, which is
injective on valid actions. `time.Now` reads two clocks: `clock` is the
monotonic one, by which `expired` takes the age of a cache entry, and
`clock + drift` the wall clock, with which `Submit` compares an action's
timestamp. `StepWallClock` sets `drift` anywhere in `0..MaxStep`.
`WindowAssumption` says how far that may be for the window still to cover it:
`NonceWindow >= MaxSkew + MaxStep`, 570 seconds with the code's constants.
Beyond that a clock set back makes an old action fresh again after its cache
entry is gone.

### 2.2 AuditStream and Feed

`Publish` appends and offers the event to the channel, dropping it when full.
`Serve` is the handler: subscribe, then read the backlog, then write what is
newer than `lastSent`, blocking while the socket is full. `OnMessage` is the
hook's `onmessage` with its duplicate check and its cut to `MAX_EVENTS`;
`Connect` is its timer; `Disconnect` loses the socket's contents; `Restart`
empties the log. One client suffices, as subscribers never wait for one
another. `Feed` is refined with `next <- lastSeq + 1`.

### 2.3 Anchor, AuditAnchorContract and AnchorWitness

The contract's functions are actions with every `revert` as a missing step.
`Anchor` splits `commit` at snapshot, staleness check, broadcast, mining,
receipt, `store.Set` and `lastCommitted`. A transaction whose sender gave up
stays in `pool` and may be mined in any later state, in a later life too.
`CastHangs` is a `cast` that never returns: `main` gives the loop a context that
is never cancelled and the client sets no deadline, so nothing ends the pass.
Dry-run is the other value of `cast`. `Govern` is everybody else on the chain.

Assumption `RevertIsError`: `cast send` exits with an error when its
transaction reverts. `parseCastSendOutput` reads a transaction hash and a block
but no status, so with `RevertIsError = FALSE` a reverted commit would be
reported as anchored and `ReportedIsAnchored` fails.

### 2.4 KeyServer and Dashboard

`KeyServer` puts the committer into the process that runs it. `main` is where
`main.go` is: `StartFails` or `Start`, `Listen` in a goroutine nobody waits for,
`ListenFails` through `errCh`, and on `Signal` first `committer.Stop`
(`StopReturns`, `StopTimesOut`) and then `srv.Shutdown` (`DrainReturns`,
`DrainTimesOut`). Each timeout may fire at any time. `Ends` is what every end of
the process has in common: memory is gone, requests being handled are reset,
`Anchor`'s `Restart` says what stays. Requests are accepted while the listener
is open, which it still is during `committer.Stop`; an event stream ends only
when its client leaves. What AuditLog does with a submission is here only that
the tree grows (`Submitted`).

`Dashboard` adds the page: one `usePoll`, whose interval fires whether or not
the last request came back, with the ten-second abort of `api.ts`, refused and
reset connections, and reruns of the effect, after which late answers are
dropped. The page's polls do not influence one another, so the instance looks
at one at a time (`Setups`): two overlapping polls of the head with anchoring
off, and a poll of the latest anchor in dry-run and in cast mode.

### 2.5 MerkleTree, MerkleVerifier, MerkleFile

Hashes are symbolic and injective, so a root determines its leaves. The
definitions follow `mth`, `path`, `subproof` and the loops of the two verifiers
as recursive functions; a slice of the leaves is a length and an offset, bit
shifts are divisions, and a loop is a function of the number of turns taken.
`largestPowerOfTwoLessThan` is stated by halving its argument instead of doubling
the result; both give the same power. `MerkleVerifier` adds the three lock acquisitions of
`VerifyHistoricalRoot`. `MerkleFile` keeps the file as half leaves: a torn write
leaves one half; `Crash` keeps any prefix not shorter than the synced one.

### 2.6 Capability

`calls[i]` is one guarded call: the guard's side (`client`) and the handler of
its verify request (`server`), which runs on when the guard has timed out.
`CheckSignature`, `CheckExpiry` and `CheckRest` are the three points at which
`Verify` looks at shared state: its key, the clock, the revocations.
`Restart` empties keystore and revocations and rotates the key. Expiry times
wrap at `MaxInt` as int64 does. Claims are abstracted to whether they are the
ones that were signed. `CutShort` is a response that ends early: the guard
fails closed, but with an exception that is neither a `TokenError` nor counted.

### 2.7 ProposalFlow

A thread has a stack of `execute` frames, since an approved function may call
`execute` again. `ReadCutoff`, `Prune`, `CheckReplay`, `EnterGate`, `FnReturns`
or `FnRaises`, `Mark`, `Record` are the accesses to clock, cache, gate and sink
in the order of the code. Peers answer or stay silent until `Deadline`. The
gate's depth is per thread, as `threading.local` is. A sink that raises changes
nothing (`_safe_record`), so `Record` has one outcome.

### 2.8 GateBypass

The same threads also call functions behind `gated()`, from the outside or from
within an approved function. `GatedRuns` is a call that passes `is_executing`.
A refused one is two steps, `ReadBypass` and `WriteBypass`, because `+=` on the
shared `Counter` is a read and a write and other threads may run in between: in
CPython 3.11 and later at the latest in `Counter.__missing__`, which is Python
code. Whether a call was direct is decided by the stack of `execute` frames and
not by the gate's depth, so that a wrong depth shows.

## 3. Runs

| Run | What it asks | Properties |
|---|---|---|
| `audit` | two handlers, one nonce used by two actions, a stepped wall clock, key rotation, a failing tree, a restart | `NonceSpacing`, `LoggedOnce`, `NoReplayAfterRestart`, `TreeMatchesLog`, `AuditorRebuildsTree`, `NoRetiredKey`, `AnswerIsLogged` |
| `stream` | drops, two disconnects, a restart | `ConnectionInOrder`, `NothingBetween`, `ImplementsFeed` (with liveness) |
| `anchor` | the loop and a direct `CommitOnce` in cast and dry-run mode, an RPC failure, a restart, governance | `ReportedIsAnchored`, `AnchorsAreHeads`, `SizesIncrease`, `NominationIsCurrent` |
| `keyserver` | the process in its three modes, signalled, killed, failing to listen, with hanging casts, an open stream and a page that polls | `CleanMeansClean`, `HeadsAreAnchored`, `SignalEndsProcess`, `ImplementsWitness`, `ShownIsAnchored`, `PageConverges` |
| `merkle` | all trees of up to 7 leaves; the verifier against appends | `ProofsComplete`, `ProofsSound`, `RewriteDetected`, `FalseAlarmOnlyFromRace` |
| `file` | short writes, failed syncs, kills, crashes | `LeavesAreDurable`, `ReopensTheTree` |
| `token` | two guarded calls, expiry, an overflowing ttl, revocation, lost answers, a restart | `GrantedMeansValid`, `RevokedStaysDead`, `OnlyInvalidRefused` |
| `proposal` | two threads, nested calls, exceptions, silent peers, gated functions called in and out of approved calls | `DepthIsApproval`, `NoReplayOfExecuted`, `TrailMatchesRuns`, `BypassNoticed`, `EveryCallEnds` |

Every module with state also has its type invariant checked in one of these,
those of `Anchor` and `KeyServer` as part of `PageTypeOK` and that of
`ProposalFlow` as part of `BypassTypeOK`. Runs
that end in a violation, each of something the repository says of itself:

| Run | The repository says | The code |
|---|---|---|
| `nonce_reuse` | a verifier MUST reject a seen nonce (`docs/schema.md` 49-55) | a different action under a seen nonce is answered with the first one's event and no error (`pipeline.go` 243-246) |
| `drop_resync` | slow subscribers re-sync on reconnect (`pipeline.go` 154-155, 276) | the hook asks for what follows the last event it saw, which lies after the gap |
| `double_execute` | a replay must not trigger the gate (`proposal.py` 349) | the nonce is marked after the function returned, so two threads both pass the check |
| `race_accept` | OK iff the first leaves still hash to the root (`verifier.go` 24-25) | an append between `Size` and `Root` lets a larger tree's root pass for the smaller size |

### 3.1 Bounds

Deadlock is not checked anywhere: each run stops at its bounds, where an idle
system is a legitimate end.

- `audit`: two callers are what a race for the lock needs, and one nonce used
  by two actions what the cache can confuse. Skew 1, window 2, steps of 1 and time
  up to 4 let an entry expire while a call with an older reading waits and the
  wall clock is set back to the edge of what the assumption allows; two key pairs
  and one restart let a key be replaced and a log be lost. Callers are symmetric.
- `stream`: a channel of 2, a socket of 2 and a page of 3 with 5 events let each
  overflow; two disconnects give a reconnect after a gap, one restart two logs.
- `anchor`: two sizes, so that there is a smaller, an equal and a larger head to
  commit; the error allows a lost receipt and a retry.
- `keyserver`: two sizes and two lives: a page that has seen a head of two leaves
  meets a service with none. Two errors allow a failed commit and then a hang.
  Two requests overlap; two faults of the page (`faults`) allow a timeout and a
  remount. Signals are sent while a life is left, so that the process can end.
- `merkle`: 7 leaves contain every shape that one level of recursion adds to
  the next (powers of two, one less, one more); two data values tell leaves
  apart. Claims in the verifier have up to 3 leaves.
- `file`: four leaves in halves and three stops: a torn write, a reopening and
  a second crash.
- `token`: `MaxInt = 4`, time up to 2 and a ttl of 4 make an expiry wrap; two
  calls, one token, two lives.
- `proposal`: three calls over two threads give a race and a nested call; time
  up to 2 with a window of 1 lets a mark leave the window;
  two direct calls are what a lost increment needs.

### 3.2 Fairness

- `AuditStream`: weak fairness on the hook's timer, the handler goroutine and the
  browser's reader. Publishing and disconnecting are never forced. `Feed` owes
  progress only while nothing was dropped.
- `KeyServer`: weak fairness on `main`'s waits, whose timers fire; on the ticker,
  on a pass once begun, and on mining of what was broadcast; strong fairness on
  the loop's exit, because Go's `select` picks at random among ready cases and
  so cannot prefer the tick forever. `CastHangs` is not excluded: a hung pass
  has no step left to be fair to. Nobody has to start the process, to send a
  signal or to leave a stream, and no client has to submit.
- `Dashboard`: weak fairness on the interval, and on a request that can be
  accepted, answered and delivered. `PageConverges` assumes in its premise that
  the service stays up.
- `GateBypass`: weak fairness on each thread's next step. The deadline is a
  timeout, and approved functions are assumed to end; peers need not answer.

## 4. Proofs

The theorems hold for every value of the constants that meets the named
assumptions, in particular any number of agents, nonces, callers, threads,
accounts, events, leaves and sizes, and any buffer, window and bound. Every
inductive invariant below also passes TLC on the instance of its module's run. Hardly any property is inductive as it stands: most speak of the
end of an operation, and the invariant has to say what the operation has
established at each place where another actor can step in.

**`AuditLogProofs`** (the pipeline)

- `TypeCorrect`. `TypeOK` is strengthened to `TypeInv` by `CallOK`: what a call
  has established when it reaches the lock (its action is fresh, its signature
  is by the key it looked up).
- `LogAndTreeAgree`. `TreeMatchesLog` is inductive with `TypeInv`; the proof is
  about the critical section, the only step that changes both structures.
- `DownloadsRebuildTree` (`AuditorRebuildsTree`), from `TreeMatchesLog`, by
  induction over the turns of the loop in `EventsSince`: the first `i` events
  describe exactly the leaves below some height (`Height`), so the next appended
  event describes the next leaf (`NextLeaf`), and what is collected so far is
  the tree between the first leaf asked for and that height (`Downloaded`).
- `LogOnlyGrows`, an action property: in one life of the process no step moves
  or changes an event or a leaf.
- `NonceSpacingHolds`. Not inductive alone: a new leaf is far from all earlier
  ones of its nonce only because the cache entry is the latest of them, hence
  `NonceInv == SeenIsLatest /\ NonceSpacing`. A failed append breaks
  `SeenIsLatest` for its nonce: it deletes the stale entry first. The history
  variable `forgotten` names these nonces, and the theorem leaves them out.
- `NoDoubleLogging`. From `NonceInv`: both copies were within the skew of one
  timestamp by the wall clock (`Fresh`), so at most twice the skew and one step
  apart by the monotonic one, while the window is the skew plus `NonceWindow`.
  Uses `WindowAssumption` (`NonceWindow >= MaxSkew + MaxStep`).
- `RestartsDoNotReplay`. The replay cache plays no part: `ArchiveInv` says that
  each key that signed an archived leaf is gone from keystore, calls and tree,
  and that keys are never minted twice.
- `RetiredKeysLogNothing`. `KeysAreCurrent` follows a call from its arrival to
  its answer: until the lookup, the agent's key and the next one to be minted
  are no older than the call's arrival; after it, the signature is not. It needs
  `KeysMinted` of `ArchiveInv`: a registered key is older than the next.
- `AnswersAreLogged`. From `SeenIsLatest`: the cache holds only appended events
  of the key it is asked for, and the log only grows while the process lives.

**`AuditStreamProofs`** (the live feed)

- `StreamTypeCorrect`, `FeedIsInOrder`, `NothingIsBetween`, all from
  `StreamInv`: what the handler holds at each place of its code (`HandlerFits`:
  the backlog continues what was sent), that channel and wire rise, and that on
  a connection that lost nothing the channel ends where the log ends and
  backlog and channel meet or overlap (`LosslessFits`). That last conjunct is
  where the order of `Subscribe` and `AllEventsSince` matters.
- `StreamImplementsFeed`: initial state and steps of `Feed`
  (`FeedSafety`). The fairness that `ImplementsFeed` also contains stays with TLC.

**`KeyServerProofs`, the contract**: `ChainTypeCorrect`;
`AnchorsGrow` (sizes increase along the list, from the comparison with the last
anchor); `NomineeIsTheOwners`; `CommitterAloneExtends`.

**`KeyServerProofs`, the committer on the contract**

- `AnchorTypeCorrect`; `ServiceAnchorsGrow`, from the contract's own step lemma.
- `ReportsAreAnchored`. `Waiting` says that a transaction somebody waits for is
  the one that goroutine sent in this life, `Acknowledged` that between receipt
  and the second write the head is on the chain. Its hypothesis `RevertIsError`
  is about `cast`, which is not part of the repository: if `cast send` exits with
  status 0 for a reverted transaction, the service reports what was never
  anchored.
- `AnchoredHeadsExisted`. `NoFutureHead`: no goroutine, transaction or anchor
  names a head or a life that does not exist yet. No hypothesis on `cast`.

**`KeyServerProofs`, page, process, committer and contract composed**

- `PageRunsAnchor`: a behaviour of the composition is one of `Anchor`, so that
  the theorems above hold inside the process. `PageTypeCorrect`.
- `CleanExitIsClean`. `LoopOnly` (only the loop commits), `Recorded` (the two
  records of the last commit differ only between the two writes) and `Fresh`
  (what is under way is larger than what was committed).
- `PageShowsAnchored`, through `AnswerIsAnchored`: an answer on its way to the
  page is about an anchor, also when its server is gone. With `RevertIsError`.
- `ProcessImplementsWitness`: the whole of `AnchorWitness`, which states no
  fairness. `Fresh` is what makes the reported head move forward only. With
  `RevertIsError`.

**`CapabilityProofs`** (token service and guard)

- `CapabilityTypeCorrect`, strengthened by the bound on the clock: the sum of
  `Issue` wraps at most once.
- `GrantIsValid`, `RevocationIsFinal`, `RefusalIsDeserved` from
  `TokensFit /\ CallsFit`: a token's claims are the issuer's, a revocation in the
  life that signed a token is remembered as long as that life; and for each
  place in `Verify`, what the looks so far have established, what the reason of
  a refusal means, and that this stays true while time passes, tokens are
  revoked and lives begin (`Evolves`).

**`MerkleProofs`** (tree, proofs, verifiers, historical roots)

The code takes a log apart from the top, at the largest power of two, while its
verifiers climb from the leaf. The proofs meet in the middle, at the levels of
the tree.

- Pairing the nodes of a level gives the level above. `HeadPair`, `PathPair`,
  `SubPair` and `SubPath` say that the head of a log is the head of its paired
  level, and that an inclusion or consistency proof is its sibling on this level
  followed by the proof on the level above. Each is an induction over the size
  that follows the recursion of `mth`, `path` or `subproof`; a node without a
  sibling is `Promote`d, which is what the verifiers' inner loops skip.
- `ClimbTurn` and `CombineTurn`: a turn of a verifier's loop takes it from a node
  to its parent on the next level that has a sibling there (`Lift`), and what
  it derives is right on the upper level only if everything that went in was
  right on the lower one, hashing being collision free. `Start` is the
  shift before the loop of `VerifyConsistency`.
- From these, for any size: `InclusionProofComplete`, `ConsistencyProofComplete`
  (the tree's own proofs are accepted), `InclusionProofSound` and
  `ConsistencyProofSound` (any sequence that is accepted proves the truth).
- `VInv` is the inductive invariant of the historical-root verifier: the size
  read is one the tree had, the root read is that of the tree at that size or a
  later one, and the report is what the check would still say (`Verdict`),
  although leaves were appended since. It needs that appends change no head
  and no proof between heads (`AppendKeeps`), which is also the action property
  `HeadsNeverChange`.
- `ProofsAlwaysComplete`, `ProofsAlwaysSound`, `RewriteAlwaysDetected` and
  `FalseAlarmsOnlyFromRace` are the four properties of run `merkle`.
  `NoProofMisleads` is more than that run can try: TLC presents the proofs the
  tree hands out, whole and cut short; the theorem is about every sequence.
- For `RewriteAlwaysDetected` the root read may be that of a larger tree than the
  size read, so the verifier runs an honest proof against the wrong head. Unless
  the claimed size is a power of two it derives both heads from the proof alone
  and refuses all but those (`HonestRun`). If it is one, it starts from the
  claimed root and climbs the left edge of the tree, and what it derives can
  only be the root it read if the claimed root is a head on that edge
  (`EdgeClimb`); `VerdictNamesHead` joins the two.

**`Recursion`** supplies what these proofs start from. The library's induction
theorems take an operator as a parameter, which the provers cannot instantiate.
`Recursion` proves from the library's theorem on well-founded orders that every
set of naturals has a least member, hence induction for sets (`Induction`) and,
with the recursion's body as a CONSTANT operator that INSTANCE fills in, that
a recursive function satisfies its equation (`RecursiveFunction`).

**`MerkleFileProofs`** (the file behind a tree): `FileTypeCorrect`;
`AnsweredLeavesSurvive` and the action property `ReopeningFindsTheTree`, both
from `InStep`, which says for each place of an append where file, synced prefix,
leaves in memory and leaves once in memory agree, while no call failed halfway.

**`GateBypassProofs`** (proposal flow, gate and metric)

- `FlowTypeCorrect`, `ApprovalIsDepth`, `ExecutedIsNotReplayed` and
  `TrailIsComplete` from `FlowInv`: what each frame of `execute` has established
  (`FramesFit`); that the running frames are the lowest of their stack, as many
  as the depth, with at most one call above them (`Stacks`); that what was
  marked is in the replay cache or out of the window (`MarksKept`), which is
  what pruning by an older clock reading could break; and the balance of
  returned and recorded calls (`Trail`).
- `BypassRunsFlow` carries these over to `GateBypass`; `BypassTypeCorrect` and
  `DirectCallsAreNoticed` add `MetricInv`: every direct call not over is being
  counted, and unless two threads counted at once the counter and the value
  being written back agree.
- Assumptions made for them: a proposal has finitely many peers
  (`FlowAssumption`), as it has in a list; and the absent report is no report
  (`BypassAssumption`).

### 4.1 Only model-checked

- Liveness, and the fairness part of `ImplementsFeed`: `HeadsAreAnchored`,
  `SignalEndsProcess`, `PageConverges`, `EveryCallEnds`. TLAPS does not reason
  about ENABLED.
- The four runs that end in a violation are refutations and have no theorem.

## 5. Further observations without a run

- After a server restart the page drops every event up to its old position as
  a duplicate (`useAuditStream.ts` 29-41). `Feed` states this as it is.
- In cast mode a commit that was mined but whose receipt was lost is never
  reported until the tree grows: retries of the same size revert with
  `TreeShrank` (`committer.go` 165-167, `AuditAnchor.sol` 79-82).
- Two racing `CommitOnce` calls can make `LatestStore` and `lastCommitted` go
  back to a smaller, still anchored head (`committer.go` 176-179); therefore
  `ImplementsWitness` is checked for the loop alone.
- After a restart the tree begins empty (`main.go`, `merkle.New`) and has to
  outgrow the anchored size before anything is accepted again.
- An open event stream makes every graceful shutdown run into its timeout and
  exit with status 1 (`main.go` 105-110): nothing cancels the handlers. A second
  signal stays in the channel.
- A `cast` that hangs stops anchoring for good, without a log line, until the
  process is restarted (`client.go` 165, 177).
- `usePoll.ts` 8-10 says that stale data is shown "with an indicator"; `App.tsx`
  17-19 and the views read only `data`, never `error`.
- `handlers.go` 116-118 refers to `POST /v1/merkle/verify`, and `committer.go`
  111-113 to a `commit-now` endpoint; `Router` mounts neither.
- The anchor id of a cast commit is always 0: `parseCastSendOutput` has none.
- A failed write or sync in `persistLocked` leaves bytes of a leaf the tree does
  not have, against `merkle/README.md` 44-46; `LeavesAreDurable` is therefore
  about runs in which no call failed halfway. A kill after the write also
  leaves a loaded but not yet synced leaf.
- `VerifyConsistency` accepts any root for size 0 (`consistency.go` 64-70), and
  the race of `race_accept` can also refuse a true claim.
- `AuditAnchor.sol` 38 says the owner cannot itself commit; constructor and
  `setCommitter` allow owner and committer to be the same address.
- A cut-short HTTP response raises `http.client.IncompleteRead` out of
  `TokenClient` (only `URLError`, `TimeoutError` and `OSError` are converted,
  `tokens.py` 199-203), and is not counted by `UnauthorizedMetrics`, of which
  `acl.py` 50-58 says that every rejection counts.
- An approved function that raises leaves no audit record; a
  `ThresholdNotMetError` that escapes from a nested call is recorded as the
  outer proposal's own (`proposal.py` 358-362).
- `gated()` accepts any call inside any approved execution of its gate, whatever
  the action type (`multisig.py` 106-107, 138-140).
- `report_bypass` increments a shared `Counter` without a lock (`multisig.py` 110):
  two threads refused at once may leave one bypass uncounted, although 131-132
  say that a direct call increments the metric. `BypassNoticed` therefore promises
  the exact number only for types that no two threads counted at once.

## 6. Not modelled

- The canonical JSON of actions and tokens and its parity between Go and
  Python: data, tested in the repository with shared vectors.
- The parsing of the environment, CORS headers and request logging. The key
  routes are the keystore's operations, which are actions of `AuditLog`.
- `merkle-verify`, the deployment script, the LangChain adapter: I/O around
  parts that are modelled.
- Dashboard rendering, and the error `usePoll` returns, which no view reads.
- `signed_action`'s and `token_context`'s stacks beyond whether there is a
  token; `ACL`; `multi_sig`; the HTTP form of the proposal audit sink.
- The order of `RecordedAt` in the log. The clock is read before the lock, so it
  need not grow with `Seq`; nothing in the repository orders events by it (the
  dashboard prints it), and what the replay cache makes of it is `NonceSpacing`.

## 7. Plan

The order so far: the pipeline with its proofs; the feed; contract and
anchoring; the Merkle tree, the verifier and the file; proposals; tokens; the
wall clock; the process and the page that polls it; the bypass metric; then the
theorems of every component, those over the recursive Merkle functions and
over the auditor's download last. Every invariant the runs check is proved. To
come:

1. Models: `signed_action` and `token_context` as nested thread-local stacks
   under `requires_token`; the HTTP audit sink composed with `AuditLog`.
2. Proofs: that the auditor's download, fed to a second `MerkleTree`, yields the
   heads the service serves, which joins `DownloadsRebuildTree` and
   `NoProofMisleads`.
