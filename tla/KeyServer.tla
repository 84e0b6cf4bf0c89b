------------------------------ MODULE KeyServer ------------------------------
(***************************************************************************)
(* The key service as a process (cmd/keyserver/main.go): how it starts     *)
(* from its configuration, what runs next to what, and how a signal, a     *)
(* failing listener or a kill ends it.  Composes the committer of module   *)
(* Anchor with the HTTP server, its requests in flight and the event       *)
(* streams that never end by themselves.                                   *)
(*                                                                         *)
(* The two timeouts of five seconds are steps that may be taken at any     *)
(* time: nothing in the code bounds what else happens before they expire.  *)
(***************************************************************************)
EXTENDS Anchor, Integers

CONSTANTS
  Requests      (* requests that can be in flight at once                  *)

(* What config.Load accepts for ANCHOR_MODE.                               *)
AnchorModes == {"off", "dry-run", "cast"}

VARIABLES
  mode,       (* cfg.AnchorMode                                            *)
  main,       (* where main is: "down" before it starts and after it ended *)
  listener,   (* "none" before Listen, "open", or "closed" by Shutdown     *)
  status,     (* exit status of the process that ended, None while it runs *)
  requests,   (* the requests of the clients                               *)
  stream,     (* whether a GET /v1/audit/events is being served            *)
  lost        (* history: requests that the end of the process cut off     *)

process == <<mode, main, listener, status, lost>>
http == <<requests, stream>>
serverVars == <<vars, process, http>>

None == -1

NoData == [size |-> 0, root |-> ForeignRoot]

IdleRequest == [pc |-> "idle", what |-> "head", val |-> NoData, live |-> TRUE]

(* The requests whose handler runs, and so keep Shutdown waiting.          *)
Active == {q \in Requests : requests[q].pc = "handling"}

ServerInit ==
  /\ Init
  /\ mode \in AnchorModes
  /\ cast = (mode = "cast")
  /\ main = "down" /\ listener = "none" /\ status = None
  /\ requests = [q \in Requests |-> IdleRequest]
  /\ stream = FALSE
  /\ lost = FALSE

-----------------------------------------------------------------------------
(* Starting.                                                               *)

(* config.Load, capability.NewService, buildAnchorClient or NewCommitter   *)
(* returns an error: os.Exit(1) before anything runs.                      *)
StartFails ==
  /\ main = "down"
  /\ status' = 1 /\ lost' = FALSE
  /\ UNCHANGED <<vars, mode, main, listener, http>>

(* The committer's goroutine is started, and the server's.                 *)
Start ==
  /\ main = "down"
  /\ main' = "serving"
  /\ status' = None /\ lost' = FALSE
  /\ UNCHANGED <<vars, mode, listener, http>>

(* ListenAndServe binds, in a goroutine main does not wait for.            *)
Listen ==
  /\ main \in {"serving", "stopping"}
  /\ listener = "none"
  /\ listener' = "open"
  /\ UNCHANGED <<vars, mode, main, status, lost, http>>

-----------------------------------------------------------------------------
(* Ending.  Memory is gone, connections are reset; a cast that runs is a   *)
(* process of its own and what it broadcast stays (Restart of Anchor).     *)
Ends(code) ==
  /\ Restart
  /\ main' = "down" /\ listener' = "none" /\ status' = code
  /\ lost' = (Active # {})
  /\ stream' = FALSE
  /\ requests' = [q \in Requests |->
       IF q \in Active THEN [requests[q] EXCEPT !.pc = "reset"]
                       ELSE requests[q]]
  /\ UNCHANGED mode

(* Listen or Accept fails while main waits: errCh, and os.Exit(1).         *)
ListenFails == main = "serving" /\ Ends(1)

(* SIGKILL, or a panic.                                                    *)
Killed == main # "down" /\ Ends(2)

(* srv.Shutdown closes the listener and waits.                             *)
Shutdown ==
  /\ main' = "draining"
  /\ listener' = IF listener = "open" THEN "closed" ELSE listener

(* SIGINT or SIGTERM: committer.Stop, or Shutdown if there is none.  A     *)
(* second signal stays in the channel.                                     *)
Signal ==
  /\ main = "serving"
  /\ life < MaxRestarts
  /\ \/ mode # "off" /\ Stop /\ main' = "stopping" /\ UNCHANGED listener
     \/ mode = "off" /\ Shutdown /\ UNCHANGED vars
  /\ UNCHANGED <<mode, status, lost, http>>

(* committer.Stop returns true: the loop has closed done ...               *)
StopReturns ==
  /\ main = "stopping"
  /\ proc[Loop].pc = "exited"
  /\ Shutdown
  /\ UNCHANGED <<vars, mode, status, lost, http>>

(* Slip: only a loop that has left its pass is given up on.                *)
StopWaitsForPass ==
  /\ main = "stopping"
  /\ proc[Loop].pc \in {"idle", "exited"}
  /\ Shutdown
  /\ UNCHANGED <<vars, mode, status, lost, http>>

(* ... or false, with a warning, after its timeout.                        *)
StopTimesOut ==
  /\ main = "stopping"
  /\ Shutdown
  /\ UNCHANGED <<vars, mode, status, lost, http>>

(* Slip: the listener is closed and nobody waited for, as with Close.      *)
ClosedAtOnce == TRUE

(* No connection is active: Shutdown returns nil.                          *)
Drained == Active = {} /\ ~stream

DrainReturns == main = "draining" /\ Drained /\ Ends(0)

(* The context of Shutdown expires.                                        *)
DrainTimesOut == main = "draining" /\ Ends(1)

-----------------------------------------------------------------------------
(* What runs while the process does.                                       *)

(* handleMerkleHead                                                        *)
MerkleHead == [size |-> size, root |-> life]

(* LatestStore.Latest, ErrNoAnchorYet included.                            *)
Latest == IF latest.size = 0 THEN NoData ELSE latest

(* GET /v1/anchor/latest: 404 while there is no anchor, and also when      *)
(* anchoring is off and nothing is mounted there.                          *)
LatestAnchor == IF mode = "off" THEN NoData ELSE Latest

Served(what) == IF what = "head" THEN MerkleHead ELSE LatestAnchor

Accept(q) ==
  /\ listener = "open"
  /\ requests[q].pc = "sent"
  /\ requests' = [requests EXCEPT ![q].pc = "handling"]
  /\ UNCHANGED <<vars, process, stream>>

Handle(q) ==
  /\ requests[q].pc = "handling"
  /\ requests' = [requests EXCEPT ![q].pc = "answered",
                                  ![q].val = Served(requests[q].what)]
  /\ UNCHANGED <<vars, process, stream>>

(* A stream opens; only its client's leaving ends the handler.             *)
OpenStream ==
  /\ listener = "open" /\ ~stream
  /\ stream' = TRUE
  /\ UNCHANGED <<vars, process, requests>>

LeaveStream ==
  /\ stream
  /\ stream' = FALSE
  /\ UNCHANGED <<vars, process, requests>>

(* An append, accepted while the listener was open.                        *)
Submitted == listener # "none" /\ Grow /\ UNCHANGED <<process, http>>

(* The committer's goroutine.                                              *)
Committing == main # "down" /\ mode # "off" /\ UNCHANGED <<process, http>>

CommitterSteps(p) == Committing /\ Pass(p)

Ticks == Committing /\ Snapshot(Loop)

Exits == Committing /\ LoopExit

Included == (\E tx \in pool : Mine(tx)) /\ UNCHANGED <<process, http>>

ServerNext ==
  \/ StartFails \/ Start \/ Listen \/ ListenFails \/ Killed
  \/ Signal \/ StopReturns \/ StopTimesOut \/ DrainReturns \/ DrainTimesOut
  \/ \E q \in Requests : Accept(q) \/ Handle(q)
  \/ OpenStream \/ LeaveStream \/ Submitted
  \/ Ticks \/ Exits \/ Included
  \/ \E p \in Procs : CommitterSteps(p) \/ (Committing /\ CastHangs(p))
  \/ Govern /\ UNCHANGED <<process, http>>

(* main's selects and timers go on.  The committer's ticker fires, a pass  *)
(* whose cast returns goes on, the chain includes what was broadcast, and  *)
(* the loop cannot for ever prefer the tick to a closed stop (Go's select  *)
(* picks at random among the ready).  Nobody has to start the process, to  *)
(* send it a signal or to leave a stream, and cast may hang.               *)
ServerFairness ==
  /\ WF_serverVars(StopReturns \/ StopTimesOut)
  /\ WF_serverVars(DrainReturns \/ DrainTimesOut)
  /\ WF_serverVars(Ticks) /\ SF_serverVars(Exits)
  /\ \A p \in Procs : WF_serverVars(CommitterSteps(p))
  /\ WF_serverVars(Included)

-----------------------------------------------------------------------------
Answers == [size : 0..MaxSize, root : Roots]

(* The type invariant of the process.                                      *)
ServerTypeOK ==
  /\ TypeOK
  /\ mode \in AnchorModes /\ cast = (mode = "cast")
  /\ main \in {"down", "serving", "stopping", "draining"}
  /\ listener \in {"none", "open", "closed"}
  /\ status \in {None, 0, 1, 2}
  /\ requests \in [Requests ->
       [pc : {"idle", "sent", "handling", "answered", "reset"},
        what : {"head", "anchor"}, val : Answers, live : BOOLEAN]]
  /\ {stream, lost} \subseteq BOOLEAN

(* What main takes for clean is clean.  Once the loop has closed done no   *)
(* commit is half way, so the transactions still under way are ones it     *)
(* had given up on and the two records of the last commit agree            *)
(* (committer.go 101-109 and 164-177); and status 0 means that every       *)
(* request that was accepted was answered, in whatever order signal,       *)
(* requests, commits and timeouts fell (main.go 99-110).                   *)
CleanMeansClean ==
  /\ proc[Loop].pc = "exited" =>
       last = latest.size /\ \A tx \in pool : tx.from # Loop
  /\ main = "down" /\ status = 0 => ~lost

(* Unless anchoring is off, every head of the log is eventually anchored,  *)
(* or the process is told to stop, ends, or has a cast that never returns; *)
(* in dry-run, where no receipt can be lost, it is also reported (main.go  *)
(* 53-79, committer.go 15-26).                                             *)
HeadsAreAnchored == mode # "off" => EventuallyAnchored /\ DryRunReports

(* A signal ends the process although cast hangs in a pass and a dashboard *)
(* keeps its stream open for ever (main.go 91-110).                        *)
SignalEndsProcess == main \in {"stopping", "draining"} ~> main = "down"

=============================================================================
