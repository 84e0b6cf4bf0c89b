----------------------------- MODULE AuditStream -----------------------------
(***************************************************************************)
(* The live audit feed: the pipeline's fan-out to a subscriber channel     *)
(* (auditlog/pipeline.go), the SSE handler that serves one connection      *)
(* (auditlog/http/handler.go) and the dashboard hook that consumes it and  *)
(* reconnects (dashboard/src/hooks/useAuditStream.ts).                     *)
(*                                                                         *)
(* Subscribers do not influence one another (a full channel is skipped,    *)
(* never waited for), so one client is modelled, with its current          *)
(* connection.  An event is its Seq; life tells apart the logs before and  *)
(* after a restart of the server, which the client cannot.                 *)
(***************************************************************************)
EXTENDS Integers, Sequences

CONSTANTS
  SubBuffer,       (* Pipeline.subBuffer, 16 in production                 *)
  MaxKept,         (* MAX_EVENTS of the hook, 500 in production            *)
  MaxWire,         (* bytes in flight, in events, before a write blocks    *)
  MaxSeq, MaxDisconnects, MaxRestarts       (* bounds of the model         *)

ASSUME BufferAssumption ==
  SubBuffer \in Nat \ {0} /\ MaxKept \in Nat \ {0} /\ MaxWire \in Nat \ {0}

ASSUME StreamBounds ==
  MaxSeq \in Nat /\ MaxDisconnects \in Nat /\ MaxRestarts \in Nat

VARIABLES
  life,         (* number of restarts of the server                        *)
  published,    (* len(p.events): the log is 0 .. published - 1            *)
  pc,           (* the handler: "none", "subscribed", "backlog", "live"    *)
  since,        (* the query parameter of the connection                   *)
  ch,           (* the subscriber channel                                  *)
  backlog,      (* what is left of the slice AllEventsSince returned       *)
  lastSent,     (* handler's lastSent, -1 while lastSentSet is false       *)
  wire,         (* events written and not yet received                     *)
  lastSeq,      (* the hook's lastSeqRef                                   *)
  view,         (* the hook's events                                       *)
  dropped,      (* history: "no", or an event was dropped for a full       *)
                (* channel on this connection ("now") or an earlier one    *)
  disconnects   (* how often the connection broke                          *)

client == <<lastSeq, view>>
handler == <<pc, since, ch, backlog, lastSent, wire>>
vars == <<life, published, client, handler, dropped, disconnects>>

None == -1

Event(s) == [life |-> life, seq |-> s]

Init ==
  /\ life = 0 /\ published = 0
  /\ pc = "none" /\ since = 0 /\ ch = <<>> /\ backlog = <<>>
  /\ lastSent = None /\ wire = <<>>
  /\ lastSeq = None /\ view = <<>>
  /\ dropped = "no" /\ disconnects = 0

-----------------------------------------------------------------------------
(* The pipeline.                                                           *)

(* Slip: room for one more than the channel has.                           *)
FullLate == Len(ch) > SubBuffer

Full == Len(ch) = SubBuffer

(* Submit and publish append an event and offer it to the subscriber       *)
(* without blocking; a full channel loses it.                              *)
Publish ==
  /\ published < MaxSeq
  /\ published' = published + 1
  /\ \/ /\ pc = "none"
        /\ UNCHANGED <<ch, dropped>>
     \/ /\ pc # "none" /\ ~Full
        /\ ch' = Append(ch, published)
        /\ UNCHANGED dropped
     \/ /\ pc # "none" /\ Full
        /\ dropped' = "now"
        /\ UNCHANGED ch
  /\ UNCHANGED <<life, pc, since, backlog, lastSent, wire, client,
                 disconnects>>

(* Slip: up to the event before the last.                                  *)
AllButTheLatest(n) == [i \in 1..(published - n - 1) |-> n + i - 1]

(* AllEventsSince(n)                                                       *)
AllEventsSince(n) == [i \in 1..(published - n) |-> n + i - 1]

-----------------------------------------------------------------------------
(* The handler.                                                            *)

(* The hook opens an EventSource; the handler parses since and subscribes  *)
(* before it reads the backlog.                                            *)
Connect ==
  /\ pc = "none"
  /\ pc' = "subscribed"
  /\ since' = lastSeq + 1
  /\ ch' = <<>>
  /\ lastSent' = None
  /\ dropped' = IF dropped = "now" THEN "earlier" ELSE dropped
  /\ UNCHANGED <<life, published, backlog, wire, client, disconnects>>

ReadBacklog ==
  /\ pc = "subscribed"
  /\ pc' = "backlog"
  /\ backlog' = AllEventsSince(since)
  /\ UNCHANGED <<life, published, since, ch, lastSent, wire, client, dropped,
                 disconnects>>

Write(s) ==
  /\ Len(wire) < MaxWire
  /\ wire' = Append(wire, s)
  /\ lastSent' = s

WriteBacklog ==
  /\ pc = "backlog"
  /\ backlog # <<>>
  /\ Write(Head(backlog))
  /\ backlog' = Tail(backlog)
  /\ UNCHANGED <<life, published, pc, since, ch, client, dropped, disconnects>>

EndBacklog ==
  /\ pc = "backlog"
  /\ backlog = <<>>
  /\ pc' = "live"
  /\ UNCHANGED <<life, published, since, ch, backlog, lastSent, wire, client,
                 dropped, disconnects>>

(* Slip: the last event of the backlog is sent again.                      *)
CoveredStrictly(s) == s < lastSent

(* Slip: the first event after the backlog is skipped.                     *)
CoveredOneMore(s) == s <= lastSent + 1

(* lastSentSet && ev.Seq <= lastSent                                       *)
Covered(s) == s <= lastSent

(* The live loop: an event the backlog already covered is skipped.         *)
Forward ==
  /\ pc = "live"
  /\ ch # <<>>
  /\ \/ /\ Covered(Head(ch))
        /\ UNCHANGED <<wire, lastSent>>
     \/ /\ ~Covered(Head(ch))
        /\ Write(Head(ch))
  /\ ch' = Tail(ch)
  /\ UNCHANGED <<life, published, pc, since, backlog, client, dropped,
                 disconnects>>

-----------------------------------------------------------------------------
(* The hook.                                                               *)

(* The last MAX_EVENTS records, oldest dropped first.                      *)
Keep(s) ==
  LET kept == IF Len(view) >= MaxKept
              THEN SubSeq(view, Len(view) - MaxKept + 2, Len(view))
              ELSE view
  IN  Append(kept, Event(s))

OnMessage ==
  /\ wire # <<>>
  /\ wire' = Tail(wire)
  /\ \/ /\ Head(wire) <= lastSeq
        /\ UNCHANGED client
     \/ /\ Head(wire) > lastSeq
        /\ lastSeq' = Head(wire)
        /\ view' = Keep(Head(wire))
  /\ UNCHANGED <<life, published, pc, since, ch, backlog, lastSent, dropped,
                 disconnects>>

-----------------------------------------------------------------------------
(* Failures.                                                               *)

(* The connection is gone: what was in flight is lost, the handler's       *)
(* deferred cancel unregisters the channel, the hook waits to reconnect.   *)
CloseConnection ==
  /\ pc' = "none"
  /\ ch' = <<>> /\ backlog' = <<>> /\ wire' = <<>>
  /\ since' = 0 /\ lastSent' = None
  /\ UNCHANGED client

Disconnect ==
  /\ disconnects < MaxDisconnects
  /\ pc # "none"
  /\ disconnects' = disconnects + 1
  /\ CloseConnection
  /\ UNCHANGED <<life, published, dropped>>

(* The key service restarts with an empty log; the page stays open.        *)
Restart ==
  /\ life < MaxRestarts
  /\ life' = life + 1
  /\ published' = 0
  /\ CloseConnection
  /\ UNCHANGED <<dropped, disconnects>>

-----------------------------------------------------------------------------
Serve == ReadBacklog \/ WriteBacklog \/ EndBacklog \/ Forward

Next == \/ Publish \/ Connect \/ Serve \/ OnMessage \/ Disconnect \/ Restart

Spec == Init /\ [][Next]_vars

(* The hook's timer fires, the handler goroutine runs, the browser reads   *)
(* its socket.  Nothing obliges agents to act or connections to break.     *)
FairSpec ==
  Spec /\ WF_vars(Connect) /\ WF_vars(Serve) /\ WF_vars(OnMessage)

-----------------------------------------------------------------------------
Seqs == 0..MaxSeq

(* The type invariant of the feed.                                         *)
TypeOK ==
  /\ life \in 0..MaxRestarts
  /\ published \in Seqs
  /\ pc \in {"none", "subscribed", "backlog", "live"}
  /\ since \in Seqs
  /\ ch \in Seq(Seqs) /\ Len(ch) <= SubBuffer
  /\ backlog \in Seq(Seqs)
  /\ lastSent \in Seqs \cup {None}
  /\ wire \in Seq(Seqs) /\ Len(wire) <= MaxWire
  /\ lastSeq \in Seqs \cup {None}
  /\ view \in Seq([life : 0..MaxRestarts, seq : Seqs]) /\ Len(view) <= MaxKept
  /\ dropped \in {"no", "now", "earlier"}
  /\ disconnects \in 0..MaxDisconnects

Increasing(s) == \A i, j \in DOMAIN s : i < j => s[i] < s[j]

(* The page shows a run of the log without holes that ends in lastSeq.     *)
Contiguous ==
  \A i \in DOMAIN view : view[i].seq = lastSeq - Len(view) + i

(* One connection never repeats or reorders an event, though the events    *)
(* published between Subscribe and AllEventsSince reach the handler twice  *)
(* (handler.go 124-157); and if no channel ever overflowed, the page has   *)
(* no hole either, however often the connection broke (handler.go 116-136, *)
(* useAuditStream.ts 28-50).                                               *)
ConnectionInOrder ==
  /\ Increasing(wire)
  /\ wire # <<>> => wire[Len(wire)] = lastSent
  /\ Increasing([i \in DOMAIN view |-> view[i].seq])
  /\ life = 0 /\ dropped = "no" => Contiguous

(* Every event is on the page, on its way, or still to be sent, unless it  *)
(* was dropped: nothing falls between the backlog and the channel.         *)
Pending == {wire[i] : i \in DOMAIN wire} \cup {ch[i] : i \in DOMAIN ch}
             \cup {backlog[i] : i \in DOMAIN backlog}

NothingBetween ==
  life = 0 /\ dropped = "no" /\ pc \in {"backlog", "live"} =>
    \A s \in 0..(published - 1) : s <= lastSeq \/ s \in Pending

(* Nothing is under way on an established connection that lost nothing.    *)
Quiescent ==
  pc = "live" /\ ch = <<>> /\ wire = <<>> /\ dropped # "now"

(* pipeline.go 154-155, 276: a slow subscriber loses events and "can       *)
(* re-sync via EventsSince" on reconnect.                                  *)
DropsHealOnReconnect == life = 0 /\ Quiescent => Contiguous

-----------------------------------------------------------------------------
(* The feed the client is promised (module Feed).                          *)
Promise == INSTANCE Feed WITH next <- lastSeq + 1, lossless <- (dropped = "no")

(* The page is shown the log in order; until a channel overflows it misses *)
(* nothing, and it catches up after every reconnect (pipeline.go 272-278   *)
(* and 394-405, handler.go 116-157, useAuditStream.ts 28-62).              *)
ImplementsFeed == Promise!Spec

=============================================================================
