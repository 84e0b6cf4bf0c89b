------------------------------ MODULE Dashboard ------------------------------
(***************************************************************************)
(* The dashboard's polling (dashboard/src/hooks/usePoll.ts, api.ts) of a   *)
(* key service that is started, stopped and killed.  The page's three      *)
(* polls do not influence one another, so one of them is modelled, hook.   *)
(*                                                                         *)
(* Nothing orders the answers: the interval fires whether or not the       *)
(* previous request came back.  The error a poll reports next to its data  *)
(* is left out: no view reads it.                                          *)
(***************************************************************************)
EXTENDS KeyServer

CONSTANT
  Setups     (* the combinations of mode, hook, connections and number of  *)
             (* faults of the page that are looked at                      *)

ASSUME DashboardAssumption ==
  Setups \subseteq [mode : AnchorModes, hook : {"head", "anchor"},
                    slots : SUBSET Requests, faults : Nat]

VARIABLES
  hook,       (* what this usePoll fetches                                 *)
  slots,      (* the connections the browser has for it                    *)
  data,       (* its data; NoData is null                                  *)
  faults      (* how many timeouts and reruns of the effect are to come    *)

page == <<hook, slots, data, faults>>
pageVars == <<serverVars, page>>

PageInit ==
  /\ ServerInit
  /\ \E s \in Setups : /\ mode = s.mode /\ hook = s.hook
                        /\ slots = s.slots /\ faults = s.faults
  /\ data = NoData

(* tick: on mount, and whenever the interval fires.                        *)
Poll(q) ==
  /\ q \in slots
  /\ requests[q].pc = "idle"
  /\ requests' = [requests EXCEPT ![q].pc = "sent", ![q].what = hook]
  /\ UNCHANGED <<vars, process, stream, page>>

Ended(q) == requests' = [requests EXCEPT ![q] = IdleRequest]

(* Slip: an answer that looks older than what is shown is ignored.         *)
FresherOnly(v) == IF v.size < data.size THEN data ELSE v

(* setData, whatever the value.                                            *)
Shown(v) == v

(* The answer arrives, and replaces what is shown unless the effect that   *)
(* asked for it has been cleaned up.                                       *)
Deliver(q) ==
  /\ requests[q].pc = "answered"
  /\ data' = IF requests[q].live THEN Shown(requests[q].val) ELSE data
  /\ Ended(q)
  /\ UNCHANGED <<vars, process, stream, hook, slots, faults>>

(* fetch rejects, as the connection is refused or was reset by the end of  *)
(* the process: data stays.                                                *)
Rejects(q) ==
  /\ \/ requests[q].pc = "reset"
     \/ requests[q].pc = "sent" /\ listener # "open"
  /\ Ended(q)
  /\ UNCHANGED <<vars, process, stream, page>>

(* The AbortController's ten seconds are over.                             *)
TimesOut(q) ==
  /\ faults > 0
  /\ requests[q].pc \in {"sent", "handling", "answered"}
  /\ faults' = faults - 1
  /\ Ended(q)
  /\ UNCHANGED <<vars, process, stream, hook, slots, data>>

(* The effect is cleaned up and run again, as StrictMode does on mount:    *)
(* requests under way are not aborted, but their results are dropped.      *)
Remount ==
  /\ faults > 0
  /\ faults' = faults - 1
  /\ requests' = [q \in Requests |->
       [requests[q] EXCEPT !.live = requests[q].pc = "idle"]]
  /\ UNCHANGED <<vars, process, stream, hook, slots, data>>

PageNext ==
  \/ ServerNext /\ UNCHANGED page
  \/ \E q \in Requests : Poll(q) \/ Deliver(q) \/ Rejects(q) \/ TimesOut(q)
  \/ Remount

PageSpec == PageInit /\ [][PageNext]_pageVars

(* The interval keeps firing, and a request the service can answer is      *)
(* accepted, answered and delivered.                                       *)
FairPageSpec ==
  /\ PageSpec
  /\ ServerFairness
  /\ \A q \in Requests :
       /\ WF_pageVars(Poll(q)) /\ WF_pageVars(Deliver(q) \/ Rejects(q))
       /\ WF_pageVars((Accept(q) \/ Handle(q)) /\ UNCHANGED page)

-----------------------------------------------------------------------------
(* The type invariant of the page and the process it polls.                *)
PageTypeOK ==
  /\ ServerTypeOK
  /\ hook \in {"head", "anchor"} /\ slots \subseteq Requests
  /\ data \in Answers
  /\ faults \in Nat

(* What the page shows as anchored was mined, though the service that      *)
(* reported it may be gone and answers overtake one another (committer.go  *)
(* 164-177, anchor/http handler.go 47-66, usePoll.ts 22-32).               *)
ShownIsAnchored ==
  hook = "anchor" /\ data # NoData /\ cast => Anchored(data.size, data.root)

(* Once the service stays up, the page comes to show what it serves and    *)
(* stays with it: overtaken answers, errors and the larger logs of earlier *)
(* lives are all got over (usePoll.ts 20-39).                              *)
PageConverges ==
  <>[](main = "serving" /\ listener = "open") => <>[](data = Served(hook))

=============================================================================
