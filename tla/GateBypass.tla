----------------------------- MODULE GateBypass -----------------------------
(***************************************************************************)
(* Functions behind gated() (multisig.py), called in and out of approved   *)
(* executions by the threads of ProposalFlow.  A call its thread has no    *)
(* approval for is refused with a BypassError and counted in Gate._bypass, *)
(* which all threads share and nothing locks.                              *)
(***************************************************************************)
EXTENDS ProposalFlow

CONSTANTS
  ActionTypes,   (* the action types of the gated functions                *)
  NoReport,      (* the value of report while a thread counts nothing      *)
  MaxDirect      (* bound of the model: direct calls of each type          *)

ASSUME BypassAssumption ==
  /\ MaxDirect \in Nat
  /\ NoReport \notin [type : ActionTypes, read : Nat]

VARIABLES
  metric,     (* Gate._bypass                                              *)
  report,     (* report_bypass under way in a thread: the action type and  *)
              (* the count it has read, or NoReport                        *)
  direct,     (* history: per type, calls made outside any approved call   *)
  ended,      (* history: ... of them, those that are over                 *)
  raced       (* history: types two threads counted at the same time       *)

bypass == <<metric, report, direct, ended, raced>>

BypassInit ==
  /\ Init
  /\ metric = [a \in ActionTypes |-> 0]
  /\ report = [t \in Threads |-> NoReport]
  /\ direct = [a \in ActionTypes |-> 0] /\ ended = [a \in ActionTypes |-> 0]
  /\ raced = {}

Idle(t) == report[t] = NoReport

Counting(a) == {t \in Threads : ~Idle(t) /\ report[t].type = a}

(* Slip: an approval of any thread counts.                                 *)
IsExecutingAnywhere(t) == \E u \in Threads : depth[u] > 0

(* Gate.is_executing                                                       *)
IsExecuting(t) == depth[t] > 0

(* t calls a gated function of type a, and the function runs.              *)
GatedRuns(t, a) ==
  /\ Free(t) /\ Idle(t)
  /\ IsExecuting(t)
  /\ LET unapproved == ~ \E i \in DOMAIN stack[t] : stack[t][i].pc = "running"
     IN /\ unapproved => direct[a] < MaxDirect
        /\ direct' = [direct EXCEPT ![a] = IF unapproved THEN @ + 1 ELSE @]
        /\ ended' = [ended EXCEPT ![a] = IF unapproved THEN @ + 1 ELSE @]
  /\ UNCHANGED <<vars, metric, report, raced>>

(* t calls it and the wrapper goes to report_bypass, whose += 1 first      *)
(* reads the count ...                                                     *)
ReadBypass(t, a) ==
  /\ Free(t) /\ Idle(t)
  /\ ~IsExecuting(t)
  /\ direct[a] < MaxDirect
  /\ direct' = [direct EXCEPT ![a] = @ + 1]
  /\ report' = [report EXCEPT ![t] = [type |-> a, read |-> metric[a]]]
  /\ raced' = IF Counting(a) = {} THEN raced ELSE raced \cup {a}
  /\ UNCHANGED <<vars, metric, ended>>

(* ... and then writes it; other threads may run in between (a Counter     *)
(* answers for a missing type with Python code).  BypassError follows:     *)
(* an exception like others to the code around the call.                   *)
WriteBypass(t) ==
  /\ ~Idle(t)
  /\ LET a == report[t].type IN
       /\ metric' = [metric EXCEPT ![a] = report[t].read + 1]
       /\ ended' = [ended EXCEPT ![a] = @ + 1]
  /\ report' = [report EXCEPT ![t] = NoReport]
  /\ UNCHANGED <<vars, direct, raced>>

(* What ProposalFlow does meanwhile; a thread that is counting does        *)
(* nothing else.                                                           *)
FlowStep ==
  /\ Next
  /\ \A t \in Threads : Idle(t) \/ stack'[t] = stack[t]
  /\ UNCHANGED bypass

BypassNext ==
  \/ FlowStep
  \/ \E t \in Threads, a \in ActionTypes : GatedRuns(t, a) \/ ReadBypass(t, a)
  \/ \E t \in Threads : WriteBypass(t)

(* A thread runs, the timeout of collect_signatures passes and approved    *)
(* functions end; peers need not answer.                                   *)
BypassSpec ==
  /\ BypassInit /\ [][BypassNext]_<<vars, bypass>>
  /\ \A t \in Threads : WF_<<vars, bypass>>(
       (Idle(t) /\ Proceed(t) /\ UNCHANGED bypass) \/ WriteBypass(t))

-----------------------------------------------------------------------------
(* The type invariant of the flow, its gate and the metric.                *)
BypassTypeOK ==
  /\ TypeOK
  /\ metric \in [ActionTypes -> Nat]
  /\ report \in [Threads -> [type : ActionTypes, read : Nat] \cup {NoReport}]
  /\ direct \in [ActionTypes -> 0..MaxDirect]
  /\ ended \in [ActionTypes -> 0..MaxDirect]
  /\ raced \subseteq ActionTypes

(* However approved calls nest, return and raise in any thread, no direct  *)
(* call goes unnoticed: the metric of a type is the number of its direct   *)
(* calls that are over, unless two threads were counting at once, and even *)
(* then it is at least one and never too high (multisig.py 106-110,        *)
(* 136-140).                                                               *)
BypassNoticed ==
  \A a \in ActionTypes :
    /\ metric[a] <= ended[a]
    /\ ended[a] > 0 => metric[a] > 0
    /\ a \notin raced => metric[a] = ended[a]

=============================================================================
