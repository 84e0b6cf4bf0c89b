--------------------------- MODULE AuditLogProofs ---------------------------
(***************************************************************************)
(* Theorems about AuditLog, for every set of agents, nonces, actions and   *)
(* callers and every window and bound that meets the assumptions.          *)
(***************************************************************************)
EXTENDS AuditLog, TLAPS

(***************************************************************************)
(* What a call has established by the time it reaches each point of        *)
(* Submit: the action it carries, and, when it queues for the lock, that   *)
(* its signature is by the key it looked up and that its action was fresh. *)
(***************************************************************************)

(* Within the skew of the wall clock at reading "at" of the monotonic one, *)
(* wherever the wall clock then stood.                                     *)
Fresh(a, at) == \E d \in 0..MaxStep : ~Skewed(a, at + d)

CallOK ==
  \A c \in Callers :
    /\ calls[c].pc \in {"skew", "lookup", "append"} => calls[c].act \in Actions
    /\ calls[c].pc = "lookup" => Fresh(calls[c].act, calls[c].now)
    /\ calls[c].pc = "append" =>
         /\ Fresh(calls[c].act, calls[c].now)
         /\ calls[c].pub # 0
         /\ calls[c].sig = calls[c].pub

TypeInv == TypeOK /\ CallOK

(* An answered call keeps its type: only ev, now, pub and pc change        *)
(* (Submit returning an event, pipeline.go 245 and 280).                   *)
LEMMA AnsweredType ==
  ASSUME NEW call \in CallType, NEW i \in Nat
  PROVE  Answered(call, i) \in CallType
BY DEF Answered, CallType, Pcs

(* A never-used or refused call is idle and well typed (pipeline.go 199).  *)
LEMMA IdleType == IdleCall \in CallType /\ IdleCall.pc = "idle"
BY DEF IdleCall, CallType, Pcs

(* Agent and nonce of a submitted action form a replay key (replayKey,     *)
(* pipeline.go 421).                                                       *)
LEMMA KeyType ==
  ASSUME NEW a \in Actions
  PROVE  KeyOf(a) \in ReplayKey /\ a.agent \in Agents /\ a.ts \in Nat
BY ActionsAssumption DEF KeyOf, ReplayKey

(* The type invariant and CallOK hold of a new pipeline (New, pipeline.go  *)
(* 176-189).                                                               *)
LEMMA TypeInit == Init => TypeInv
<1> SUFFICES ASSUME Init PROVE TypeInv
  OBVIOUS
<1>1. TypeOK
  BY IdleType DEF Init, TypeOK
<1>2. CallOK
  BY DEF Init, CallOK, IdleCall
<1>. QED BY <1>1, <1>2 DEF TypeInv

(* Every step of a handler, of the keystore and of the clocks keeps them   *)
(* (pipeline.go 199-325).                                                  *)
LEMMA TypeStep == TypeInv /\ [Next]_vars => TypeInv'
<1> SUFFICES ASSUME TypeOK, CallOK, [Next]_vars PROVE TypeOK' /\ CallOK'
  BY DEF TypeInv
<1> USE DEF TypeOK
<1>1. CASE Tick \/ StepWallClock
  BY <1>1 DEF Tick, StepWallClock, CallOK
<1>2. ASSUME NEW g \in Agents, CreateKey(g)
      PROVE  TypeOK' /\ CallOK'
  BY <1>2 DEF CreateKey, CallOK
<1>3. ASSUME NEW g \in Agents, DeleteKey(g)
      PROVE  TypeOK' /\ CallOK'
  BY <1>3 DEF DeleteKey, CallOK
<1>4. ASSUME NEW c \in Callers, NEW a \in Actions, NEW sig \in 0..minted,
             Begin(c, a, sig)
      PROVE  TypeOK' /\ CallOK'
  <2>1. keys[a.agent] \in Nat
    BY KeyType
  <2> DEFINE fl == IF keys[a.agent] # 0 THEN keys[a.agent] ELSE minted + 1
  <2>a. calls'[c] = [IdleCall EXCEPT !.pc = "skew", !.act = a, !.sig = sig,
                                     !.floor = fl]
    BY <1>4 DEF Begin
  <2>b. fl \in Nat /\ sig \in Nat
    BY <2>1
  <2> HIDE DEF fl
  <2>2. /\ calls'[c] \in CallType
        /\ calls'[c].act = a
        /\ calls'[c].pc = "skew"
    <3>1. calls'[c] = [pc |-> "skew", act |-> a, sig |-> sig, now |-> 0,
                       pub |-> 0, ev |-> 0, floor |-> fl]
      BY <2>a DEF IdleCall
    <3>. QED BY <3>1, <2>b DEF CallType, Pcs
  <2>3. calls' \in [Callers -> CallType]
    BY <1>4, <2>2 DEF Begin
  <2>4. CallOK'
    BY <1>4, <2>2 DEF Begin, CallOK
  <2>. QED BY <1>4, <2>3, <2>4 DEF Begin
<1>5. ASSUME NEW c \in Callers, BeginDenied(c)
      PROVE  TypeOK' /\ CallOK'
  <2>1. calls'[c] \in CallType /\ calls'[c].pc = "deny"
    BY <1>5, IdleType DEF BeginDenied, CallType, Pcs, IdleCall
  <2>. QED BY <1>5, <2>1 DEF BeginDenied, CallOK
<1>6. ASSUME NEW c \in Callers, CheckSkew(c)
      PROVE  TypeOK' /\ CallOK'
  <2>1. calls'[c] \in CallType
    BY <1>6 DEF CheckSkew, CallType, Pcs
  <2>2. calls' \in [Callers -> CallType]
    BY <1>6, <2>1 DEF CheckSkew
  <2>3. CASE Skewed(calls[c].act, clock + drift)
    <3>1. calls'[c].pc = "deny"
      BY <1>6, <2>3 DEF CheckSkew, CallType
    <3>. QED BY <1>6, <2>2, <3>1 DEF CheckSkew, CallOK
  <2>4. CASE ~Skewed(calls[c].act, clock + drift)
    <3>1. /\ calls'[c].pc = "lookup" /\ calls'[c].now = clock
          /\ calls'[c].act = calls[c].act
      BY <1>6, <2>4 DEF CheckSkew, CallType
    <3>2. Fresh(calls[c].act, clock)
      BY <2>4 DEF Fresh
    <3>. QED BY <1>6, <2>2, <3>1, <3>2 DEF CheckSkew, CallOK
  <2>. QED BY <1>6, <2>2, <2>3, <2>4 DEF CheckSkew
<1>7. ASSUME NEW c \in Callers, Lookup(c)
      PROVE  TypeOK' /\ CallOK'
  <2>1. keys[calls[c].act.agent] \in Nat
    BY <1>7, KeyType DEF Lookup, CallOK
  <2>2. calls'[c] \in CallType
    <3>1. calls[c] \in CallType
      OBVIOUS
    <3>2. CASE calls'[c] = [calls[c] EXCEPT
                              !.pub = keys[calls[c].act.agent], !.pc = "append"]
      BY <2>1, <3>1, <3>2 DEF CallType, Pcs
    <3>3. CASE calls'[c] = [calls[c] EXCEPT !.pc = "deny"]
      BY <3>1, <3>3 DEF CallType, Pcs
    <3>. QED BY <1>7, <3>2, <3>3 DEF Lookup, Verifies
  <2>3. calls' \in [Callers -> CallType]
    BY <1>7, <2>2 DEF Lookup
  <2>4. CallOK'
    <3>1. calls[c] \in CallType /\ calls[c].act \in Actions
          /\ Fresh(calls[c].act, calls[c].now)
      BY <1>7 DEF Lookup, CallOK
    <3>2. ASSUME NEW d \in Callers, d # c
          PROVE  calls'[d] = calls[d]
      BY <1>7, <3>2 DEF Lookup
    <3>3. CASE /\ keys[calls[c].act.agent] # 0
               /\ calls[c].sig = keys[calls[c].act.agent]
               /\ calls'[c] = [calls[c] EXCEPT
                     !.pub = keys[calls[c].act.agent], !.pc = "append"]
      <4>1. /\ calls'[c].act = calls[c].act /\ calls'[c].now = calls[c].now
            /\ calls'[c].sig = calls[c].sig /\ calls'[c].pc = "append"
            /\ calls'[c].pub = keys[calls[c].act.agent]
        BY <3>1, <3>3 DEF CallType
      <4>. QED BY <3>1, <3>2, <3>3, <4>1 DEF CallOK
    <3>4. CASE calls'[c] = [calls[c] EXCEPT !.pc = "deny"]
      BY <3>1, <3>2, <3>4 DEF CallOK, CallType
    <3>. QED BY <1>7, <3>3, <3>4 DEF Lookup, Verifies
  <2>. QED BY <1>7, <2>3, <2>4 DEF Lookup
<1>8. ASSUME NEW c \in Callers, Deny(c)
      PROVE  TypeOK' /\ CallOK'
  <2>1. calls'[c] \in CallType /\ calls'[c].pc = "publish"
    BY <1>8 DEF Deny, CallType, Pcs
  <2>. QED BY <1>8, <2>1 DEF Deny, CallOK
<1>9. ASSUME NEW c \in Callers, Publish(c)
      PROVE  TypeOK' /\ CallOK'
  <2>1. RejectedEvent(calls[c].act, calls[c].now) \in EventType
    BY DEF RejectedEvent, EventType, CallType
  <2>2. events' \in Seq(EventType) /\ Len(events') = Len(events) + 1
    BY <1>9, <2>1 DEF Publish
  <2>3. seen' \in [ReplayKey -> 0..Len(events')]
    BY <1>9, <2>2 DEF Publish
  <2>4. calls' \in [Callers -> CallType] /\ CallOK'
    BY <1>9, IdleType DEF Publish, CallOK
  <2>. QED BY <1>9, <2>2, <2>3, <2>4 DEF Publish
<1>10. ASSUME NEW c \in Callers, AppendCached(c)
       PROVE  TypeOK' /\ CallOK'
  <2>1. seen[KeyOf(calls[c].act)] \in Nat
    BY <1>10, KeyType DEF AppendCached, CallOK
  <2>2. calls'[c] \in CallType /\ calls'[c].pc = "done"
    BY <1>10, <2>1, AnsweredType DEF AppendCached, Answered, CallType
  <2>. QED BY <1>10, <2>2 DEF AppendCached, CallOK
<1>11. ASSUME NEW c \in Callers, AppendNew(c)
       PROVE  TypeOK' /\ CallOK'
  <2> DEFINE a == calls[c].act
  <2>1. a \in Actions /\ calls[c].pub \in Nat \ {0} /\ calls[c].sig = calls[c].pub
        /\ calls[c].now \in Nat
    BY <1>11 DEF AppendNew, CallOK, CallType
  <2>2. AppendedEvent(a, calls[c].pub, Len(tree), calls[c].now) \in EventType
    BY <2>1 DEF AppendedEvent, EventType
  <2>3. events' \in Seq(EventType) /\ Len(events') = Len(events) + 1
    BY <1>11, <2>2 DEF AppendNew
  <2>4. seen' \in [ReplayKey -> 0..Len(events')]
    BY <1>11, <2>1, <2>3, KeyType DEF AppendNew
  <2>5. LeafOf(a, calls[c].sig) \in LeafType
    BY <2>1 DEF LeafOf, LeafType
  <2>6. tree' \in Seq(LeafType)
    BY <1>11, <2>5 DEF AppendNew
  <2>7. calls'[c] \in CallType /\ calls'[c].pc = "done"
    <3>1. calls'[c] = Answered(calls[c], Len(events) + 1)
      BY <1>11 DEF AppendNew
    <3>2. calls[c] \in CallType /\ Len(events) + 1 \in Nat
      OBVIOUS
    <3>. QED BY <3>1, <3>2, AnsweredType DEF Answered, CallType
  <2>8. calls' \in [Callers -> CallType] /\ CallOK'
    BY <1>11, <2>7 DEF AppendNew, CallOK
  <2>. QED BY <1>11, <2>3, <2>4, <2>6, <2>8 DEF AppendNew
<1>12. ASSUME NEW c \in Callers, AppendFails(c)
       PROVE  TypeOK' /\ CallOK'
  <2>1. calls[c].act \in Actions
    BY <1>12 DEF AppendFails, CallOK
  <2>2. seen' \in [ReplayKey -> 0..Len(events')]
    BY <1>12, <2>1, KeyType DEF AppendFails
  <2>3. calls' \in [Callers -> CallType] /\ CallOK'
    BY <1>12, IdleType DEF AppendFails, CallOK
  <2>4. forgotten' \subseteq ReplayKey
    BY <1>12, <2>1, KeyType DEF AppendFails
  <2>. QED BY <1>12, <2>2, <2>3, <2>4 DEF AppendFails
<1>13. CASE Restart
  <2>1. archive' \subseteq LeafType
    BY <1>13 DEF Restart
  <2>. QED BY <1>13, <2>1, IdleType DEF Restart, CallOK
<1>14. CASE UNCHANGED vars
  BY <1>14 DEF vars, CallOK
<1>. QED
  BY <1>1, <1>2, <1>3, <1>4, <1>5, <1>6, <1>7, <1>8, <1>9, <1>10, <1>11,
     <1>12, <1>13, <1>14 DEF Next, Step

(* Type correctness of the pipeline (the conjuncts of TypeOK, over the     *)
(* state of pipeline.go 156-172).                                          *)
THEOREM TypeCorrect == Spec => []TypeOK
<1>1. TypeInv => TypeOK
  BY DEF TypeInv
<1>. QED BY <1>1, TypeInit, TypeStep, PTL DEF Spec

-----------------------------------------------------------------------------
(***************************************************************************)
(* The log and the tree.  TreeMatchesLog is inductive given the types.     *)
(***************************************************************************)

(* Appending one element to a sequence keeps the others in place and puts  *)
(* the new one last (Go's append on p.events and t.leaves).                *)
LEMMA AppendFacts ==
  ASSUME NEW S, NEW s \in Seq(S), NEW e \in S
  PROVE  /\ Len(Append(s, e)) = Len(s) + 1
         /\ DOMAIN Append(s, e) = 1..(Len(s) + 1)
         /\ DOMAIN s = 1..Len(s)
         /\ \A i \in 1..Len(s) : Append(s, e)[i] = s[i]
         /\ Append(s, e)[Len(s) + 1] = e
OBVIOUS

(* The shape of the step that appends a leaf and its event (pipeline.go    *)
(* 251-270), spelled out once for the invariants below.                    *)
LEMMA AppendNewFacts ==
  ASSUME TypeInv, NEW c \in Callers, AppendNew(c)
  PROVE  LET a == calls[c].act
             e == AppendedEvent(a, calls[c].pub, Len(tree), calls[c].now)
         IN  /\ a \in Actions
             /\ calls[c].now \in Nat
             /\ Fresh(a, calls[c].now)
             /\ calls[c].sig = calls[c].pub
             /\ calls[c].pub \in Nat \ {0}
             /\ DOMAIN events = 1..Len(events) /\ Len(events) \in Nat
             /\ DOMAIN events' = 1..(Len(events) + 1)
             /\ \A i \in 1..Len(events) : events'[i] = events[i]
             /\ events'[Len(events) + 1] = e
             /\ DOMAIN tree = 1..Len(tree) /\ Len(tree) \in Nat
             /\ Len(tree') = Len(tree) + 1
             /\ DOMAIN tree' = 1..(Len(tree) + 1)
             /\ \A n \in 1..Len(tree) : tree'[n] = tree[n]
             /\ tree'[Len(tree) + 1] = LeafOf(a, calls[c].pub)
<1> DEFINE a == calls[c].act
           e == AppendedEvent(a, calls[c].pub, Len(tree), calls[c].now)
<1>1. /\ a \in Actions /\ calls[c].now \in Nat /\ Fresh(a, calls[c].now)
      /\ calls[c].sig = calls[c].pub /\ calls[c].pub \in Nat \ {0}
  BY DEF AppendNew, TypeInv, TypeOK, CallOK, CallType
<1>2. events \in Seq(EventType) /\ tree \in Seq(LeafType)
  BY DEF TypeInv, TypeOK
<1>3. e \in EventType /\ LeafOf(a, calls[c].sig) \in LeafType
  BY <1>1, <1>2 DEF AppendedEvent, EventType, LeafOf, LeafType
<1>4. events' = Append(events, e) /\ tree' = Append(tree, LeafOf(a, calls[c].sig))
  BY DEF AppendNew
<1>5. /\ DOMAIN events = 1..Len(events) /\ DOMAIN events' = 1..(Len(events) + 1)
      /\ \A i \in 1..Len(events) : events'[i] = events[i]
      /\ events'[Len(events) + 1] = e
      /\ Len(events) \in Nat
  <2> HIDE DEF e
  <2>. QED BY <1>2, <1>3, <1>4, AppendFacts
<1>6. /\ DOMAIN tree = 1..Len(tree) /\ DOMAIN tree' = 1..(Len(tree) + 1)
      /\ Len(tree') = Len(tree) + 1
      /\ \A n \in 1..Len(tree) : tree'[n] = tree[n]
      /\ tree'[Len(tree) + 1] = LeafOf(a, calls[c].sig)
      /\ Len(tree) \in Nat
  BY <1>2, <1>3, <1>4, AppendFacts
<1>. QED BY <1>1, <1>5, <1>6

(* The shape of the step that records a denial (publish, pipeline.go       *)
(* 314-318): one rejected event at the end, the rest of the log in place.  *)
LEMMA PublishFacts ==
  ASSUME TypeInv, NEW c \in Callers, Publish(c)
  PROVE  /\ DOMAIN events = 1..Len(events) /\ Len(events) \in Nat
         /\ DOMAIN events' = 1..(Len(events) + 1)
         /\ \A i \in 1..Len(events) : events'[i] = events[i]
         /\ events'[Len(events) + 1].kind = "rejected"
<1> DEFINE e == RejectedEvent(calls[c].act, calls[c].now)
<1>1. events \in Seq(EventType) /\ e \in EventType /\ e.kind = "rejected"
  BY DEF TypeInv, TypeOK, RejectedEvent, EventType, CallType
<1>2. events' = Append(events, e)
  BY DEF Publish
<1> HIDE DEF e
<1>. QED BY <1>1, <1>2, AppendFacts

(* TreeMatchesLog is kept by every step.                                   *)
LEMMA TreeMatchesLogStep ==
  TypeInv /\ TreeMatchesLog /\ [Next]_vars => TreeMatchesLog'
<1> SUFFICES ASSUME TypeInv, TreeMatchesLog, [Next]_vars
             PROVE  TreeMatchesLog'
  OBVIOUS
<1>1. ASSUME events' = events, tree' = tree
      PROVE  TreeMatchesLog'
  BY <1>1 DEF TreeMatchesLog, Appended
<1>2. ASSUME NEW c \in Callers, Publish(c)
      PROVE  TreeMatchesLog'
  <2>1. tree' = tree
    BY <1>2 DEF Publish
  <2>. QED BY <1>2, <2>1, PublishFacts DEF TreeMatchesLog, Appended
<1>3. ASSUME NEW c \in Callers, AppendNew(c)
      PROVE  TreeMatchesLog'
  <2> DEFINE m == Len(events) + 1
             a == calls[c].act
  <2>1. /\ events'[m].kind = "appended" /\ events'[m].leaf = Len(tree)
        /\ events'[m].act = a /\ events'[m].pub = calls[c].pub
    <3>1. events'[m] = AppendedEvent(a, calls[c].pub, Len(tree), calls[c].now)
      BY <1>3, AppendNewFacts
    <3>. QED BY <3>1 DEF AppendedEvent
  <2>2. \A i \in DOMAIN events' : Appended(i)' =>
          /\ events'[i].leaf < Len(tree')
          /\ tree'[events'[i].leaf + 1] = LeafOf(events'[i].act, events'[i].pub)
    <3> SUFFICES ASSUME NEW i \in DOMAIN events', Appended(i)'
                 PROVE  /\ events'[i].leaf < Len(tree')
                        /\ tree'[events'[i].leaf + 1]
                             = LeafOf(events'[i].act, events'[i].pub)
      OBVIOUS
    <3>1. CASE i = m
      BY <1>3, <2>1, <3>1, AppendNewFacts
    <3>2. CASE i # m
      <4>1. i \in DOMAIN events /\ events'[i] = events[i] /\ Appended(i)
        BY <1>3, <3>2, AppendNewFacts DEF Appended
      <4>2. events[i] \in EventType /\ events[i].kind = "appended"
        BY <4>1 DEF TypeInv, TypeOK, Appended
      <4>3. events[i].leaf \in Nat
        BY <4>2 DEF EventType
      <4>4. events[i].leaf + 1 \in 1..Len(tree)
        BY <1>3, <4>1, <4>3, AppendNewFacts DEF TreeMatchesLog
      <4>5. /\ tree'[events[i].leaf + 1] = tree[events[i].leaf + 1]
            /\ Len(tree') = Len(tree) + 1 /\ Len(tree) \in Nat
        BY <1>3, <4>4, AppendNewFacts
      <4>6. /\ tree[events[i].leaf + 1] = LeafOf(events[i].act, events[i].pub)
            /\ events[i].leaf < Len(tree)
        BY <4>1 DEF TreeMatchesLog
      <4>. QED BY <4>1, <4>3, <4>5, <4>6
    <3>. QED BY <3>1, <3>2
  <2>3. \A i, j \in DOMAIN events' :
          i < j /\ Appended(i)' /\ Appended(j)' => events'[i].leaf < events'[j].leaf
    <3> SUFFICES ASSUME NEW i \in DOMAIN events', NEW j \in DOMAIN events',
                        i < j, Appended(i)', Appended(j)'
                 PROVE  events'[i].leaf < events'[j].leaf
      OBVIOUS
    <3>1. i \in DOMAIN events /\ events'[i] = events[i] /\ Appended(i)
      BY <1>3, AppendNewFacts DEF Appended
    <3>2. CASE j = m
      BY <2>1, <3>1, <3>2 DEF TreeMatchesLog
    <3>3. CASE j # m
      <4>1. j \in DOMAIN events /\ events'[j] = events[j] /\ Appended(j)
        BY <1>3, <3>3, AppendNewFacts DEF Appended
      <4>. QED BY <3>1, <4>1 DEF TreeMatchesLog
    <3>. QED BY <3>2, <3>3
  <2>4. \A n \in DOMAIN tree' : \E i \in DOMAIN events' :
          Appended(i)' /\ events'[i].leaf = n - 1
    <3> SUFFICES ASSUME NEW n \in DOMAIN tree'
                 PROVE  \E i \in DOMAIN events' :
                          Appended(i)' /\ events'[i].leaf = n - 1
      OBVIOUS
    <3>1. CASE n \in DOMAIN tree
      <4>1. PICK i \in DOMAIN events : Appended(i) /\ events[i].leaf = n - 1
        BY <3>1 DEF TreeMatchesLog
      <4>2. i \in DOMAIN events' /\ events'[i] = events[i]
        BY <1>3, AppendNewFacts
      <4>. QED BY <4>1, <4>2 DEF Appended
    <3>2. CASE n \notin DOMAIN tree
      <4>1. n - 1 = Len(tree) /\ m \in DOMAIN events'
        BY <1>3, <3>2, AppendNewFacts
      <4>. QED BY <2>1, <4>1 DEF Appended
    <3>. QED BY <3>1, <3>2
  <2>. QED BY <2>2, <2>3, <2>4 DEF TreeMatchesLog, Appended
<1>4. CASE Restart
  BY <1>4 DEF Restart, TreeMatchesLog
<1>. QED
  BY <1>1, <1>2, <1>3, <1>4 DEF Next, Step, vars, Tick, StepWallClock,
     CreateKey, DeleteKey, Begin, BeginDenied, CheckSkew, Lookup, Deny, AppendCached, AppendFails

(* Every leaf has its event and every appended event its leaf, in the same *)
(* order (pipeline.go 251-270).                                            *)
THEOREM LogAndTreeAgree == Spec => []TreeMatchesLog
<1>1. Init => TreeMatchesLog
  BY DEF Init, TreeMatchesLog
<1>. QED BY <1>1, TypeInit, TypeStep, TreeMatchesLogStep, PTL DEF Spec

-----------------------------------------------------------------------------
(***************************************************************************)
(* The auditor's download.  Along the log the leaves come in order and     *)
(* without a hole, so that after i events exactly the leaves below some    *)
(* height have been logged, and the loop of EventsSince has collected      *)
(* those from n on.                                                        *)
(***************************************************************************)

(* A turn of the loop of EventsSince (pipeline.go 378-386); p is the log   *)
(* and the first leaf asked for.                                           *)
ScanDef(p, f, i) ==
  IF i = 0 THEN <<>>
  ELSE IF p[1][i].kind = "appended" /\ p[1][i].leaf >= p[2]
       THEN Append(f[i - 1], p[1][i])
       ELSE f[i - 1]

Scan == INSTANCE Recursion WITH Def <- ScanDef

(* What the loop has collected from the first i events.                    *)
Collected(n) ==
  CHOOSE f : f = [i \in Nat |-> ScanDef(<<events, n>>, f, i)]

(* EventsSince returns what its loop has collected from the whole log      *)
(* (pipeline.go 374-387).                                                  *)
LEMMA SinceIsCollected ==
  ASSUME NEW n \in Nat
  PROVE  EventsSince(n) = Collected(n)[Len(events)]
<1>1. <<events, n>>[1] = events /\ <<events, n>>[2] = n
  OBVIOUS
<1>. QED  BY <1>1, Zenon DEF EventsSince, Collected, ScanDef, Appended

(* The loop, turn by turn (pipeline.go 378-386).                           *)
LEMMA CollectedUnfold ==
  ASSUME NEW n \in Nat
  PROVE  /\ Collected(n)[0] = <<>>
         /\ \A i \in Nat : Collected(n)[i + 1] =
              IF Appended(i + 1) /\ events[i + 1].leaf >= n
              THEN Append(Collected(n)[i], events[i + 1])
              ELSE Collected(n)[i]
<1>. DEFINE p == <<events, n>>
            f == Collected(n)
<1>0. p[1] = events /\ p[2] = n
  OBVIOUS
<1>. HIDE DEF p
<1>1. Scan!Descends(p)
  BY DEF Scan!Descends, ScanDef
<1>2. \E g : g = [i \in Nat |-> ScanDef(p, g, i)]
  BY <1>1, Scan!RecursiveFunction
<1>3. f = CHOOSE g : g = [i \in Nat |-> ScanDef(p, g, i)]
  BY Zenon DEF Collected, p
<1>. HIDE DEF f
<1>4. f = [i \in Nat |-> ScanDef(p, f, i)]
  BY <1>2, <1>3, Zenon
<1>5. \A i \in Nat : f[i] = ScanDef(p, f, i)
  BY <1>4, Zenon
<1>6. f[0] = <<>>
  BY <1>5 DEF ScanDef
<1>7. ASSUME NEW i \in Nat
      PROVE  f[i + 1] = IF Appended(i + 1) /\ events[i + 1].leaf >= n
                        THEN Append(f[i], events[i + 1]) ELSE f[i]
  <2>1. f[i + 1] = ScanDef(p, f, i + 1)
    BY <1>5
  <2>2. i + 1 # 0 /\ (i + 1) - 1 = i
    OBVIOUS
  <2>. QED  BY <2>1, <2>2, <1>0 DEF ScanDef, Appended
<1>. QED  BY <1>6, <1>7 DEF f

(* The first i events of the log describe the leaves below h, and no       *)
(* other.                                                                  *)
Height(i, h) ==
  /\ \A j \in 1..i : Appended(j) => events[j].leaf < h
  /\ \A m \in 1..h : \E j \in 1..i : Appended(j) /\ events[j].leaf = m - 1

(* The fields of an appended event that the auditor uses (Event,           *)
(* pipeline.go 259-267).                                                   *)
LEMMA AppendedFields ==
  ASSUME TypeOK, NEW i \in DOMAIN events, Appended(i)
  PROVE  events[i] \in EventType /\ events[i].leaf \in Nat
<1>1. events[i] \in EventType /\ events[i].kind = "appended"
  BY DEF TypeOK, Appended
<1>. QED  BY <1>1 DEF EventType

(* The next appended event describes the next leaf: leaves are logged in   *)
(* order and none is left out (pipeline.go 251-270).                       *)
LEMMA NextLeaf ==
  ASSUME TypeOK, TreeMatchesLog,
         NEW i \in Nat, i + 1 \in DOMAIN events, Appended(i + 1),
         NEW h \in Nat, Height(i, h)
  PROVE  events[i + 1].leaf = h
<1>. DEFINE l == events[i + 1].leaf
<1>0. l \in Nat /\ l < Len(tree) /\ Len(tree) \in Nat
  BY AppendedFields DEF TreeMatchesLog, TypeOK
<1>1. DOMAIN events = 1..Len(events) /\ Len(events) \in Nat
      /\ DOMAIN tree = 1..Len(tree)
  BY DEF TypeOK
<1>2. ~(l < h)
  <2>. SUFFICES ASSUME l < h
                PROVE  FALSE
    OBVIOUS
  <2>1. l + 1 \in 1..h /\ (l + 1) - 1 = l
    BY <1>0
  <2>2. PICK j \in 1..i : Appended(j) /\ events[j].leaf = l
    BY <2>1 DEF Height
  <2>3. j \in DOMAIN events /\ j < i + 1
    BY <1>1
  <2>4. events[j].leaf < events[i + 1].leaf
    BY <2>2, <2>3 DEF TreeMatchesLog
  <2>. QED  BY <2>2, <2>4, <1>0
<1>3. ~(h < l)
  <2>. SUFFICES ASSUME h < l
                PROVE  FALSE
    OBVIOUS
  <2>1. h + 1 \in DOMAIN tree /\ (h + 1) - 1 = h
    BY <1>0, <1>1
  <2>2. PICK j \in DOMAIN events : Appended(j) /\ events[j].leaf = h
    BY <2>1 DEF TreeMatchesLog
  <2>3. CASE j <= i
    BY <2>2, <2>3, <1>1 DEF Height
  <2>4. CASE j = i + 1
    BY <2>2, <2>4
  <2>5. CASE i + 1 < j
    <3>1. events[i + 1].leaf < events[j].leaf
      BY <2>2, <2>5 DEF TreeMatchesLog
    <3>. QED  BY <3>1, <2>2, <1>0
  <2>. QED  BY <2>3, <2>4, <2>5, <1>1
<1>. QED  BY <1>0, <1>2, <1>3

(* After i events the loop holds, in order, the leaves from n on among     *)
(* those below h.                                                          *)
Downloaded(n, i, h) ==
  LET es == Collected(n)[i] IN
  /\ h \in 0..Len(tree)
  /\ Height(i, h)
  /\ es \in Seq(EventType)
  /\ Len(es) = IF h <= n THEN 0 ELSE h - n
  /\ \A k \in 1..Len(es) : LeafOf(es[k].act, es[k].pub) = tree[n + k]

(* A turn of the loop takes the download one event further.                *)
LEMMA DownloadTurn ==
  ASSUME TypeOK, TreeMatchesLog, NEW n \in Nat,
         NEW i \in Nat, i + 1 \in DOMAIN events,
         NEW h, Downloaded(n, i, h)
  PROVE  \E g : Downloaded(n, i + 1, g)
<1>. DEFINE e == events[i + 1]
            es == Collected(n)[i]
            fs == Collected(n)[i + 1]
<1>0. /\ h \in Nat /\ Height(i, h) /\ Len(tree) \in Nat /\ h <= Len(tree)
      /\ es \in Seq(EventType) /\ Len(es) = IF h <= n THEN 0 ELSE h - n
      /\ \A k \in 1..Len(es) : LeafOf(es[k].act, es[k].pub) = tree[n + k]
  BY DEF Downloaded, TypeOK
<1>1. fs = IF Appended(i + 1) /\ e.leaf >= n THEN Append(es, e) ELSE es
  BY CollectedUnfold
<1>2. \A j \in 1..(i + 1) : j \in 1..i \/ j = i + 1
  OBVIOUS
<1>. HIDE DEF fs, es
<1>3. CASE ~Appended(i + 1)
  <2>1. Height(i + 1, h)
    BY <1>0, <1>2, <1>3 DEF Height
  <2>2. fs = es
    BY <1>1, <1>3
  <2>3. Downloaded(n, i + 1, h)
    BY <2>1, <2>2, <1>0 DEF Downloaded, fs
  <2>. QED  BY <2>3
<1>4. CASE Appended(i + 1)
  <2>1. e.leaf = h
    BY <1>0, <1>4, NextLeaf
  <2>2. /\ e \in EventType /\ h < Len(tree)
        /\ LeafOf(e.act, e.pub) = tree[h + 1]
    BY <1>4, <2>1, AppendedFields DEF TreeMatchesLog
  <2>3. Height(i + 1, h + 1)
    <3>1. \A j \in 1..(i + 1) : Appended(j) => events[j].leaf < h + 1
      <4>. SUFFICES ASSUME NEW j \in 1..(i + 1), Appended(j)
                    PROVE  events[j].leaf < h + 1
        OBVIOUS
      <4>1. CASE j = i + 1
        BY <4>1, <2>1, <1>0
      <4>2. CASE j \in 1..i
        <5>1. j \in DOMAIN events
          BY <4>2 DEF TypeOK
        <5>2. events[j].leaf \in Nat /\ events[j].leaf < h
          BY <5>1, <4>2, <1>0, AppendedFields DEF Height
        <5>. QED  BY <5>2, <1>0
      <4>. QED  BY <4>1, <4>2, <1>2
    <3>2. \A m \in 1..(h + 1) : \E j \in 1..(i + 1) :
            Appended(j) /\ events[j].leaf = m - 1
      <4>. SUFFICES ASSUME NEW m \in 1..(h + 1)
                    PROVE  \E j \in 1..(i + 1) :
                             Appended(j) /\ events[j].leaf = m - 1
        OBVIOUS
      <4>1. CASE m = h + 1
        BY <4>1, <2>1, <1>4, <1>0
      <4>2. CASE m # h + 1
        <5>1. m \in 1..h
          BY <4>2, <1>0
        <5>2. PICK j \in 1..i : Appended(j) /\ events[j].leaf = m - 1
          BY <5>1, <1>0 DEF Height
        <5>3. j \in 1..(i + 1)
          OBVIOUS
        <5>. QED  BY <5>2, <5>3
      <4>. QED  BY <4>1, <4>2
    <3>. QED  BY <3>1, <3>2 DEF Height
  <2>4. h + 1 \in 0..Len(tree)
    BY <2>2, <1>0
  <2>5. CASE h < n
    <3>1. fs = es
      BY <1>1, <2>1, <2>5, <1>0
    <3>2. Len(fs) = IF h + 1 <= n THEN 0 ELSE h + 1 - n
      BY <3>1, <2>5, <1>0
    <3>3. Downloaded(n, i + 1, h + 1)
      BY <3>1, <3>2, <2>3, <2>4, <1>0 DEF Downloaded, fs
    <3>. QED  BY <3>3
  <2>6. CASE ~(h < n)
    <3>1. fs = Append(es, e)
      BY <1>1, <1>4, <2>1, <2>6, <1>0
    <3>. HIDE DEF e
    <3>2. /\ fs \in Seq(EventType) /\ Len(fs) = Len(es) + 1
          /\ Len(es) = h - n /\ Len(es) \in Nat
          /\ fs[Len(es) + 1] = e
          /\ \A k \in 1..Len(es) : fs[k] = es[k]
      BY <3>1, <2>2, <2>6, <1>0
    <3>3. Len(fs) = IF h + 1 <= n THEN 0 ELSE h + 1 - n
      BY <3>2, <2>6, <1>0
    <3>4. \A k \in 1..Len(fs) : LeafOf(fs[k].act, fs[k].pub) = tree[n + k]
      <4>. SUFFICES ASSUME NEW k \in 1..Len(fs)
                    PROVE  LeafOf(fs[k].act, fs[k].pub) = tree[n + k]
        OBVIOUS
      <4>1. CASE k \in 1..Len(es)
        BY <4>1, <3>2, <1>0
      <4>2. CASE k = Len(es) + 1
        <5>1. n + k = h + 1
          BY <4>2, <3>2, <1>0
        <5>. QED  BY <5>1, <4>2, <3>2, <2>2
      <4>. QED  BY <4>1, <4>2, <3>2
    <3>5. Downloaded(n, i + 1, h + 1)
      BY <3>2, <3>3, <3>4, <2>3, <2>4 DEF Downloaded, fs
    <3>. QED  BY <3>5
  <2>. QED  BY <2>5, <2>6, <1>0
<1>. QED  BY <1>3, <1>4

(* So the download is right at every point of the log.                     *)
LEMMA DownloadedThroughout ==
  ASSUME TypeOK, TreeMatchesLog, NEW n \in Nat
  PROVE  \A i \in 0..Len(events) : \E h : Downloaded(n, i, h)
<1>. DEFINE T == {i \in Nat : i <= Len(events) => \E h : Downloaded(n, i, h)}
<1>0. Len(events) \in Nat /\ DOMAIN events = 1..Len(events)
      /\ Len(tree) \in Nat
  BY DEF TypeOK
<1>1. ASSUME NEW i \in Nat, \A m \in Nat : m < i => m \in T
      PROVE  i \in T
  <2>1. CASE i = 0
    <3>1. Collected(n)[0] = <<>>
      BY CollectedUnfold
    <3>2. Height(0, 0)
      BY DEF Height
    <3>3. <<>> \in Seq(EventType) /\ Len(<<>>) = 0
      OBVIOUS
    <3>4. Downloaded(n, 0, 0)
      BY <3>1, <3>2, <3>3, <1>0 DEF Downloaded
    <3>. QED  BY <3>4, <2>1
  <2>2. CASE i # 0 /\ i <= Len(events)
    <3>1. i - 1 \in Nat /\ i - 1 < i /\ i - 1 <= Len(events)
          /\ (i - 1) + 1 = i
      BY <2>2, <1>0
    <3>2. i - 1 \in T
      BY <3>1, <1>1
    <3>3. PICK h : Downloaded(n, i - 1, h)
      BY <3>1, <3>2
    <3>4. (i - 1) + 1 \in DOMAIN events
      BY <2>2, <1>0
    <3>5. \E g : Downloaded(n, (i - 1) + 1, g)
      BY <3>1, <3>3, <3>4, DownloadTurn
    <3>. QED  BY <3>1, <3>5
  <2>. QED  BY <2>1, <2>2
<1>. HIDE DEF T
<1>2. \A i \in Nat : i \in T
  BY <1>1, Scan!Induction
<1>. QED  BY <1>2, <1>0 DEF T

(* At the end of the log the leaves below the height are all leaves.       *)
LEMMA RebuildsTree ==
  TypeOK /\ TreeMatchesLog => AuditorRebuildsTree
<1>. SUFFICES ASSUME TypeOK, TreeMatchesLog, NEW n \in 0..Len(tree)
              PROVE  LET es == EventsSince(n) IN
                     [i \in 1..Len(es) |-> LeafOf(es[i].act, es[i].pub)]
                       = SubSeq(tree, n + 1, Len(tree))
  BY DEF AuditorRebuildsTree
<1>. DEFINE es == EventsSince(n)
            N == Len(events)
<1>0. N \in Nat /\ DOMAIN events = 1..N /\ Len(tree) \in Nat
      /\ DOMAIN tree = 1..Len(tree) /\ n \in Nat
  BY DEF TypeOK
<1>1. es = Collected(n)[N]
  BY <1>0, SinceIsCollected
<1>2. PICK h : Downloaded(n, N, h)
  BY <1>0, DownloadedThroughout
<1>. HIDE DEF es
<1>3. h \in 0..Len(tree) /\ Height(N, h)
  BY <1>2 DEF Downloaded
<1>4. ~(h < Len(tree))
  <2>. SUFFICES ASSUME h < Len(tree)
                PROVE  FALSE
    OBVIOUS
  <2>1. h + 1 \in DOMAIN tree /\ (h + 1) - 1 = h
    BY <1>0, <1>3
  <2>2. PICK j \in DOMAIN events : Appended(j) /\ events[j].leaf = h
    BY <2>1 DEF TreeMatchesLog
  <2>3. events[j].leaf < h
    BY <2>2, <1>0, <1>3 DEF Height
  <2>. QED  BY <2>2, <2>3, <1>3
<1>5. Len(es) = Len(tree) - n
  <2>1. Len(es) = IF h <= n THEN 0 ELSE h - n
    BY <1>1, <1>2 DEF Downloaded
  <2>2. h = Len(tree) /\ n <= Len(tree)
    <3>1. h \in 0..Len(tree) /\ n \in 0..Len(tree)
      BY <1>3
    <3>2. Len(tree) \in Nat
      BY <1>0
    <3>. QED  BY <3>1, <3>2, <1>4
  <2>3. CASE n = Len(tree)
    <3>1. h <= n /\ Len(tree) - n = 0
      BY <2>2, <2>3, <1>0
    <3>. QED  BY <2>1, <3>1, Zenon
  <2>4. CASE n < Len(tree)
    <3>1. h = Len(tree) /\ ~(h <= n)
      BY <2>2, <2>4, <1>0
    <3>. QED  BY <2>1, <3>1, Zenon
  <2>. QED  BY <2>2, <2>3, <2>4, <1>0
<1>6. SubSeq(tree, n + 1, Len(tree)) = [k \in 1..(Len(tree) - n) |-> tree[n + k]]
  BY <1>0 DEF TypeOK
<1>7. [k \in 1..Len(es) |-> LeafOf(es[k].act, es[k].pub)]
        = [k \in 1..(Len(tree) - n) |-> tree[n + k]]
  <2>1. \A k \in 1..Len(es) : LeafOf(es[k].act, es[k].pub) = tree[n + k]
    BY <1>1, <1>2 DEF Downloaded
  <2>. QED  BY <2>1, <1>5
<1>. QED  BY <1>6, <1>7 DEF es

(* Whatever an auditor downloads with EventsSince is the tree from there   *)
(* on, in order and without a hole (pipeline.go 368-387).                  *)
THEOREM DownloadsRebuildTree == Spec => []AuditorRebuildsTree
BY TypeCorrect, LogAndTreeAgree, RebuildsTree, PTL

(* While the process lives, events and leaves keep the places an auditor   *)
(* has seen them in: a later download goes on from an earlier one          *)
(* (pipeline.go 251-281, 314-318).                                         *)
THEOREM LogOnlyGrows ==
  Spec => [][restarts' = restarts =>
               /\ \A i \in DOMAIN events :
                    i \in DOMAIN events' /\ events'[i] = events[i]
               /\ \A n \in DOMAIN tree :
                    n \in DOMAIN tree' /\ tree'[n] = tree[n]]_vars
<1>. DEFINE Grows == restarts' = restarts =>
                       /\ \A i \in DOMAIN events :
                            i \in DOMAIN events' /\ events'[i] = events[i]
                       /\ \A n \in DOMAIN tree :
                            n \in DOMAIN tree' /\ tree'[n] = tree[n]
<1>1. ASSUME TypeInv, [Next]_vars
      PROVE  Grows
  <2>1. ASSUME events' = events, tree' = tree
        PROVE  Grows
    BY <2>1
  <2>2. ASSUME NEW c \in Callers, Publish(c)
        PROVE  Grows
    <3>1. tree' = tree
      BY <2>2 DEF Publish
    <3>2. /\ DOMAIN events = 1..Len(events) /\ Len(events) \in Nat
          /\ DOMAIN events' = 1..(Len(events) + 1)
          /\ \A i \in 1..Len(events) : events'[i] = events[i]
      BY <1>1, <2>2, PublishFacts
    <3>3. \A i \in DOMAIN events : i \in DOMAIN events' /\ events'[i] = events[i]
      BY <3>2
    <3>. QED  BY <3>1, <3>3
  <2>3. ASSUME NEW c \in Callers, AppendNew(c)
        PROVE  Grows
    <3>1. /\ DOMAIN events = 1..Len(events) /\ Len(events) \in Nat
          /\ DOMAIN events' = 1..(Len(events) + 1)
          /\ \A i \in 1..Len(events) : events'[i] = events[i]
          /\ DOMAIN tree = 1..Len(tree) /\ Len(tree) \in Nat
          /\ DOMAIN tree' = 1..(Len(tree) + 1)
          /\ \A n \in 1..Len(tree) : tree'[n] = tree[n]
      BY <1>1, <2>3, AppendNewFacts
    <3>2. \A i \in DOMAIN events : i \in DOMAIN events' /\ events'[i] = events[i]
      BY <3>1
    <3>3. \A n \in DOMAIN tree : n \in DOMAIN tree' /\ tree'[n] = tree[n]
      BY <3>1
    <3>. QED  BY <3>2, <3>3
  <2>4. ASSUME Restart
        PROVE  Grows
    BY <1>1, <2>4 DEF Restart, TypeInv, TypeOK
  <2>. HIDE DEF Grows
  <2>. QED
    BY <1>1, <2>1, <2>2, <2>3, <2>4 DEF Next, Step, vars, Tick, StepWallClock,
       CreateKey, DeleteKey, Begin, BeginDenied, CheckSkew, Lookup, Deny,
       AppendCached, AppendFails
<1>2. Spec => []TypeInv
  BY TypeInit, TypeStep, PTL DEF Spec
<1>3. TypeInv /\ [Next]_vars => [Grows]_vars
  BY <1>1
<1>. HIDE DEF Grows
<1>. QED  BY <1>2, <1>3, PTL DEF Spec, Grows

-----------------------------------------------------------------------------
(***************************************************************************)
(* The replay cache.  NonceSpacing is not inductive: that a new leaf is    *)
(* far from ALL earlier leaves of its nonce follows only because the cache *)
(* entry is the latest of them, which a failed tree append would break.    *)
(***************************************************************************)

(* The cache maps each replay key to the latest event of that key.         *)
SeenIsLatest ==
  /\ \A k \in ReplayKey : seen[k] # 0 =>
       /\ seen[k] \in DOMAIN events
       /\ Appended(seen[k])
       /\ KeyOf(events[seen[k]].act) = k
  /\ \A i \in DOMAIN events : Appended(i) =>
       /\ KeyOf(events[i].act) \notin forgotten
            => i <= seen[KeyOf(events[i].act)]
       /\ Fresh(events[i].act, events[i].at)

NonceInv == SeenIsLatest /\ NonceSpacing

(* An appended event has the fields of an action and a time (pipeline.go   *)
(* 259-267).                                                               *)
LEMMA AppendedType ==
  ASSUME TypeInv, NEW i \in DOMAIN events, Appended(i)
  PROVE  events[i].act \in Actions /\ events[i].at \in Nat
<1>1. events[i] \in EventType /\ events[i].kind = "appended"
  BY DEF TypeInv, TypeOK, Appended
<1>. QED BY <1>1 DEF EventType

(* The critical section keeps the cache and the spacing (pipeline.go       *)
(* 240-270), a failed tree.Append included.                                *)
LEMMA NonceStep ==
  ASSUME TypeInv, NonceInv, [Next]_vars
  PROVE  NonceInv'
<1>1. ASSUME events' = events, seen' = seen, forgotten' = forgotten
      PROVE  NonceInv'
  BY <1>1 DEF NonceInv, SeenIsLatest, NonceSpacing, Appended
<1>2. ASSUME NEW c \in Callers, Publish(c)
      PROVE  NonceInv'
  <2>1. seen' = seen /\ forgotten' = forgotten
    BY <1>2 DEF Publish
  <2>2. \A i \in DOMAIN events' : Appended(i)' =>
          i \in DOMAIN events /\ Appended(i) /\ events'[i] = events[i]
    BY <1>2, PublishFacts DEF Appended
  <2>3. \A i \in DOMAIN events : i \in DOMAIN events' /\ events'[i] = events[i]
    BY <1>2, PublishFacts
  <2>4. SeenIsLatest'
    BY <2>1, <2>2, <2>3 DEF NonceInv, SeenIsLatest, Appended
  <2>5. NonceSpacing'
    BY <2>1, <2>2, <2>3 DEF NonceInv, NonceSpacing
  <2>. QED BY <2>4, <2>5 DEF NonceInv
<1>3. ASSUME NEW c \in Callers, AppendNew(c)
      PROVE  NonceInv'
  <2> DEFINE m == Len(events) + 1
             a == calls[c].act
             k == KeyOf(a)
             now == calls[c].now
  <2>1. /\ a \in Actions /\ k \in ReplayKey /\ now \in Nat /\ Fresh(a, now)
        /\ Len(events) \in Nat /\ DOMAIN events = 1..Len(events)
        /\ DOMAIN events' = 1..m
        /\ \A i \in 1..Len(events) : events'[i] = events[i]
    BY <1>3, AppendNewFacts, KeyType
  <2>2. /\ events'[m].kind = "appended" /\ events'[m].act = a
        /\ events'[m].at = now
    <3>1. events'[m] = AppendedEvent(a, calls[c].pub, Len(tree), now)
      BY <1>3, AppendNewFacts
    <3>. QED BY <3>1 DEF AppendedEvent
  <2>3. seen \in [ReplayKey -> 0..Len(events)]
        /\ seen' = [seen EXCEPT ![k] = m] /\ forgotten' = forgotten
    BY <1>3 DEF AppendNew, TypeInv, TypeOK
  <2>4. \A i \in DOMAIN events :
          /\ i \in DOMAIN events'
          /\ events'[i] = events[i]
          /\ Appended(i)' <=> Appended(i)
    BY <2>1 DEF Appended
  <2>5. SeenIsLatest'
    <3>1. \A q \in ReplayKey : seen'[q] # 0 =>
            /\ seen'[q] \in DOMAIN events'
            /\ Appended(seen[q])' \/ q = k
            /\ KeyOf(events'[seen'[q]].act) = q
      BY <2>1, <2>2, <2>3, <2>4 DEF NonceInv, SeenIsLatest
    <3>2. \A q \in ReplayKey : seen'[q] # 0 => events'[seen'[q]].kind = "appended"
      BY <2>1, <2>2, <2>3, <2>4 DEF NonceInv, SeenIsLatest, Appended
    <3>3. ASSUME NEW i \in DOMAIN events', events'[i].kind = "appended"
          PROVE  /\ KeyOf(events'[i].act) \notin forgotten'
                      => i <= seen'[KeyOf(events'[i].act)]
                 /\ Fresh(events'[i].act, events'[i].at)
      <4>1. CASE i = m
        BY <2>1, <2>2, <2>3, <4>1
      <4>2. CASE i # m
        <5>1. i \in DOMAIN events /\ Appended(i) /\ events'[i] = events[i]
          BY <2>1, <3>3, <4>2 DEF Appended
        <5>2. KeyOf(events[i].act) \in ReplayKey
          BY <5>1, AppendedType, KeyType
        <5>3. /\ KeyOf(events[i].act) \notin forgotten
                   => i <= seen[KeyOf(events[i].act)]
              /\ i <= m
              /\ Fresh(events[i].act, events[i].at)
          BY <2>1, <5>1 DEF NonceInv, SeenIsLatest
        <5>. QED BY <2>3, <5>1, <5>2, <5>3
      <4>. QED BY <4>1, <4>2
    <3>. QED BY <3>1, <3>2, <3>3 DEF SeenIsLatest, Appended
  <2>6. ASSUME NEW i \in DOMAIN events, Appended(i), KeyOf(events[i].act) = k,
               k \notin forgotten
        PROVE  now - events[i].at > Window
    <3> DEFINE s == seen[k]
    <3>1. s # 0 /\ i <= s /\ s \in DOMAIN events /\ Appended(s)
          /\ KeyOf(events[s].act) = k /\ s \in Nat /\ i \in Nat /\ i # 0
      BY <2>1, <2>3, <2>6 DEF NonceInv, SeenIsLatest
    <3>2. now - events[s].at > Window
      BY <1>3, <3>1 DEF AppendNew, Hit, Expired
    <3>3. events[i].at \in Nat /\ events[s].at \in Nat /\ Window \in Nat
      BY <2>6, <3>1, AppendedType, WindowAssumption DEF Window
    <3>4. i = s \/ events[s].at - events[i].at > Window
      BY <2>6, <3>1 DEF NonceInv, NonceSpacing
    <3>. QED BY <2>1, <3>2, <3>3, <3>4
  <2>7. NonceSpacing'
    <3> SUFFICES ASSUME NEW i \in DOMAIN events', NEW j \in DOMAIN events',
                        i < j, Appended(i)', Appended(j)',
                        KeyOf(events'[i].act) = KeyOf(events'[j].act),
                        KeyOf(events'[i].act) \notin forgotten'
                 PROVE  events'[j].at - events'[i].at > Window
      BY DEF NonceSpacing
    <3>1. i \in DOMAIN events /\ events'[i] = events[i] /\ Appended(i)
      BY <2>1, <2>4
    <3>2. CASE j = m
      BY <2>2, <2>3, <2>6, <3>1, <3>2
    <3>3. CASE j # m
      <4>1. j \in DOMAIN events /\ events'[j] = events[j] /\ Appended(j)
        BY <2>1, <2>4, <3>3
      <4>. QED BY <2>3, <3>1, <4>1 DEF NonceInv, NonceSpacing
    <3>. QED BY <3>2, <3>3
  <2>. QED BY <2>5, <2>7 DEF NonceInv
<1>4. CASE Restart
  BY <1>4 DEF Restart, NonceInv, SeenIsLatest, NonceSpacing
<1>5. ASSUME NEW c \in Callers, AppendFails(c)
      PROVE  NonceInv'
  <2> DEFINE k == KeyOf(calls[c].act)
  <2>1. k \in ReplayKey /\ seen \in [ReplayKey -> 0..Len(events)]
    BY <1>5, KeyType DEF AppendFails, TypeInv, TypeOK, CallOK
  <2>2. events' = events /\ seen' = [seen EXCEPT ![k] = 0]
        /\ forgotten' = IF seen[k] = 0 THEN forgotten ELSE forgotten \cup {k}
    BY <1>5 DEF AppendFails
  <2>3. ASSUME NEW i \in DOMAIN events, Appended(i)
        PROVE  KeyOf(events[i].act) \in ReplayKey
    BY <2>3, AppendedType, KeyType
  <2> HIDE DEF k
  <2>4. SeenIsLatest'
    BY <2>1, <2>2, <2>3 DEF NonceInv, SeenIsLatest, Appended
  <2>5. NonceSpacing'
    BY <2>2 DEF NonceInv, NonceSpacing, Appended
  <2>. QED BY <2>4, <2>5 DEF NonceInv
<1>. QED
  BY <1>1, <1>2, <1>3, <1>4, <1>5 DEF Next, Step, vars, Tick,
     StepWallClock, CreateKey, DeleteKey, Begin, BeginDenied, CheckSkew, Lookup, Deny, AppendCached

(* Two leaves of one action would both lie within the skew of its          *)
(* timestamp by the wall clock, so at most 2 * MaxSkew + MaxStep apart by  *)
(* the monotonic one; the window keeps them further apart than that        *)
(* (docs/schema.md 49-57).                                                 *)
LEMMA SpacingImpliesOnce ==
  ASSUME TypeInv, NonceInv
  PROVE  LoggedOnce
<1> SUFFICES ASSUME NEW i \in DOMAIN events, NEW j \in DOMAIN events,
                    Appended(i), Appended(j), events[i].act = events[j].act,
                    KeyOf(events[i].act) \notin forgotten,
                    i < j
             PROVE  FALSE
  <2>1. DOMAIN events \subseteq Nat
    BY DEF TypeInv, TypeOK
  <2>. QED BY <2>1 DEF LoggedOnce
<1>1. /\ events[i].at \in Nat /\ events[j].at \in Nat
      /\ events[i].act \in Actions
  BY AppendedType
<1>2. events[i].act.ts \in Nat
  BY <1>1, KeyType
<1>3. events[j].at - events[i].at > MaxSkew + NonceWindow
  BY DEF NonceInv, NonceSpacing, Window
<1>4. /\ Fresh(events[i].act, events[i].at)
      /\ Fresh(events[i].act, events[j].at)
  BY DEF NonceInv, SeenIsLatest
<1>5. PICK d \in 0..MaxStep : ~Skewed(events[i].act, events[i].at + d)
  BY <1>4 DEF Fresh
<1>6. PICK e \in 0..MaxStep : ~Skewed(events[i].act, events[j].at + e)
  BY <1>4 DEF Fresh
<1>. QED BY <1>1, <1>2, <1>3, <1>5, <1>6, WindowAssumption DEF Skewed, Abs

(* Leaves of one nonce are more than the window apart, unless a failed     *)
(* append dropped the nonce's cache entry; merkle.New, the tree that       *)
(* cmd/keyserver builds, has no failing append.                            *)
THEOREM NonceSpacingHolds == Spec => []NonceSpacing
<1>1. Init => NonceInv
  BY DEF Init, NonceInv, SeenIsLatest, NonceSpacing
<1>2. TypeInv /\ NonceInv /\ [Next]_vars => NonceInv'
  BY NonceStep
<1>3. NonceInv => NonceSpacing
  BY DEF NonceInv
<1>. QED BY <1>1, <1>2, <1>3, TypeInit, TypeStep, PTL DEF Spec

(* ... and no signed action is logged twice in a life of the process.      *)
THEOREM NoDoubleLogging == Spec => []LoggedOnce
<1>1. Init => NonceInv
  BY DEF Init, NonceInv, SeenIsLatest, NonceSpacing
<1>2. TypeInv /\ NonceInv /\ [Next]_vars => NonceInv'
  BY NonceStep
<1>3. TypeInv /\ NonceInv => LoggedOnce
  BY SpacingImpliesOnce
<1>. QED BY <1>1, <1>2, <1>3, TypeInit, TypeStep, PTL DEF Spec

-----------------------------------------------------------------------------
(***************************************************************************)
(* Restarts.  What keeps the log of an earlier life out of the next one is *)
(* the keystore, not the replay cache: every key a signature in the        *)
(* archive was made with is gone, from the keystore and from every call    *)
(* past its lookup.                                                        *)
(***************************************************************************)
ArchiveKeysGone ==
  \A l \in archive :
    /\ l.sig <= minted
    /\ \A g \in Agents : keys[g] # l.sig
    /\ \A c \in Callers : calls[c].pc = "append" => calls[c].pub # l.sig
    /\ \A n \in DOMAIN tree : tree[n].sig # l.sig

KeysMinted ==
  /\ \A g \in Agents : keys[g] <= minted
  /\ \A c \in Callers : calls[c].pc = "append" => calls[c].pub <= minted
  /\ \A n \in DOMAIN tree : tree[n].sig <= minted

ArchiveInv == ArchiveKeysGone /\ KeysMinted

(* A restart forgets the keys with the log (cmd/keyserver/main.go 20-45),  *)
(* and no other step brings an old key back.                               *)
LEMMA ArchiveStep ==
  ASSUME TypeInv, ArchiveInv, [Next]_vars
  PROVE  ArchiveInv'
<1> USE DEF TypeInv, TypeOK
<1>0. \A l \in archive : l.sig \in Nat \ {0}
  BY DEF LeafType
<1>t. \A n \in DOMAIN tree : tree[n].sig \in Nat \ {0}
  <2>1. \A n \in DOMAIN tree : tree[n] \in LeafType
    OBVIOUS
  <2>. QED BY <2>1 DEF LeafType
<1>1. CASE Tick \/ StepWallClock \/ UNCHANGED vars
  BY <1>1 DEF Tick, StepWallClock, vars, ArchiveInv, ArchiveKeysGone, KeysMinted
<1>2. ASSUME NEW g \in Agents, CreateKey(g)
      PROVE  ArchiveInv'
  <2>1. \A h \in Agents : keys'[h] = keys[h] \/ keys'[h] = minted + 1
    BY <1>2 DEF CreateKey
  <2>2. \A c \in Callers : calls[c].pub \in Nat
    BY DEF CallType
  <2>. QED BY <1>0, <1>t, <1>2, <2>1, <2>2
           DEF CreateKey, ArchiveInv, ArchiveKeysGone, KeysMinted
<1>3. ASSUME NEW g \in Agents, DeleteKey(g)
      PROVE  ArchiveInv'
  BY <1>0, <1>3 DEF DeleteKey, ArchiveInv, ArchiveKeysGone, KeysMinted
<1>4. ASSUME NEW c \in Callers,
             UNCHANGED <<keys, minted, tree, archive>>,
             \A d \in Callers \ {c} : calls'[d] = calls[d],
             calls'[c].pc # "append"
      PROVE  ArchiveInv'
  BY <1>4 DEF ArchiveInv, ArchiveKeysGone, KeysMinted
<1>5. ASSUME NEW c \in Callers, Lookup(c)
      PROVE  ArchiveInv'
  <2> DEFINE pub == keys[calls[c].act.agent]
  <2>1. calls[c].act.agent \in Agents /\ calls[c] \in CallType
    BY <1>5, KeyType DEF Lookup, CallOK
  <2>2. CASE calls' = [calls EXCEPT ![c].pub = pub, ![c].pc = "append"]
    <3>1. calls'[c].pub = pub
      BY <2>1, <2>2 DEF CallType
    <3>2. \A d \in Callers \ {c} : calls'[d] = calls[d]
      BY <2>2
    <3>3. UNCHANGED <<keys, minted, tree, archive>>
      BY <1>5 DEF Lookup
    <3>4. pub <= minted /\ \A l \in archive : pub # l.sig
      BY <2>1 DEF ArchiveInv, ArchiveKeysGone, KeysMinted
    <3> HIDE DEF pub
    <3>. QED BY <3>1, <3>2, <3>3, <3>4
             DEF ArchiveInv, ArchiveKeysGone, KeysMinted
  <2>3. CASE calls' = [calls EXCEPT ![c].pc = "deny"]
    <3>1. calls'[c].pc = "deny" /\ \A d \in Callers \ {c} : calls'[d] = calls[d]
      BY <2>1, <2>3 DEF CallType
    <3>. QED BY <1>4, <1>5, <3>1 DEF Lookup
  <2>. QED BY <1>5, <2>2, <2>3 DEF Lookup
<1>6. ASSUME NEW c \in Callers, AppendNew(c)
      PROVE  ArchiveInv'
  <2>1. /\ tree'[Len(tree) + 1] = LeafOf(calls[c].act, calls[c].pub)
        /\ DOMAIN tree' = 1..(Len(tree) + 1) /\ DOMAIN tree = 1..Len(tree)
        /\ \A n \in 1..Len(tree) : tree'[n] = tree[n]
        /\ Len(tree) \in Nat
    BY <1>6, AppendNewFacts
  <2>2. tree'[Len(tree) + 1].sig = calls[c].pub
    BY <2>1 DEF LeafOf
  <2>3. ASSUME NEW n \in DOMAIN tree'
        PROVE  \/ tree'[n].sig = calls[c].pub
               \/ n \in DOMAIN tree /\ tree'[n] = tree[n]
    <3>1. n = Len(tree) + 1 \/ n \in 1..Len(tree)
      <4> HIDE DEF TypeInv, TypeOK
      <4>1. n \in 1..(Len(tree) + 1) /\ Len(tree) \in Nat
        BY <2>1
      <4>. QED BY <4>1
    <3>2. CASE n = Len(tree) + 1
      BY <2>2, <3>2
    <3>3. CASE n \in 1..Len(tree)
      BY <2>1, <3>3
    <3>. QED BY <3>1, <3>2, <3>3
  <2>4. calls'[c].pc = "done" /\ \A d \in Callers \ {c} : calls'[d] = calls[d]
    <3>1. calls' = [calls EXCEPT ![c] = Answered(calls[c], Len(events) + 1)]
      BY <1>6 DEF AppendNew
    <3>2. calls'[c] = Answered(calls[c], Len(events) + 1)
      BY <3>1
    <3>3. calls[c] \in CallType
      OBVIOUS
    <3>. QED BY <3>1, <3>2, <3>3 DEF Answered, CallType
  <2>5. calls[c].pc = "append" /\ UNCHANGED <<keys, minted, archive>>
    BY <1>6 DEF AppendNew
  <2>6. calls[c].pub <= minted /\ \A l \in archive : calls[c].pub # l.sig
    BY <2>5 DEF ArchiveInv, ArchiveKeysGone, KeysMinted
  <2>7. \A n \in DOMAIN tree' : tree'[n].sig <= minted
    BY <2>3, <2>6 DEF ArchiveInv, KeysMinted
  <2>8. \A l \in archive : \A n \in DOMAIN tree' : tree'[n].sig # l.sig
    BY <2>3, <2>6 DEF ArchiveInv, ArchiveKeysGone
  <2>9. \A d \in Callers : calls'[d].pc = "append" =>
          calls[d].pc = "append" /\ calls'[d].pub = calls[d].pub
    BY <2>4
  <2>. QED BY <2>5, <2>7, <2>8, <2>9 DEF ArchiveInv, ArchiveKeysGone, KeysMinted
<1>7. CASE Restart
  <2>1. \A l \in archive' : l \in archive \/ \E n \in DOMAIN tree : l = tree[n]
    BY <1>7 DEF Restart
  <2>2. \A n \in DOMAIN tree : tree[n].sig \in Nat \ {0} /\ tree[n].sig <= minted
    BY <1>t DEF ArchiveInv, KeysMinted
  <2>3. \A l \in archive' : l.sig \in Nat \ {0} /\ l.sig <= minted
    BY <1>0, <2>1, <2>2 DEF ArchiveInv, ArchiveKeysGone
  <2>4. \A c \in Callers : calls'[c].pc = "idle"
    BY <1>7, IdleType DEF Restart
  <2>. QED BY <1>7, <2>3, <2>4
           DEF Restart, ArchiveInv, ArchiveKeysGone, KeysMinted
<1>8. ASSUME NEW c \in Callers, NEW a \in Actions, NEW sig \in 0..minted,
             Begin(c, a, sig)
      PROVE  ArchiveInv'
  <2>1. calls'[c].pc = "skew" /\ \A d \in Callers \ {c} : calls'[d] = calls[d]
    BY <1>8 DEF Begin, IdleCall
  <2>. QED BY <1>4, <1>8, <2>1 DEF Begin
<1>9. ASSUME NEW c \in Callers,
             BeginDenied(c) \/ CheckSkew(c) \/ Deny(c) \/ Publish(c)
               \/ AppendCached(c) \/ AppendFails(c)
      PROVE  ArchiveInv'
  <2>1. calls'[c].pc # "append" /\ \A d \in Callers \ {c} : calls'[d] = calls[d]
    <3>1. calls[c] \in CallType
      OBVIOUS
    <3>2. CASE BeginDenied(c)
      BY <3>2 DEF BeginDenied, IdleCall
    <3>3. CASE CheckSkew(c)
      BY <3>1, <3>3 DEF CheckSkew, CallType
    <3>4. CASE Deny(c)
      BY <3>1, <3>4 DEF Deny, CallType
    <3>5. CASE Publish(c) \/ AppendFails(c)
      BY <3>5, IdleType DEF Publish, AppendFails
    <3>6. CASE AppendCached(c)
      BY <3>1, <3>6 DEF AppendCached, Answered, CallType
    <3>. QED BY <1>9, <3>2, <3>3, <3>4, <3>5, <3>6
  <2>2. UNCHANGED <<keys, minted, tree, archive>>
    BY <1>9 DEF BeginDenied, CheckSkew, Deny, Publish, AppendCached,
                AppendFails
  <2>. QED BY <1>4, <2>1, <2>2
<1>. QED
  BY <1>1, <1>2, <1>3, <1>5, <1>6, <1>7, <1>8, <1>9 DEF Next, Step

(* No leaf of an earlier life of the process is ever logged again,         *)
(* whatever the replay cache forgot (pipeline.go 176-189, main.go).        *)
THEOREM RestartsDoNotReplay == Spec => []NoReplayAfterRestart
<1>1. Init => ArchiveInv
  BY DEF Init, ArchiveInv, ArchiveKeysGone, KeysMinted, IdleCall
<1>2. TypeInv /\ ArchiveInv /\ [Next]_vars => ArchiveInv'
  BY ArchiveStep
<1>3. ArchiveInv => NoReplayAfterRestart
  BY DEF ArchiveInv, ArchiveKeysGone, NoReplayAfterRestart
<1>. QED BY <1>1, <1>2, <1>3, TypeInit, TypeStep, PTL DEF Spec

-----------------------------------------------------------------------------
(***************************************************************************)
(* What a nil error tells the client.  The answer is an event of its own   *)
(* agent and nonce, because the cache never points anywhere else, and the  *)
(* signature behind it is by a key that was the agent's after the request  *)
(* arrived.  The second needs to know, from arrival to lookup, what the    *)
(* keystore can still hand out.                                            *)
(***************************************************************************)

(* The agent's key, if it has one, is no older than the call's floor, and  *)
(* the next key to be generated is not either.                             *)
NotRetired(call) ==
  /\ call.floor <= minted + 1
  /\ keys[call.act.agent] = 0 \/ call.floor <= keys[call.act.agent]

KeysAreCurrent ==
  \A c \in Callers :
    /\ calls[c].pc \in {"skew", "lookup"} => NotRetired(calls[c])
    /\ calls[c].pc = "append" => calls[c].floor <= calls[c].sig
    /\ calls[c].ev # 0 => calls[c].floor <= calls[c].sig

(* The fields of an answered call (Submit returning an event, pipeline.go  *)
(* 245 and 280).                                                           *)
LEMMA AnsweredFields ==
  ASSUME NEW call \in CallType, NEW i \in Nat
  PROVE  /\ Answered(call, i).pc = "done" /\ Answered(call, i).ev = i
         /\ Answered(call, i).act = call.act
         /\ Answered(call, i).sig = call.sig
         /\ Answered(call, i).floor = call.floor
BY DEF Answered, CallType

(* A step of one handler leaves the locals of the others alone (the locals *)
(* of Submit, pipeline.go 199-281).                                        *)
LEMMA OthersKeepTheirLocals ==
  ASSUME TypeInv, NEW c \in Callers,
         \/ \E a \in Actions, sig \in 0..minted : Begin(c, a, sig)
         \/ BeginDenied(c)
         \/ Step(c),
         NEW d \in Callers, d # c
  PROVE  calls'[d] = calls[d]
<1>1. calls \in [Callers -> CallType]
  BY DEF TypeInv, TypeOK
<1>2. CASE \E a \in Actions, sig \in 0..minted : Begin(c, a, sig)
  BY <1>1, <1>2 DEF Begin
<1>3. CASE BeginDenied(c)
  BY <1>1, <1>3 DEF BeginDenied
<1>4. CASE CheckSkew(c) \/ Lookup(c) \/ Deny(c)
  BY <1>1, <1>4 DEF CheckSkew, Lookup, Deny
<1>5. CASE Publish(c) \/ AppendFails(c)
  BY <1>1, <1>5 DEF Publish, AppendFails
<1>6. CASE AppendCached(c) \/ AppendNew(c)
  BY <1>1, <1>6 DEF AppendCached, AppendNew
<1>. QED BY <1>2, <1>3, <1>4, <1>5, <1>6 DEF Step

(* What one step of Submit does to its own locals, the answer aside: it    *)
(* comes from an event already in the log or from none, and the key is     *)
(* taken at the lookup (pipeline.go 199-281).                              *)
LEMMA OwnLocals ==
  ASSUME TypeInv, NEW c \in Callers, BeginDenied(c) \/ Step(c)
  PROVE  \/ /\ calls'[c].ev = 0
            /\ calls'[c].pc \notin {"skew", "lookup", "append"}
         \/ /\ calls'[c].act = calls[c].act /\ calls'[c].sig = calls[c].sig
            /\ calls'[c].floor = calls[c].floor
            /\ \/ /\ calls'[c].ev = calls[c].ev
                  /\ \/ calls'[c].pc \in {"deny", "publish"}
                     \/ calls'[c].pc = "lookup" /\ calls[c].pc = "skew"
                     \/ /\ calls'[c].pc = "append" /\ calls[c].pc = "lookup"
                        /\ calls[c].sig = keys[calls[c].act.agent]
                        /\ calls[c].sig # 0
               \/ /\ calls[c].pc = "append" /\ calls'[c].pc = "done"
                  /\ \/ AppendNew(c) /\ calls'[c].ev = Len(events) + 1
                     \/ /\ Hit(c)
                        /\ calls'[c].ev = seen[KeyOf(calls[c].act)]
<1>1. calls \in [Callers -> CallType] /\ calls[c] \in CallType
  BY DEF TypeInv, TypeOK
<1>2. CASE BeginDenied(c)
  BY <1>1, <1>2 DEF BeginDenied, IdleCall
<1>3. CASE CheckSkew(c)
  BY <1>1, <1>3 DEF CheckSkew, CallType
<1>4. CASE Lookup(c)
  <2> DEFINE pub == keys[calls[c].act.agent]
  <2>1. CASE Verifies(calls[c].sig, pub)
             /\ calls' = [calls EXCEPT ![c].pub = pub, ![c].pc = "append"]
    BY <1>1, <1>4, <2>1 DEF Lookup, Verifies, CallType
  <2>2. CASE calls' = [calls EXCEPT ![c].pc = "deny"]
    BY <1>1, <2>2 DEF CallType
  <2>. QED BY <1>4, <2>1, <2>2 DEF Lookup
<1>5. CASE Deny(c)
  BY <1>1, <1>5 DEF Deny, CallType
<1>6. CASE Publish(c) \/ AppendFails(c)
  BY <1>1, <1>6 DEF Publish, AppendFails, IdleCall
<1>7. CASE AppendCached(c)
  <2>1. seen[KeyOf(calls[c].act)] \in Nat
    BY <1>7, KeyType DEF AppendCached, TypeInv, TypeOK, CallOK
  <2>2. calls'[c] = Answered(calls[c], seen[KeyOf(calls[c].act)])
    BY <1>1, <1>7 DEF AppendCached
  <2>. QED BY <1>1, <1>7, <2>1, <2>2, AnsweredFields DEF AppendCached
<1>8. CASE AppendNew(c)
  <2>1. Len(events) + 1 \in Nat
    BY DEF TypeInv, TypeOK
  <2>2. calls'[c] = Answered(calls[c], Len(events) + 1)
    BY <1>1, <1>8 DEF AppendNew
  <2>. QED BY <1>1, <1>8, <2>1, <2>2, AnsweredFields DEF AppendNew
<1>. QED BY <1>2, <1>3, <1>4, <1>5, <1>6, <1>7, <1>8 DEF Step

(* The keystore never hands a waiting call a key older than its arrival:   *)
(* Delete only removes, Create only adds a new one (keystore/memory.go),   *)
(* the lookup at line 219 takes what is there, and a registered key was    *)
(* generated before the next one (KeysMinted).                             *)
LEMMA CurrentStep ==
  ASSUME TypeInv, ArchiveInv, KeysAreCurrent, [Next]_vars
  PROVE  KeysAreCurrent'
<1>0. /\ calls \in [Callers -> CallType] /\ keys \in [Agents -> Nat]
      /\ minted \in Nat
      /\ \A c \in Callers : calls[c].floor \in Nat /\ calls[c].sig \in Nat
      /\ \A c \in Callers : calls[c].pc \in {"skew", "lookup"}
           => calls[c].act.agent \in Agents
  <2>1. \A c \in Callers : calls[c].pc \in {"skew", "lookup"}
           => calls[c].act \in Actions
    BY DEF TypeInv, CallOK
  <2>. QED BY <2>1, KeyType DEF TypeInv, TypeOK, CallType
<1>1. CASE Tick \/ StepWallClock \/ UNCHANGED vars
  BY <1>1 DEF Tick, StepWallClock, vars, KeysAreCurrent, NotRetired
<1>2. ASSUME NEW g \in Agents, CreateKey(g)
      PROVE  KeysAreCurrent'
  <2>1. /\ minted' = minted + 1 /\ calls' = calls
        /\ \A h \in Agents : keys'[h] = keys[h] \/ keys'[h] = minted + 1
    BY <1>0, <1>2 DEF CreateKey
  <2>. QED BY <1>0, <2>1 DEF KeysAreCurrent, NotRetired
<1>3. ASSUME NEW g \in Agents, DeleteKey(g)
      PROVE  KeysAreCurrent'
  <2>1. /\ minted' = minted /\ calls' = calls
        /\ \A h \in Agents : keys'[h] = keys[h] \/ keys'[h] = 0
    BY <1>0, <1>3 DEF DeleteKey
  <2>. QED BY <1>0, <2>1 DEF KeysAreCurrent, NotRetired
<1>4. CASE Restart
  BY <1>4 DEF Restart, KeysAreCurrent, IdleCall
<1>5. ASSUME NEW c \in Callers, NEW a \in Actions, NEW sig \in 0..minted,
             Begin(c, a, sig)
      PROVE  KeysAreCurrent'
  <2>1. keys' = keys /\ minted' = minted
    BY <1>5 DEF Begin
  <2>2. a.agent \in Agents /\ keys[a.agent] \in Nat
    BY <1>0, KeyType
  <2> DEFINE fl == IF keys[a.agent] # 0 THEN keys[a.agent] ELSE minted + 1
  <2>3. fl <= minted + 1 /\ (keys[a.agent] = 0 \/ fl <= keys[a.agent])
    BY <1>0, <2>2 DEF ArchiveInv, KeysMinted
  <2>4. calls'[c] = [IdleCall EXCEPT !.pc = "skew", !.act = a, !.sig = sig,
                                     !.floor = fl]
    BY <1>0, <1>5 DEF Begin
  <2> HIDE DEF fl
  <2>5. /\ calls'[c].pc = "skew" /\ calls'[c].ev = 0 /\ calls'[c].act = a
        /\ calls'[c].floor = fl
    BY <2>4 DEF IdleCall
  <2>6. \A d \in Callers : d # c => calls'[d] = calls[d]
    BY <1>5, OthersKeepTheirLocals
  <2>. QED BY <2>1, <2>3, <2>5, <2>6 DEF KeysAreCurrent, NotRetired
<1>6. ASSUME NEW c \in Callers, BeginDenied(c) \/ Step(c)
      PROVE  KeysAreCurrent'
  <2>1. keys' = keys /\ minted' = minted
    BY <1>6 DEF BeginDenied, Step, CheckSkew, Lookup, Deny, Publish,
                AppendCached, AppendNew, AppendFails
  <2>2. \A d \in Callers : d # c => calls'[d] = calls[d]
    BY <1>6, OthersKeepTheirLocals
  <2>3. /\ calls'[c].pc \in {"skew", "lookup"} => NotRetired(calls[c])'
        /\ calls'[c].pc = "append" => calls'[c].floor <= calls'[c].sig
        /\ calls'[c].ev # 0 => calls'[c].floor <= calls'[c].sig
    BY <1>0, <1>6, <2>1, OwnLocals DEF KeysAreCurrent, NotRetired
  <2>. QED BY <2>1, <2>2, <2>3 DEF KeysAreCurrent, NotRetired
<1>. QED BY <1>1, <1>2, <1>3, <1>4, <1>5, <1>6 DEF Next

(* No leaf is logged under a key that was deleted before the request came  *)
(* in, although the lookup (line 219) and the append (line 251) are under  *)
(* different locks and the agent may be registered anew in between.        *)
THEOREM RetiredKeysLogNothing == Spec => []NoRetiredKey
<1>1. Init => KeysAreCurrent
  BY DEF Init, KeysAreCurrent, IdleCall
<1>2. TypeInv /\ ArchiveInv /\ KeysAreCurrent /\ [Next]_vars
        => KeysAreCurrent'
  BY CurrentStep
<1>3. TypeInv /\ KeysAreCurrent => NoRetiredKey
  <2>1. TypeOK => \A c \in Callers : calls[c].floor \in Nat /\ calls[c].sig \in Nat
    BY DEF TypeOK, CallType
  <2>. QED BY <2>1 DEF TypeInv, KeysAreCurrent, NoRetiredKey
<1>4. Init => ArchiveInv
  BY DEF Init, ArchiveInv, ArchiveKeysGone, KeysMinted, IdleCall
<1>5. TypeInv /\ ArchiveInv /\ [Next]_vars => ArchiveInv'
  BY ArchiveStep
<1>. QED BY <1>1, <1>2, <1>3, <1>4, <1>5, TypeInit, TypeStep, PTL DEF Spec

(* The log only grows while the process lives, so an answer once given     *)
(* stays good, and the cache hands out only events of the asking call's    *)
(* agent and nonce (pipeline.go 240-246 and 262-274).                      *)
LEMMA AnswerStep ==
  ASSUME TypeInv, NonceInv, AnswerIsLogged, [Next]_vars
  PROVE  AnswerIsLogged'
<1>0. calls \in [Callers -> CallType] /\ events \in Seq(EventType)
  BY DEF TypeInv, TypeOK
<1>1. CASE Restart
  BY <1>1 DEF Restart, AnswerIsLogged, IdleCall
<1>2. CASE \/ Tick \/ StepWallClock \/ UNCHANGED vars
           \/ \E g \in Agents : CreateKey(g) \/ DeleteKey(g)
  BY <1>2 DEF Tick, StepWallClock, CreateKey, DeleteKey, vars, AnswerIsLogged,
              Appended
<1>3. ASSUME NEW c \in Callers,
             \/ \E a \in Actions, sig \in 0..minted : Begin(c, a, sig)
             \/ BeginDenied(c)
             \/ Step(c)
      PROVE  \A i \in DOMAIN events :
               i \in DOMAIN events' /\ events'[i] = events[i]
  <2>1. CASE Publish(c)
    BY <2>1, PublishFacts
  <2>2. CASE AppendNew(c)
    BY <2>2, AppendNewFacts
  <2>3. CASE events' = events
    BY <2>3
  <2>. QED BY <1>3, <2>1, <2>2, <2>3 DEF Step, Begin, BeginDenied, CheckSkew,
              Lookup, Deny, AppendCached, AppendFails
<1>4. ASSUME NEW c \in Callers, NEW a \in Actions, NEW sig \in 0..minted,
             Begin(c, a, sig)
      PROVE  AnswerIsLogged'
  <2>1. calls'[c].ev = 0
    BY <1>0, <1>4 DEF Begin, IdleCall
  <2>2. \A d \in Callers : d # c => calls'[d] = calls[d]
    BY <1>4, OthersKeepTheirLocals
  <2>. QED BY <1>3, <1>4, <2>1, <2>2 DEF AnswerIsLogged, Appended
<1>5. ASSUME NEW c \in Callers, BeginDenied(c) \/ Step(c)
      PROVE  AnswerIsLogged'
  <2>1. \A d \in Callers : d # c => calls'[d] = calls[d]
    BY <1>5, OthersKeepTheirLocals
  <2>2. \A i \in DOMAIN events : i \in DOMAIN events' /\ events'[i] = events[i]
    BY <1>3, <1>5
  <2> DEFINE Good == /\ calls'[c].ev \in DOMAIN events'
                     /\ events'[calls'[c].ev].kind = "appended"
                     /\ KeyOf(events'[calls'[c].ev].act) = KeyOf(calls'[c].act)
  <2>3. CASE calls'[c].ev = calls[c].ev /\ calls'[c].act = calls[c].act
    <3>1. calls'[c].ev # 0 => Good
      BY <2>2, <2>3 DEF AnswerIsLogged, Appended
    <3>. QED BY <2>1, <2>2, <3>1 DEF AnswerIsLogged, Appended
  <2>4. CASE /\ AppendNew(c) /\ calls'[c].act = calls[c].act
             /\ calls'[c].ev = Len(events) + 1
    <3>1. /\ DOMAIN events' = 1..(Len(events) + 1) /\ Len(events) \in Nat
          /\ events'[Len(events) + 1]
               = AppendedEvent(calls[c].act, calls[c].pub, Len(tree), calls[c].now)
      BY <2>4, AppendNewFacts
    <3>2. Len(events) + 1 \in DOMAIN events'
      BY <3>1
    <3>3. Good
      BY <2>4, <3>1, <3>2 DEF AppendedEvent
    <3>. QED BY <2>1, <2>2, <3>3 DEF AnswerIsLogged, Appended
  <2>5. CASE /\ Hit(c) /\ calls[c].pc = "append" /\ calls'[c].act = calls[c].act
             /\ calls'[c].ev = seen[KeyOf(calls[c].act)]
    <3>1. KeyOf(calls[c].act) \in ReplayKey
      BY <2>5, KeyType DEF TypeInv, CallOK
    <3>2. Good
      BY <2>2, <2>5, <3>1 DEF Hit, NonceInv, SeenIsLatest, Appended
    <3>. QED BY <2>1, <2>2, <3>2 DEF AnswerIsLogged, Appended
  <2>6. CASE calls'[c].ev = 0
    BY <2>1, <2>2, <2>6 DEF AnswerIsLogged, Appended
  <2>. QED BY <1>5, <2>3, <2>4, <2>5, <2>6, OwnLocals
<1>. QED BY <1>1, <1>2, <1>4, <1>5 DEF Next

(* Every nil error names an appended event of the caller's own agent and   *)
(* nonce, for as long as the process lives (Submit, pipeline.go 240-281).  *)
THEOREM AnswersAreLogged == Spec => []AnswerIsLogged
<1>1. Init => NonceInv
  BY DEF Init, NonceInv, SeenIsLatest, NonceSpacing
<1>2. Init => AnswerIsLogged
  BY DEF Init, AnswerIsLogged, IdleCall
<1>3. TypeInv /\ NonceInv /\ [Next]_vars => NonceInv'
  BY NonceStep
<1>4. TypeInv /\ NonceInv /\ AnswerIsLogged /\ [Next]_vars => AnswerIsLogged'
  BY AnswerStep
<1>. QED BY <1>1, <1>2, <1>3, <1>4, TypeInit, TypeStep, PTL DEF Spec

=============================================================================
