--------------------------- MODULE CapabilityProofs ---------------------------
(***************************************************************************)
(* Theorems about Capability, for any agents, scopes and lifetimes and any *)
(* number of tokens, calls and restarts.                                   *)
(***************************************************************************)
EXTENDS Capability, TLAPS

Clients == {"waiting", "granted", "ran", "refused", "broken"}

Servers == {"none", "received", "signed", "current", "ok", "dead"} \cup Reasons

CallType == [client : Clients, server : Servers, token : Tokens \cup {NoToken},
             ask : Asks, valid : BOOLEAN, barred : BOOLEAN]

(* Call c, moved on.                                                       *)
With(c, client, server, valid) ==
  [client |-> client, server |-> server, token |-> c.token, ask |-> c.ask,
   valid |-> valid, barred |-> c.barred]

(* Call i becomes c; the others stay.                                      *)
Turns(i, c) ==
  /\ calls' \in Seq(CallType)
  /\ DOMAIN calls' = DOMAIN calls
  /\ calls'[i] = c
  /\ \A j \in DOMAIN calls \ {i} : calls'[j] = calls[j]

(* The fields of a call that was moved on: the token, the request and what *)
(* history recorded of them stay (authorize, decorators.py 142-171, and    *)
(* Verify, service.go 177-215).                                            *)
LEMMA WithFacts ==
  ASSUME NEW c \in CallType, NEW client \in Clients, NEW server \in Servers,
         NEW valid \in BOOLEAN
  PROVE  /\ With(c, client, server, valid) \in CallType
         /\ With(c, client, server, valid).client = client
         /\ With(c, client, server, valid).server = server
         /\ With(c, client, server, valid).valid = valid
         /\ With(c, client, server, valid).token = c.token
         /\ With(c, client, server, valid).ask = c.ask
         /\ With(c, client, server, valid).barred = c.barred
         /\ c = With(c, c.client, c.server, c.valid)
BY DEF With, CallType

(* One field of a call assigned, or two.                                   *)
LEMMA CallTurns ==
  ASSUME calls \in Seq(CallType), NEW i \in DOMAIN calls
  PROVE  /\ \A s \in Servers : calls' = [calls EXCEPT ![i].server = s]
              => Turns(i, With(calls[i], calls[i].client, s, calls[i].valid))
         /\ \A c \in Clients : calls' = [calls EXCEPT ![i].client = c]
              => Turns(i, With(calls[i], c, calls[i].server, calls[i].valid))
         /\ \A s \in Servers, v \in BOOLEAN :
              calls' = [calls EXCEPT ![i].server = s, ![i].valid = v]
                => Turns(i, With(calls[i], calls[i].client, s, v))
<1> DEFINE c == calls[i]
<1>1. c \in CallType /\ c = [client |-> c.client, server |-> c.server,
                             token |-> c.token, ask |-> c.ask,
                             valid |-> c.valid, barred |-> c.barred]
      /\ c.client \in Clients /\ c.server \in Servers /\ c.valid \in BOOLEAN
  <2>1. c \in CallType
    OBVIOUS
  <2>. QED BY <2>1 DEF CallType
<1>2. ASSUME NEW new \in CallType, calls' = [calls EXCEPT ![i] = new]
      PROVE  Turns(i, new)
  BY <1>2 DEF Turns
<1>3. ASSUME NEW s \in Servers, calls' = [calls EXCEPT ![i].server = s]
      PROVE  Turns(i, With(c, c.client, s, c.valid))
  <2>1. calls' = [calls EXCEPT ![i] = With(c, c.client, s, c.valid)]
    <3>1. [c EXCEPT !.server = s] = With(c, c.client, s, c.valid)
      BY <1>1 DEF With
    <3>. QED BY <1>3, <3>1
  <2>2. With(c, c.client, s, c.valid) \in CallType
    BY <1>1, WithFacts
  <2>. QED BY <1>2, <2>1, <2>2
<1>4. ASSUME NEW cl \in Clients, calls' = [calls EXCEPT ![i].client = cl]
      PROVE  Turns(i, With(c, cl, c.server, c.valid))
  <2>1. calls' = [calls EXCEPT ![i] = With(c, cl, c.server, c.valid)]
    <3>1. [c EXCEPT !.client = cl] = With(c, cl, c.server, c.valid)
      BY <1>1 DEF With
    <3>. QED BY <1>4, <3>1
  <2>2. With(c, cl, c.server, c.valid) \in CallType
    BY <1>1, WithFacts
  <2>. QED BY <1>2, <2>1, <2>2
<1>5. ASSUME NEW s \in Servers, NEW v \in BOOLEAN,
             calls' = [calls EXCEPT ![i].server = s, ![i].valid = v]
      PROVE  Turns(i, With(c, c.client, s, v))
  <2>1. calls' = [calls EXCEPT ![i] = With(c, c.client, s, v)]
    <3>a. [c EXCEPT !.server = s] = With(c, c.client, s, c.valid)
      BY <1>1 DEF With
    <3>b. [With(c, c.client, s, c.valid) EXCEPT !.valid = v]
            = With(c, c.client, s, v)
      BY DEF With
    <3>1. [[c EXCEPT !.server = s] EXCEPT !.valid = v]
            = With(c, c.client, s, v)
      BY <3>a, <3>b
    <3>2. calls' = [calls EXCEPT ![i] = [[c EXCEPT !.server = s]
                                           EXCEPT !.valid = v]]
      BY <1>5
    <3>. QED BY <3>1, <3>2
  <2>2. With(c, c.client, s, v) \in CallType
    BY <1>1, WithFacts
  <2>. QED BY <1>2, <2>1, <2>2
<1>. QED BY <1>3, <1>4, <1>5

-----------------------------------------------------------------------------
(* The type invariant.  An expiry stays in int64 because the clock is far  *)
(* from its end (service.go 149).                                          *)
Strong == TypeOK /\ clock <= MaxTime

(* Every entry of the calls is a call.                                     *)
LEMMA StrongCalls ==
  ASSUME Strong
  PROVE  /\ calls \in Seq(CallType)
         /\ \A i \in DOMAIN calls : calls[i] \in CallType
<1>1. calls \in Seq(CallType)
  BY DEF Strong, TypeOK, CallType, Clients, Servers
<1>. QED BY <1>1

(* The expiry of Issue (service.go 143-150) as int64 arithmetic: a sum in  *)
(* range is itself, a sum past the end is negative.                        *)
LEMMA WrapFacts ==
  ASSUME NEW n \in Nat, NEW ttl \in TTLs, n <= MaxTime
  PROVE  /\ ttl \in 1..MaxInt
         /\ Wrap(n + ttl) \in (-MaxInt - 1)..MaxInt
         /\ n + ttl > MaxInt => Wrap(n + ttl) < 0
         /\ n + ttl <= MaxInt => Wrap(n + ttl) = n + ttl
BY CapabilityAssumption DEF Wrap

(* A token with its claims changed is a token.                             *)
LEMMA ForgedFacts ==
  ASSUME NEW t \in Tokens
  PROVE  LET f == [t EXCEPT !.genuine = FALSE] IN
         /\ f \in Tokens
         /\ f.id = t.id /\ f.issued = t.issued /\ f.ttl = t.ttl
         /\ f.expires = t.expires /\ f.key = t.key
BY DEF Tokens

(* What Issue signs (service.go 142-160).                                  *)
LEMMA IssueFacts ==
  ASSUME Strong, NEW agent \in Agents, NEW scope \in Scopes, NEW ttl \in TTLs,
         Issue(agent, scope, ttl)
  PROVE  LET n == Len(tokens)
             t == Token(n + 1, agent, scope, ttl)
         IN  /\ t \in Tokens
             /\ t.id = n + 1 /\ t.issued = clock /\ t.ttl = ttl
             /\ t.expires = Wrap(clock + ttl) /\ t.key = life
             /\ n \in Nat /\ DOMAIN tokens = 1..n /\ DOMAIN tokens' = 1..(n + 1)
             /\ tokens' \in Seq(Tokens)
             /\ \A j \in 1..n : tokens'[j] = tokens[j]
             /\ tokens'[n + 1] = t
<1> DEFINE n == Len(tokens)
           t == Token(n + 1, agent, scope, ttl)
<1>1. /\ tokens \in Seq(Tokens) /\ n \in Nat
      /\ clock \in Nat /\ life \in Nat /\ clock <= MaxTime
  BY DEF Strong, TypeOK
<1>2. ttl \in Nat /\ Wrap(clock + ttl) \in (-MaxInt - 1)..MaxInt
  BY <1>1, WrapFacts
<1>3. t \in Tokens /\ t.id = n + 1 /\ t.issued = clock /\ t.ttl = ttl
      /\ t.expires = Wrap(clock + ttl) /\ t.key = life
  BY <1>1, <1>2 DEF Token, Tokens
<1>4. tokens' = Append(tokens, t)
  BY DEF Issue
<1> HIDE DEF t
<1>5. /\ DOMAIN tokens = 1..n /\ DOMAIN tokens' = 1..(n + 1)
      /\ tokens' \in Seq(Tokens)
      /\ \A j \in 1..n : tokens'[j] = tokens[j]
      /\ tokens'[n + 1] = t
  BY <1>1, <1>3, <1>4
<1>. QED BY <1>1, <1>3, <1>5 DEF t

(* What a guard can present is a token, genuine or not (decorators.py      *)
(* 156-167).                                                               *)
LEMMA PresentableFacts ==
  ASSUME Strong, NEW t \in Presentable
  PROVE  /\ t \in Tokens
         /\ \E id \in DOMAIN tokens :
              LET o == tokens[id] IN
              /\ t.id = o.id /\ t.issued = o.issued /\ t.ttl = o.ttl
              /\ t.expires = o.expires /\ t.key = o.key
<1>1. PICK id \in DOMAIN tokens : t = tokens[id]
                                    \/ t = [tokens[id] EXCEPT !.genuine = FALSE]
  BY DEF Presentable
<1>2. tokens[id] \in Tokens
  BY DEF Strong, TypeOK
<1>3. CASE t = tokens[id]
  BY <1>2, <1>3
<1>4. CASE t = [tokens[id] EXCEPT !.genuine = FALSE]
  BY <1>2, <1>4, ForgedFacts
<1>. QED BY <1>1, <1>3, <1>4

(* What Call appends (decorators.py 156-167).                              *)
LEMMA CallFacts ==
  ASSUME Strong, NEW t \in Presentable \cup {NoToken}, NEW a \in Asks, Call(t, a)
  PROVE  LET n == Len(calls) IN
         \E client \in {"waiting", "refused"}, server \in {"none", "received"} :
           /\ (client = "refused") <=> (t = NoToken)
           /\ client = "refused" => server = "none"
           /\ calls' \in Seq(CallType)
           /\ n \in Nat /\ DOMAIN calls = 1..n /\ DOMAIN calls' = 1..(n + 1)
           /\ \A j \in 1..n : calls'[j] = calls[j]
           /\ calls'[n + 1].client = client /\ calls'[n + 1].server = server
           /\ calls'[n + 1].token = t /\ calls'[n + 1].ask = a
           /\ calls'[n + 1].valid = FALSE
           /\ calls'[n + 1].barred = (t.id \in everRevoked)
<1> DEFINE n == Len(calls)
<1>0. calls \in Seq(CallType) /\ n \in Nat
  BY DEF Strong, TypeOK, CallType, Clients, Servers
<1>1. PICK client \in {"waiting", "refused"}, server \in {"none", "received"} :
        /\ client = "refused" <=> t = NoToken
        /\ client = "refused" => server = "none"
        /\ calls' = Append(calls,
             [client |-> client, server |-> server, token |-> t, ask |-> a,
              valid |-> FALSE, barred |-> t.id \in everRevoked])
  BY DEF Call
<1> DEFINE c == [client |-> client, server |-> server, token |-> t, ask |-> a,
                 valid |-> FALSE, barred |-> t.id \in everRevoked]
<1>2. t \in Tokens \cup {NoToken}
  BY PresentableFacts
<1>3. c \in CallType
  BY <1>2 DEF CallType, Clients, Servers
<1>4. /\ c.client = client /\ c.server = server /\ c.token = t /\ c.ask = a
      /\ c.valid = FALSE /\ c.barred = (t.id \in everRevoked)
  OBVIOUS
<1>5. calls' = Append(calls, c)
  BY <1>1
<1> HIDE DEF c
<1>6. /\ calls' \in Seq(CallType)
      /\ DOMAIN calls = 1..n /\ DOMAIN calls' = 1..(n + 1)
      /\ \A j \in 1..n : calls'[j] = calls[j]
      /\ calls'[n + 1] = c
  BY <1>0, <1>3, <1>5
<1>. QED BY <1>0, <1>1, <1>4, <1>6

(* Where each step of handler and guard takes its call (service.go         *)
(* 174-213, decorators.py 156-167).                                        *)
LEMMA CallSteps ==
  ASSUME Strong, NEW i \in DOMAIN calls
  PROVE  LET c == calls[i] IN
         /\ CheckSignature(i) =>
              /\ c.server = "received"
              /\ \/ /\ SignatureOK(c.token)
                    /\ Turns(i, With(c, c.client, "signed", c.valid))
                 \/ /\ ~SignatureOK(c.token)
                    /\ Turns(i, With(c, c.client, "invalid_signature", c.valid))
         /\ CheckExpiry(i) =>
              /\ c.server = "signed"
              /\ \/ /\ ~Expired(c.token)
                    /\ Turns(i, With(c, c.client, "current",
                                     Valid(c.token, c.ask)))
                 \/ /\ Expired(c.token)
                    /\ Turns(i, With(c, c.client, "expired", c.valid))
         /\ CheckRest(i) =>
              /\ c.server = "current"
              /\ Turns(i, With(c, c.client, Refusals(c.token, c.ask), c.valid))
         /\ Answer(i) =>
              \/ /\ c.server = "ok"
                 /\ Turns(i, With(c, "granted", c.server, c.valid))
              \/ Turns(i, With(c, "refused", c.server, c.valid))
         /\ GiveUp(i) => Turns(i, With(c, "refused", c.server, c.valid))
         /\ CutShort(i) => Turns(i, With(c, "broken", c.server, c.valid))
         /\ Run(i) => /\ c.client = "granted"
                      /\ Turns(i, With(c, "ran", c.server, c.valid))
<1> DEFINE c == calls[i]
<1>0. calls \in Seq(CallType)
  BY DEF Strong, TypeOK, CallType, Clients, Servers
<1>1. /\ \A s \in Servers : calls' = [calls EXCEPT ![i].server = s]
            => Turns(i, With(c, c.client, s, c.valid))
      /\ \A cl \in Clients : calls' = [calls EXCEPT ![i].client = cl]
            => Turns(i, With(c, cl, c.server, c.valid))
      /\ \A s \in Servers, v \in BOOLEAN :
            calls' = [calls EXCEPT ![i].server = s, ![i].valid = v]
              => Turns(i, With(c, c.client, s, v))
  BY <1>0, CallTurns
<1>2. CheckSignature(i) =>
        /\ c.server = "received"
        /\ \/ /\ SignatureOK(c.token)
              /\ Turns(i, With(c, c.client, "signed", c.valid))
           \/ /\ ~SignatureOK(c.token)
              /\ Turns(i, With(c, c.client, "invalid_signature", c.valid))
  <2>1. "signed" \in Servers /\ "invalid_signature" \in Servers
    BY DEF Servers, Reasons
  <2>2. CheckSignature(i) =>
          /\ c.server = "received"
          /\ \/ /\ SignatureOK(c.token)
                /\ calls' = [calls EXCEPT ![i].server = "signed"]
             \/ /\ ~SignatureOK(c.token)
                /\ calls' = [calls EXCEPT ![i].server = "invalid_signature"]
    BY DEF CheckSignature, Deny
  <2>. QED BY <1>1, <2>1, <2>2
<1>3. CheckExpiry(i) =>
        /\ c.server = "signed"
        /\ \/ /\ ~Expired(c.token)
              /\ Turns(i, With(c, c.client, "current", Valid(c.token, c.ask)))
           \/ /\ Expired(c.token)
              /\ Turns(i, With(c, c.client, "expired", c.valid))
  <2>1. "current" \in Servers /\ "expired" \in Servers
    BY DEF Servers, Reasons
  <2>2. Valid(c.token, c.ask) \in BOOLEAN
    BY DEF Valid
  <2>3. CheckExpiry(i) =>
          /\ c.server = "signed"
          /\ \/ /\ ~Expired(c.token)
                /\ calls' = [calls EXCEPT ![i].server = "current",
                                          ![i].valid = Valid(c.token, c.ask)]
             \/ /\ Expired(c.token)
                /\ calls' = [calls EXCEPT ![i].server = "expired"]
    BY DEF CheckExpiry, Deny
  <2>. QED BY <1>1, <2>1, <2>2, <2>3
<1>4. CheckRest(i) =>
        /\ c.server = "current"
        /\ Turns(i, With(c, c.client, Refusals(c.token, c.ask), c.valid))
  <2>1. Refusals(c.token, c.ask) \in Servers
    BY DEF Refusals, Servers, Reasons
  <2>2. CheckRest(i) =>
          /\ c.server = "current"
          /\ calls' = [calls EXCEPT ![i].server = Refusals(c.token, c.ask)]
    BY DEF CheckRest, Deny
  <2>. QED BY <1>1, <2>1, <2>2
<1>5. "granted" \in Clients /\ "refused" \in Clients /\ "broken" \in Clients
      /\ "ran" \in Clients
  BY DEF Clients
<1>6. Answer(i) =>
        \/ /\ c.server = "ok"
           /\ Turns(i, With(c, "granted", c.server, c.valid))
        \/ Turns(i, With(c, "refused", c.server, c.valid))
  BY <1>1, <1>5 DEF Answer
<1>7. GiveUp(i) => Turns(i, With(c, "refused", c.server, c.valid))
  BY <1>1, <1>5 DEF GiveUp
<1>8. CutShort(i) => Turns(i, With(c, "broken", c.server, c.valid))
  BY <1>1, <1>5 DEF CutShort
<1>9. Run(i) => /\ c.client = "granted"
                /\ Turns(i, With(c, "ran", c.server, c.valid))
  BY <1>1, <1>5 DEF Run
<1>. QED BY <1>2, <1>3, <1>4, <1>6, <1>7, <1>8, <1>9

(* A restart answers no handler that runs, and changes no other call       *)
(* (service.go 70-77).                                                     *)
LEMMA RestartCalls ==
  ASSUME Strong, Restart
  PROVE  /\ calls' \in Seq(CallType) /\ DOMAIN calls' = DOMAIN calls
         /\ \A i \in DOMAIN calls :
              \/ /\ calls[i].server \notin {"received", "signed", "current"}
                 /\ calls'[i] = calls[i]
              \/ calls'[i] = With(calls[i], calls[i].client, "dead",
                                  calls[i].valid)
<1> DEFINE n == Len(calls)
<1>0. calls \in Seq(CallType) /\ n \in Nat /\ DOMAIN calls = 1..n
  BY DEF Strong, TypeOK, CallType, Clients, Servers
<1>1. ASSUME NEW i \in 1..n
      PROVE  /\ calls[i] \in CallType
             /\ [calls[i] EXCEPT !.server = "dead"]
                  = With(calls[i], calls[i].client, "dead", calls[i].valid)
             /\ With(calls[i], calls[i].client, "dead", calls[i].valid)
                  \in CallType
  <2> DEFINE c == calls[i]
  <2>1. c \in CallType
    BY <1>0
  <2>2. /\ c = [client |-> c.client, server |-> c.server, token |-> c.token,
                ask |-> c.ask, valid |-> c.valid, barred |-> c.barred]
        /\ c.client \in Clients /\ c.valid \in BOOLEAN /\ "dead" \in Servers
    BY <2>1 DEF CallType, Servers
  <2>3. [c EXCEPT !.server = "dead"] = With(c, c.client, "dead", c.valid)
    BY <2>2 DEF With
  <2>4. With(c, c.client, "dead", c.valid) \in CallType
    BY <2>1, <2>2, WithFacts
  <2>. QED BY <2>1, <2>3, <2>4
<1>2. calls' = [i \in DOMAIN calls |->
         IF calls[i].server \in {"received", "signed", "current"}
         THEN [calls[i] EXCEPT !.server = "dead"] ELSE calls[i]]
  BY DEF Restart
<1> HIDE DEF n
<1>3. \A i \in 1..n : calls'[i] =
         IF calls[i].server \in {"received", "signed", "current"}
         THEN With(calls[i], calls[i].client, "dead", calls[i].valid)
         ELSE calls[i]
  BY <1>0, <1>1, <1>2
<1>4. calls' \in Seq(CallType) /\ DOMAIN calls' = 1..n
  <2>1. \A i \in 1..n : calls'[i] \in CallType
    BY <1>1, <1>3
  <2>2. calls' \in [1..n -> CallType]
    BY <1>0, <1>2, <2>1
  <2>. QED BY <1>0, <2>2
<1>. QED BY <1>0, <1>3, <1>4

(* Every step keeps the types (service.go 142-213).                        *)
LEMMA TypeStep == Strong /\ [Next]_vars => Strong'
<1> SUFFICES ASSUME Strong, [Next]_vars PROVE Strong'
  OBVIOUS
<1>0. /\ clock \in Nat /\ life \in Nat /\ clock <= MaxTime /\ MaxTime \in Nat
      /\ rejections \in Nat /\ unauthorized \in Nat /\ calls \in Seq(CallType)
      /\ tokens \in Seq(Tokens)
  BY CapabilityAssumption DEF Strong, TypeOK, CallType, Clients, Servers
<1>1. calls' \in Seq(CallType)
  <2>1. ASSUME NEW i, NEW c, Turns(i, c) PROVE calls' \in Seq(CallType)
    BY <2>1 DEF Turns
  <2>2. ASSUME NEW i \in DOMAIN calls,
               \/ CheckSignature(i) \/ CheckExpiry(i) \/ CheckRest(i)
               \/ Answer(i) \/ GiveUp(i) \/ CutShort(i) \/ Run(i)
        PROVE  calls' \in Seq(CallType)
    <3>1. \E c : Turns(i, c)
      BY <2>2, CallSteps
    <3>. QED BY <2>1, <3>1
  <2>3. ASSUME NEW t \in Presentable \cup {NoToken}, NEW a \in Asks, Call(t, a)
        PROVE  calls' \in Seq(CallType)
    BY <2>3, CallFacts
  <2>. QED BY <1>0, <2>2, <2>3, RestartCalls
              DEF Next, Tick, ChangeAgents, Issue, Revoke, vars
<1>2. ASSUME NEW agent \in Agents, NEW scope \in Scopes, NEW ttl \in TTLs,
             Issue(agent, scope, ttl)
      PROVE  Strong'
  <2>1. tokens' \in Seq(Tokens) /\ DOMAIN tokens \subseteq DOMAIN tokens'
    BY <1>2, IssueFacts
  <2>. QED BY <1>1, <1>2, <2>1
              DEF Issue, Strong, TypeOK, CallType, Clients, Servers
<1>3. ASSUME ~\E agent \in Agents, scope \in Scopes, ttl \in TTLs :
               Issue(agent, scope, ttl)
      PROVE  Strong'
  <2>1. tokens' = tokens
    BY <1>3 DEF Next, Tick, Restart, ChangeAgents, Revoke, Call, CheckSignature,
       CheckExpiry, CheckRest, Answer, GiveUp, CutShort, Run, vars
  <2>2. clock' \in Nat /\ clock' <= MaxTime /\ life' \in Nat
    <3>1. clock' = clock \/ (clock < MaxTime /\ clock' = clock + 1)
      BY <1>3 DEF Next, Tick, Restart, ChangeAgents, Revoke, Call,
         CheckSignature, CheckExpiry, CheckRest, Answer, GiveUp, CutShort, Run,
         vars
    <3>2. life' \in {life, life + 1}
      BY <1>3 DEF Next, Tick, Restart, ChangeAgents, Revoke, Call,
         CheckSignature, CheckExpiry, CheckRest, Answer, GiveUp, CutShort, Run,
         vars
    <3>. QED BY <1>0, <3>1, <3>2
  <2>3. /\ agents' \subseteq Agents
        /\ revoked' \subseteq everRevoked'
        /\ everRevoked' \subseteq DOMAIN tokens
    BY <1>3 DEF Next, Tick, Restart, ChangeAgents, Revoke, Call,
       CheckSignature, CheckExpiry, CheckRest, Answer, GiveUp, CutShort, Run,
       vars, Strong, TypeOK
  <2>4. rejections' \in Nat /\ unauthorized' \in Nat
    <3>1. rejections' \in {rejections, rejections + 1}
      BY <1>3 DEF Next, Tick, Restart, ChangeAgents, Revoke, Call, Deny,
         CheckSignature, CheckExpiry, CheckRest, Answer, GiveUp, CutShort, Run,
         vars
    <3>2. unauthorized' \in {unauthorized, unauthorized + 1}
      BY <1>3 DEF Next, Tick, Restart, ChangeAgents, Revoke, Call,
         CheckSignature, CheckExpiry, CheckRest, Answer, GiveUp, CutShort, Run,
         vars
    <3>. QED BY <1>0, <3>1, <3>2
  <2>. QED BY <1>0, <1>1, <2>1, <2>2, <2>3, <2>4
              DEF Strong, TypeOK, CallType, Clients, Servers
<1>. QED BY <1>2, <1>3

(* A new service (NewService, service.go 55-94) has its types.             *)
LEMMA TypeInit == Init => Strong
BY CapabilityAssumption DEF Init, Strong, TypeOK

(* Type correctness of service and guard: above all, every expiry is an    *)
(* int64, wrapped or not (service.go 149).                                 *)
THEOREM CapabilityTypeCorrect == Spec => []TypeOK
<1>1. Strong => TypeOK
  BY DEF Strong
<1>. QED BY <1>1, TypeInit, TypeStep, PTL DEF Spec

-----------------------------------------------------------------------------
(* The inductive invariant.  Its parts take the state they speak of as     *)
(* parameters, so that they can be carried from one state to the next.     *)

(* A token's claims are the issuer's, and what the service has revoked in  *)
(* the life that signed it, it still remembers (service.go 142-160,        *)
(* revocation.go 11-25).                                                   *)
TokenFits(t, now, lf, ids, rev, ever) ==
  /\ t.id \in ids
  /\ t.expires = Wrap(t.issued + t.ttl)
  /\ t.issued \in 0..MaxTime /\ t.ttl \in 1..MaxInt
  /\ t.key \in Nat /\ t.key <= lf
  /\ t.id \in ever /\ t.key = lf => t.id \in rev

(* The last checks find something to refuse.                               *)
Flawed(t, a, rev) ==
  \/ t.id \in rev
  \/ t.agent # a.agent
  \/ ~Contains(t.scope.actions, a.action)
  \/ ~Contains(t.scope.targets, a.target)

(* What a refusal says is so (service.go 189-213).                         *)
ReasonHolds(reason, t, a, now, lf, ever) ==
  /\ reason = "invalid_signature" => ~t.genuine \/ t.key < lf
  /\ reason = "expired" => \/ t.issued + t.ttl > MaxInt
                           \/ now >= t.issued + t.ttl
  /\ reason = "revoked" => t.id \in ever
  /\ reason = "agent_mismatch" => t.agent # a.agent
  /\ reason = "action_type_not_allowed" =>
       ~Contains(t.scope.actions, a.action)
  /\ reason = "target_not_allowed" => ~Contains(t.scope.targets, a.target)

(* How far Verify is with a call says what it has seen (service.go         *)
(* 174-213, decorators.py 156-167).                                        *)
CallFits(c, now, lf, ids, rev, ever) ==
  /\ c.token # NoToken => TokenFits(c.token, now, lf, ids, rev, ever)
  /\ c.server # "none" => c.token # NoToken
  /\ c.server \in {"signed", "current"} => c.token.genuine /\ c.token.key = lf
  /\ c.server = "current" => c.valid \/ Flawed(c.token, c.ask, rev)
  /\ c.server = "ok" => c.valid /\ ~c.barred
  /\ c.client \in {"granted", "ran"} => c.server = "ok"
  /\ c.barred => c.token.id \in ever
  /\ ReasonHolds(c.server, c.token, c.ask, now, lf, ever)

TokensFit ==
  \A id \in DOMAIN tokens :
    TokenFits(tokens[id], clock, life, DOMAIN tokens, revoked, everRevoked)

CallsFit ==
  \A i \in DOMAIN calls :
    CallFits(calls[i], clock, life, DOMAIN tokens, revoked, everRevoked)

(* How the state a call depends on can change: time passes, ids and        *)
(* revocations are added, and a new life forgets the revocations together  *)
(* with the key (revocation.go 11-25, service.go 70-77).                   *)
Evolves ==
  /\ clock' >= clock /\ clock' \in Nat /\ life' \in Nat
  /\ DOMAIN tokens \subseteq DOMAIN tokens'
  /\ everRevoked \subseteq everRevoked'
  /\ \/ /\ life' = life /\ revoked \subseteq revoked'
        /\ everRevoked' \subseteq everRevoked \cup revoked'
     \/ life' = life + 1

(* Every step is such a change, and only a restart starts a new life.      *)
LEMMA StepEvolves ==
  ASSUME Strong, [Next]_vars
  PROVE  Evolves /\ (life' = life \/ Restart)
<1>0. clock \in Nat /\ life \in Nat /\ clock' \in Nat /\ life' \in Nat
  BY TypeStep DEF Strong, TypeOK
<1>1. ASSUME NEW agent \in Agents, NEW scope \in Scopes, NEW ttl \in TTLs,
             Issue(agent, scope, ttl)
      PROVE  DOMAIN tokens \subseteq DOMAIN tokens'
  BY <1>1, IssueFacts
<1>2. DOMAIN tokens \subseteq DOMAIN tokens'
  BY <1>1 DEF Next, Tick, Restart, ChangeAgents, Revoke, Call, CheckSignature,
     CheckExpiry, CheckRest, Answer, GiveUp, CutShort, Run, vars
<1>3. clock' = clock \/ clock' = clock + 1
  BY DEF Next, Tick, Restart, ChangeAgents, Issue, Revoke, Call, CheckSignature,
     CheckExpiry, CheckRest, Answer, GiveUp, CutShort, Run, vars
<1>4. /\ everRevoked \subseteq everRevoked'
      /\ \/ /\ life' = life /\ revoked \subseteq revoked'
            /\ everRevoked' \subseteq everRevoked \cup revoked'
         \/ life' = life + 1 /\ Restart
  BY DEF Next, Tick, Restart, ChangeAgents, Issue, Revoke, Call, CheckSignature,
     CheckExpiry, CheckRest, Answer, GiveUp, CutShort, Run, vars
<1>. QED BY <1>0, <1>2, <1>3, <1>4 DEF Evolves

(* What is known of an issued token stays true as time passes, ids and     *)
(* revocations are added, and lives begin (service.go 132-162).            *)
LEMMA TokenStays ==
  ASSUME NEW t, life \in Nat, Evolves,
         TokenFits(t, clock, life, DOMAIN tokens, revoked, everRevoked)
  PROVE  TokenFits(t, clock', life', DOMAIN tokens', revoked', everRevoked')
BY DEF Evolves, TokenFits

(* A call that does not move itself is not disturbed by the others, unless *)
(* a restart ends its handler.                                             *)
LEMMA CallStays ==
  ASSUME NEW c, clock \in Nat, life \in Nat, Evolves,
         c.server \in {"signed", "current"} => life' = life,
         CallFits(c, clock, life, DOMAIN tokens, revoked, everRevoked)
  PROVE  CallFits(c, clock', life', DOMAIN tokens', revoked', everRevoked')
<1>1. c.token # NoToken =>
        /\ TokenFits(c.token, clock', life', DOMAIN tokens', revoked',
                     everRevoked')
        /\ c.token.issued \in Nat /\ c.token.ttl \in Nat
        /\ c.token.key \in Nat /\ c.token.key <= life
  <2>1. c.token # NoToken =>
          TokenFits(c.token, clock, life, DOMAIN tokens, revoked, everRevoked)
    BY DEF CallFits
  <2>. QED BY <2>1, TokenStays, CapabilityAssumption DEF TokenFits
<1>2. /\ c.server # "none" => c.token # NoToken
      /\ c.server \in {"signed", "current"}
           => c.token.genuine /\ c.token.key = life'
      /\ c.server = "ok" => c.valid /\ ~c.barred
      /\ c.client \in {"granted", "ran"} => c.server = "ok"
      /\ c.barred => c.token.id \in everRevoked'
  BY DEF CallFits, Evolves
<1>3. c.server = "current" => c.valid \/ Flawed(c.token, c.ask, revoked')
  <2>1. c.server = "current" => revoked \subseteq revoked'
    BY DEF Evolves
  <2>. QED BY <2>1 DEF CallFits, Flawed
<1>4. ReasonHolds(c.server, c.token, c.ask, clock', life', everRevoked')
  <2>1. ReasonHolds(c.server, c.token, c.ask, clock, life, everRevoked)
    BY DEF CallFits
  <2>2. life' \in Nat /\ life' >= life /\ clock' \in Nat /\ clock' >= clock
        /\ everRevoked \subseteq everRevoked'
    BY DEF Evolves
  <2>. QED BY <1>1, <1>2, <2>1, <2>2 DEF ReasonHolds
<1>. QED BY <1>1, <1>2, <1>3, <1>4 DEF CallFits

(* Every token stays as it was signed (service.go 142-160).                *)
LEMMA TokensFitStep ==
  ASSUME Strong, TokensFit, [Next]_vars
  PROVE  TokensFit'
<1>0. /\ clock \in Nat /\ life \in Nat /\ clock <= MaxTime /\ MaxTime \in Nat
      /\ everRevoked \subseteq DOMAIN tokens
  BY CapabilityAssumption DEF Strong, TypeOK
<1>1. ASSUME NEW id \in DOMAIN tokens
      PROVE  TokenFits(tokens[id], clock', life', DOMAIN tokens', revoked',
                       everRevoked')
  BY <1>0, StepEvolves, TokenStays DEF TokensFit
<1>2. ASSUME NEW agent \in Agents, NEW scope \in Scopes, NEW ttl \in TTLs,
             Issue(agent, scope, ttl)
      PROVE  TokensFit'
  <2> DEFINE n == Len(tokens)
             t == Token(n + 1, agent, scope, ttl)
  <2>1. /\ t.id = n + 1 /\ t.issued = clock /\ t.ttl = ttl
        /\ t.expires = Wrap(clock + ttl) /\ t.key = life
        /\ n \in Nat /\ DOMAIN tokens = 1..n /\ DOMAIN tokens' = 1..(n + 1)
        /\ \A j \in 1..n : tokens'[j] = tokens[j]
        /\ tokens'[n + 1] = t
    BY <1>2, IssueFacts
  <2>2. ttl \in 1..MaxInt
    BY <1>0, WrapFacts
  <2>3. everRevoked' = everRevoked /\ life' = life /\ clock' = clock
    BY <1>2 DEF Issue
  <2> HIDE DEF t, n
  <2>4. t.id \in DOMAIN tokens' /\ t.id \notin everRevoked'
    BY <1>0, <2>1, <2>3
  <2>5. TokenFits(t, clock', life', DOMAIN tokens', revoked', everRevoked')
    BY <1>0, <2>1, <2>2, <2>3, <2>4 DEF TokenFits
  <2>6. \A id \in DOMAIN tokens' :
          \/ id \in DOMAIN tokens /\ tokens'[id] = tokens[id]
          \/ tokens'[id] = t
    BY <2>1
  <2>. QED BY <1>1, <2>5, <2>6 DEF TokensFit
<1>3. CASE tokens' = tokens
  BY <1>1, <1>3 DEF TokensFit
<1>. QED
  BY <1>2, <1>3 DEF Next, Tick, Restart, ChangeAgents, Revoke, Call,
     CheckSignature, CheckExpiry, CheckRest, Answer, GiveUp, CutShort, Run, vars

(* A step of Verify lets a call on, or refuses it, for what it sees now    *)
(* and will stay so (service.go 174-213).                                  *)
LEMMA VerifyFits ==
  ASSUME Strong, NEW i \in DOMAIN calls,
         CallFits(calls[i], clock, life, DOMAIN tokens, revoked, everRevoked),
         CheckSignature(i) \/ CheckExpiry(i) \/ CheckRest(i)
  PROVE  \E new : /\ Turns(i, new)
                  /\ CallFits(new, clock, life, DOMAIN tokens, revoked,
                              everRevoked)
<1> DEFINE c == calls[i]
           t == c.token
           a == c.ask
<1>0. /\ c \in CallType /\ c.client \in Clients /\ c.valid \in BOOLEAN
      /\ c.client \notin {"granted", "ran"} \/ c.server = "ok"
      /\ clock \in Nat /\ life \in Nat /\ MaxInt \in Nat
  <2>1. c \in CallType
    BY StrongCalls
  <2>. QED BY <2>1, CapabilityAssumption
              DEF Strong, TypeOK, CallFits, CallType, Clients
<1>t. c.server \in {"received", "signed", "current"} =>
        /\ t # NoToken
        /\ TokenFits(t, clock, life, DOMAIN tokens, revoked, everRevoked)
        /\ c.barred => t.id \in everRevoked
  BY DEF CallFits
<1>w. ASSUME NEW s \in Servers, NEW v \in BOOLEAN
      PROVE  LET w == With(c, c.client, s, v) IN
             /\ w.client = c.client /\ w.server = s /\ w.valid = v
             /\ w.token = t /\ w.ask = a /\ w.barred = c.barred
  BY <1>0, WithFacts
<1>1. CASE CheckSignature(i)
  <2>0. c.server = "received" /\ c.client \notin {"granted", "ran"}
        /\ "signed" \in Servers /\ "invalid_signature" \in Servers
    BY <1>0, <1>1 DEF CheckSignature, Servers, Reasons
  <2>1. CASE /\ SignatureOK(t)
             /\ Turns(i, With(c, c.client, "signed", c.valid))
    <3> DEFINE w == With(c, c.client, "signed", c.valid)
    <3>1. /\ w.client = c.client /\ w.server = "signed" /\ w.valid = c.valid
          /\ w.token = t /\ w.ask = a /\ w.barred = c.barred
      BY <1>0, <1>w, <2>0
    <3> HIDE DEF w
    <3>2. t.genuine /\ t.key = life
      BY <2>1 DEF SignatureOK
    <3>3. CallFits(w, clock, life, DOMAIN tokens, revoked, everRevoked)
      BY <1>t, <2>0, <3>1, <3>2 DEF CallFits, ReasonHolds
    <3>. QED BY <2>1, <3>3 DEF w
  <2>2. CASE /\ ~SignatureOK(t)
             /\ Turns(i, With(c, c.client, "invalid_signature", c.valid))
    <3> DEFINE w == With(c, c.client, "invalid_signature", c.valid)
    <3>1. /\ w.client = c.client /\ w.server = "invalid_signature"
          /\ w.valid = c.valid
          /\ w.token = t /\ w.ask = a /\ w.barred = c.barred
      BY <1>0, <1>w, <2>0
    <3> HIDE DEF w
    <3>2. ~t.genuine \/ t.key < life
      BY <1>0, <1>t, <2>0, <2>2 DEF SignatureOK, TokenFits
    <3>3. CallFits(w, clock, life, DOMAIN tokens, revoked, everRevoked)
      BY <1>t, <2>0, <3>1, <3>2 DEF CallFits, ReasonHolds
    <3>. QED BY <2>2, <3>3 DEF w
  <2>. QED BY <1>1, <2>1, <2>2, CallSteps
<1>2. CASE CheckExpiry(i)
  <2>0. c.server = "signed" /\ c.client \notin {"granted", "ran"}
        /\ "current" \in Servers /\ "expired" \in Servers
        /\ t.genuine /\ t.key = life
    BY <1>0, <1>2 DEF CheckExpiry, Servers, Reasons, CallFits
  <2>1. CASE /\ ~Expired(t)
             /\ Turns(i, With(c, c.client, "current", Valid(t, a)))
    <3> DEFINE v == Valid(t, a)
               w == With(c, c.client, "current", v)
    <3>0. v \in BOOLEAN
      BY DEF Valid
    <3>1. /\ w.client = c.client /\ w.server = "current" /\ w.valid = v
          /\ w.token = t /\ w.ask = a /\ w.barred = c.barred
      BY <1>0, <1>w, <2>0, <3>0
    <3>2. clock < t.issued + t.ttl
      <4>1. /\ clock < t.expires /\ t.expires = Wrap(t.issued + t.ttl)
            /\ t.issued \in 0..MaxTime /\ t.ttl \in 1..MaxInt
        <5>1. t.expires \in Int
          BY <1>0, <1>t, <2>0 DEF CallType, Tokens
        <5>. QED BY <1>0, <1>t, <2>0, <2>1, <5>1 DEF Expired, TokenFits
      <4>. QED BY <1>0, <4>1, CapabilityAssumption DEF Wrap
    <3>3. v \/ Flawed(t, a, revoked)
      BY <1>t, <2>0, <3>2 DEF Valid, Flawed, Contains, TokenFits
    <3> HIDE DEF v, w
    <3>4. CallFits(w, clock, life, DOMAIN tokens, revoked, everRevoked)
      BY <1>t, <2>0, <3>1, <3>3 DEF CallFits, ReasonHolds
    <3>. QED BY <2>1, <3>4 DEF w, v
  <2>2. CASE /\ Expired(t)
             /\ Turns(i, With(c, c.client, "expired", c.valid))
    <3> DEFINE w == With(c, c.client, "expired", c.valid)
    <3>1. /\ w.client = c.client /\ w.server = "expired" /\ w.valid = c.valid
          /\ w.token = t /\ w.ask = a /\ w.barred = c.barred
      BY <1>0, <1>w, <2>0
    <3> HIDE DEF w
    <3>2. t.issued + t.ttl > MaxInt \/ clock >= t.issued + t.ttl
      BY <1>0, <1>t, <2>0, <2>2, CapabilityAssumption
         DEF Expired, TokenFits, Wrap
    <3>3. CallFits(w, clock, life, DOMAIN tokens, revoked, everRevoked)
      BY <1>t, <2>0, <3>1, <3>2 DEF CallFits, ReasonHolds
    <3>. QED BY <2>2, <3>3 DEF w
  <2>. QED BY <1>2, <2>1, <2>2, CallSteps
<1>3. CASE CheckRest(i)
  <2> DEFINE s == Refusals(t, a)
             w == With(c, c.client, s, c.valid)
  <2>0. c.server = "current" /\ c.client \notin {"granted", "ran"}
        /\ t.key = life /\ (c.valid \/ Flawed(t, a, revoked))
    BY <1>0, <1>3 DEF CheckRest, CallFits
  <2>1. s \in Servers /\ s \notin {"none", "signed", "current", "expired",
                                   "invalid_signature"}
    BY DEF Refusals, Servers, Reasons
  <2>2. /\ w.client = c.client /\ w.server = s /\ w.valid = c.valid
        /\ w.token = t /\ w.ask = a /\ w.barred = c.barred
    BY <1>0, <1>w, <2>1
  <2>3. s = "ok" => c.valid /\ ~c.barred
    BY <1>t, <2>0 DEF Refusals, Flawed, TokenFits
  <2>4. ReasonHolds(s, t, a, clock, life, everRevoked)
    <3>1. revoked \subseteq everRevoked
      BY DEF Strong, TypeOK
    <3>. QED BY <2>1, <3>1 DEF Refusals, ReasonHolds
  <2>5. Turns(i, w)
    BY <1>3, CallSteps
  <2> HIDE DEF s, w
  <2>6. CallFits(w, clock, life, DOMAIN tokens, revoked, everRevoked)
    BY <1>t, <2>0, <2>1, <2>2, <2>3, <2>4 DEF CallFits
  <2>. QED BY <2>5, <2>6
<1>. QED BY <1>1, <1>2, <1>3

(* The guard takes nothing for granted that Verify did not answer          *)
(* (decorators.py 156-167).                                                *)
LEMMA GuardFits ==
  ASSUME Strong, NEW i \in DOMAIN calls,
         CallFits(calls[i], clock, life, DOMAIN tokens, revoked, everRevoked),
         Answer(i) \/ GiveUp(i) \/ CutShort(i) \/ Run(i)
  PROVE  \E new : /\ Turns(i, new)
                  /\ CallFits(new, clock, life, DOMAIN tokens, revoked,
                              everRevoked)
<1> DEFINE c == calls[i]
<1>0. c \in CallType /\ c.server \in Servers /\ c.valid \in BOOLEAN
  <2>1. c \in CallType
    BY StrongCalls
  <2>. QED BY <2>1 DEF CallType
<1>1. PICK client \in {"granted", "refused", "broken", "ran"} :
        /\ Turns(i, With(c, client, c.server, c.valid))
        /\ client \in {"granted", "ran"} => c.server = "ok"
  BY CallSteps DEF CallFits
<1> DEFINE w == With(c, client, c.server, c.valid)
<1>2. /\ w.client = client /\ w.server = c.server /\ w.valid = c.valid
      /\ w.token = c.token /\ w.ask = c.ask /\ w.barred = c.barred
  BY <1>0, <1>1, WithFacts DEF Clients
<1> HIDE DEF w
<1>3. CallFits(w, clock, life, DOMAIN tokens, revoked, everRevoked)
  BY <1>1, <1>2 DEF CallFits
<1>. QED BY <1>1, <1>3 DEF w

(* No step of any caller, verifier, clock or revoker undoes what a call    *)
(* knows at its program point (Verify, service.go 177-215, and the guard,  *)
(* decorators.py 142-171).                                                 *)
LEMMA CallsFitStep ==
  ASSUME Strong, TokensFit, CallsFit, [Next]_vars
  PROVE  CallsFit'
<1>0. clock \in Nat /\ life \in Nat /\ Evolves
      /\ everRevoked \subseteq DOMAIN tokens
  BY StepEvolves DEF Strong, TypeOK
<1> DEFINE Fits(c) ==
      CallFits(c, clock, life, DOMAIN tokens, revoked, everRevoked)
           FitsNext(c) ==
      CallFits(c, clock', life', DOMAIN tokens', revoked', everRevoked')
<1>s. ASSUME NEW i \in DOMAIN calls,
             calls[i].server \in {"signed", "current"} => life' = life
      PROVE  FitsNext(calls[i])
  BY <1>0, <1>s, CallStays DEF CallsFit
<1>g. (\A i \in DOMAIN calls' : FitsNext(calls'[i])) => CallsFit'
  BY DEF CallsFit
<1>1. ASSUME NEW i \in DOMAIN calls,
             \/ CheckSignature(i) \/ CheckExpiry(i) \/ CheckRest(i)
             \/ Answer(i) \/ GiveUp(i) \/ CutShort(i) \/ Run(i)
      PROVE  CallsFit'
  <2>1. UNCHANGED <<clock, life, tokens, revoked, everRevoked>>
    BY <1>1 DEF CheckSignature, CheckExpiry, CheckRest, Answer, GiveUp,
       CutShort, Run
  <2>2. PICK new : Turns(i, new) /\ Fits(new)
    BY <1>1, VerifyFits, GuardFits DEF CallsFit
  <2>3. FitsNext(new)
    BY <2>1, <2>2
  <2>4. \A j \in DOMAIN calls \ {i} : FitsNext(calls[j])
    BY <1>s, <2>1
  <2> HIDE DEF Fits, FitsNext
  <2>. QED BY <1>g, <2>2, <2>3, <2>4 DEF Turns
<1>2. ASSUME NEW t \in Presentable \cup {NoToken}, NEW a \in Asks, Call(t, a)
      PROVE  CallsFit'
  <2> DEFINE n == Len(calls)
             c == calls'[n + 1]
  <2>1. PICK client \in {"waiting", "refused"}, server \in {"none", "received"} :
           /\ client = "refused" <=> t = NoToken
           /\ client = "refused" => server = "none"
           /\ n \in Nat /\ DOMAIN calls = 1..n /\ DOMAIN calls' = 1..(n + 1)
           /\ \A j \in 1..n : calls'[j] = calls[j]
           /\ c.client = client /\ c.server = server
           /\ c.token = t /\ c.ask = a
           /\ c.valid = FALSE
           /\ c.barred = (t.id \in everRevoked)
    BY <1>2, CallFacts
  <2>2. UNCHANGED <<clock, life, tokens, revoked, everRevoked>>
    BY <1>2 DEF Call
  <2>3. t # NoToken =>
          TokenFits(t, clock, life, DOMAIN tokens, revoked, everRevoked)
    <3> SUFFICES ASSUME t # NoToken
                 PROVE  TokenFits(t, clock, life, DOMAIN tokens, revoked,
                                  everRevoked)
      OBVIOUS
    <3>1. PICK id \in DOMAIN tokens :
            LET o == tokens[id] IN
            /\ t.id = o.id /\ t.issued = o.issued /\ t.ttl = o.ttl
            /\ t.expires = o.expires /\ t.key = o.key
      BY PresentableFacts
    <3>2. TokenFits(tokens[id], clock, life, DOMAIN tokens, revoked,
                    everRevoked)
      BY DEF TokensFit
    <3>. QED BY <3>1, <3>2 DEF TokenFits
  <2> HIDE DEF c, n
  <2>4. Fits(c)
    BY <2>1, <2>3 DEF CallFits, ReasonHolds
  <2>5. FitsNext(c)
    BY <2>2, <2>4
  <2>6. \A j \in 1..n : FitsNext(calls'[j])
    BY <1>s, <2>1, <2>2
  <2> HIDE DEF Fits, FitsNext
  <2>7. \A j \in DOMAIN calls' : FitsNext(calls'[j])
    <3>1. \A j \in DOMAIN calls' : j \in 1..n \/ j = n + 1
      BY <2>1
    <3>. QED BY <2>5, <2>6, <3>1 DEF c
  <2>. QED BY <1>g, <2>7
<1>3. CASE Restart
  <2>1. DOMAIN calls' = DOMAIN calls
    BY <1>3, RestartCalls
  <2> SUFFICES ASSUME NEW i \in DOMAIN calls
               PROVE  FitsNext(calls'[i])
    BY <1>g, <2>1
  <2>2. CASE /\ calls[i].server \notin {"received", "signed", "current"}
             /\ calls'[i] = calls[i]
    BY <1>s, <2>2
  <2>3. CASE calls'[i] = With(calls[i], calls[i].client, "dead", calls[i].valid)
             /\ calls[i].server \in {"received", "signed", "current"}
    <3> DEFINE c == calls[i]
               w == calls'[i]
    <3>1. c \in CallType /\ c.client \in Clients /\ c.valid \in BOOLEAN
          /\ "dead" \in Servers
      <4>1. c \in CallType
        BY StrongCalls
      <4>. QED BY <4>1 DEF CallType, Servers
    <3>2. /\ w.client = c.client /\ w.server = "dead" /\ w.valid = c.valid
          /\ w.token = c.token /\ w.ask = c.ask /\ w.barred = c.barred
      BY <2>3, <3>1, WithFacts
    <3>3. /\ c.client \notin {"granted", "ran"}
          /\ c.token # NoToken
          /\ TokenFits(c.token, clock, life, DOMAIN tokens, revoked, everRevoked)
          /\ c.barred => c.token.id \in everRevoked
      BY <2>3 DEF CallsFit, CallFits
    <3>4. /\ TokenFits(c.token, clock', life', DOMAIN tokens', revoked',
                       everRevoked')
          /\ c.barred => c.token.id \in everRevoked'
      BY <1>0, <3>3, TokenStays DEF Evolves
    <3> HIDE DEF c, w
    <3>5. FitsNext(w)
      BY <3>2, <3>3, <3>4 DEF CallFits, ReasonHolds
    <3>. QED BY <3>5 DEF w
  <2>. QED BY <1>3, <2>2, <2>3, RestartCalls DEF Restart
<1>4. CASE UNCHANGED calls /\ ~Restart
  <2>1. life' = life
    BY <1>4, StepEvolves
  <2>. QED BY <1>g, <1>s, <1>4, <2>1
<1>. QED
  BY <1>1, <1>2, <1>3, <1>4 DEF Next, Tick, ChangeAgents, Issue, Revoke, vars

(* The three promises of Verify and the guard, from one invariant.         *)
LEMMA FitsIsInvariant == Spec => [](Strong /\ TokensFit /\ CallsFit)
<1>1. Init => TokensFit /\ CallsFit
  BY DEF Init, TokensFit, CallsFit
<1>. QED
  BY <1>1, TypeInit, TypeStep, TokensFitStep, CallsFitStep, PTL DEF Spec

(* The four looks Verify takes, with restarts, revocations and time in     *)
(* between, let a call through only if one look at everything would have   *)
(* at some moment of the call; an expiry that overflowed lets nothing      *)
(* through (service.go 142-149, 189-213; decorators.py 156-167).           *)
THEOREM GrantIsValid == Spec => []GrantedMeansValid
<1>1. CallsFit => GrantedMeansValid
  BY DEF CallsFit, CallFits, GrantedMeansValid
<1>. QED BY <1>1, FitsIsInvariant, PTL

(* A token revoked before a call never lets it through, although a restart *)
(* forgets every revocation (revocation.go 11-25, service.go 70-77).       *)
THEOREM RevocationIsFinal == Spec => []RevokedStaysDead
<1>1. CallsFit => RevokedStaysDead
  BY DEF CallsFit, CallFits, RevokedStaysDead
<1>. QED BY <1>1, FitsIsInvariant, PTL

(* Verify refuses no token that is valid still, unless its ttl overflowed  *)
(* (service.go 149, 189-213).                                              *)
THEOREM RefusalIsDeserved == Spec => []OnlyInvalidRefused
<1>1. Strong /\ CallsFit => OnlyInvalidRefused
  <2> SUFFICES ASSUME Strong, CallsFit, NEW i \in DOMAIN calls,
                      calls[i].server \in Reasons,
                      Valid(calls[i].token, calls[i].ask)
               PROVE  calls[i].token.issued + calls[i].token.ttl > MaxInt
    BY DEF OnlyInvalidRefused
  <2> DEFINE t == calls[i].token
             a == calls[i].ask
  <2>1. /\ ReasonHolds(calls[i].server, t, a, clock, life, everRevoked)
        /\ TokenFits(t, clock, life, DOMAIN tokens, revoked, everRevoked)
    BY DEF CallsFit, CallFits, Reasons
  <2>2. t.issued \in Nat /\ t.ttl \in Nat /\ t.key \in Nat /\ life \in Nat
        /\ clock \in Nat
    BY <2>1, CapabilityAssumption DEF TokenFits, Strong, TypeOK
  <2>. QED BY <2>1, <2>2 DEF ReasonHolds, Valid, Contains, Reasons
<1>. QED BY <1>1, FitsIsInvariant, PTL

=============================================================================
