----------------------------- MODULE Capability -----------------------------
(***************************************************************************)
(* Capability tokens: the Go service that issues, verifies and revokes     *)
(* them (internal/capability) and the Python guard that asks it before     *)
(* every call of a decorated function (requires_token, TokenClient).       *)
(*                                                                         *)
(* calls[i] is one call of a guarded function: the guard on the client,    *)
(* and the Verify handler that runs for it on the server, which goes on    *)
(* when the guard has given up.  A signature is the life of the process    *)
(* whose key made it and whether the claims are the ones it was made for.  *)
(***************************************************************************)
EXTENDS Integers, Sequences

CONSTANTS
  Agents,      (* agents that the keystore may hold                         *)
  Wildcard,
  Scopes,      (* what tokens are asked for: [actions, targets] sets       *)
  Asks,        (* what guards ask: [agent, action, target]                 *)
  TTLs,        (* ttl_seconds of issue requests; those above 0             *)
  MaxInt,      (* the largest int64                                        *)
  MaxTime, MaxTokens, MaxCalls, MaxLives     (* bounds of the model        *)

ASSUME CapabilityAssumption ==
  /\ {MaxInt, MaxTime, MaxTokens, MaxCalls, MaxLives} \subseteq Nat
  /\ MaxTime < MaxInt
  /\ TTLs \subseteq 1..MaxInt

VARIABLES
  clock,         (* Service.clock().Unix()                                 *)
  life,          (* which start of the process; it owns one signing key    *)
  agents,        (* the agents in the keystore                             *)
  tokens,        (* every token issued; its position is its token_id       *)
  revoked,       (* MemoryStore.ids                                        *)
  rejections,    (* events RecordRejection was asked to publish            *)
  unauthorized,  (* UnauthorizedMetrics of the client                      *)
  calls,
  everRevoked    (* history: the ids ever passed to Revoke                 *)

vars == <<clock, life, agents, tokens, revoked, rejections, unauthorized,
          calls, everRevoked>>

NoToken == [id |-> 0]

(* Claims that do not parse are refused like claims that were changed.     *)
Reasons == {"invalid_signature", "expired", "revoked", "agent_mismatch",
            "action_type_not_allowed", "target_not_allowed"}

(* int64 addition of two numbers that are not negative.                    *)
WrapNever(n) == n
Wrap(n) == IF n > MaxInt THEN n - 2 * (MaxInt + 1) ELSE n

(* ttl is not a claim: it remembers what the issuer asked for.             *)
Token(id, agent, scope, ttl) ==
  [id |-> id, agent |-> agent, scope |-> scope, issued |-> clock,
   ttl |-> ttl, expires |-> Wrap(clock + ttl), key |-> life, genuine |-> TRUE]

(* What a guard can find in its token_context: a token as issued, or one   *)
(* whose claims are no longer the signed ones.                             *)
Presentable ==
  UNION {{t, [t EXCEPT !.genuine = FALSE]} :
         t \in {tokens[id] : id \in DOMAIN tokens}}

Init ==
  /\ clock = 0 /\ life = 1
  /\ agents = Agents
  /\ tokens = <<>>
  /\ revoked = {} /\ everRevoked = {}
  /\ rejections = 0 /\ unauthorized = 0
  /\ calls = <<>>

Tick ==
  /\ clock < MaxTime
  /\ clock' = clock + 1
  /\ UNCHANGED <<life, agents, tokens, revoked, rejections, unauthorized,
                 calls, everRevoked>>

(* Keys are created and deleted beside the service (keystore).             *)
ChangeAgents(agent) ==
  /\ agents' = IF agent \in agents THEN agents \ {agent}
               ELSE agents \cup {agent}
  /\ UNCHANGED <<clock, life, tokens, revoked, rejections, unauthorized,
                 calls, everRevoked>>

-----------------------------------------------------------------------------
(* The service.                                                            *)

Issue(agent, scope, ttl) ==
  /\ Len(tokens) < MaxTokens
  /\ agent \in agents
  /\ tokens' = Append(tokens, Token(Len(tokens) + 1, agent, scope, ttl))
  /\ UNCHANGED <<clock, life, agents, revoked, rejections, unauthorized,
                 calls, everRevoked>>

Revoke(id) ==
  /\ revoked' = revoked \cup {id}
  /\ everRevoked' = everRevoked \cup {id}
  /\ UNCHANGED <<clock, life, agents, tokens, rejections, unauthorized, calls>>

(* A refusal is also published on the audit feed.                          *)
Deny(i, reason) ==
  /\ calls' = [calls EXCEPT ![i].server = reason]
  /\ rejections' = rejections + 1

(* Slip: a new life signs with the key of the one before.                  *)
SignatureOKOfAnyLife(t) == t.genuine
SignatureOK(t) == t.genuine /\ t.key = life

CheckSignature(i) ==
  LET t == calls[i].token IN
  /\ calls[i].server = "received"
  /\ \/ /\ SignatureOK(t)
        /\ calls' = [calls EXCEPT ![i].server = "signed"]
        /\ UNCHANGED rejections
     \/ ~SignatureOK(t) /\ Deny(i, "invalid_signature")
  /\ UNCHANGED <<clock, life, agents, tokens, revoked, unauthorized,
                 everRevoked>>

(* Slip: a token is good for one second more.                              *)
ExpiredLater(t) == clock > t.expires
Expired(t) == clock >= t.expires

(* An entry "*" or the wanted one.                                         *)
ContainsExactly(list, want) == want \in list
Contains(list, want) == Wildcard \in list \/ want \in list

(* What a verifier with one look at everything would say of t for a; in    *)
(* unbounded time, and revocations are never forgotten.                    *)
Valid(t, a) ==
  /\ t.genuine /\ t.key = life
  /\ clock < t.issued + t.ttl
  /\ t.id \notin everRevoked
  /\ t.agent = a.agent
  /\ t.scope.actions \cap {Wildcard, a.action} # {}
  /\ t.scope.targets \cap {Wildcard, a.target} # {}

CheckExpiry(i) ==
  LET t == calls[i].token IN
  /\ calls[i].server = "signed"
  /\ \/ /\ ~Expired(t)
        /\ calls' = [calls EXCEPT ![i].server = "current",
                                  ![i].valid = Valid(t, calls[i].ask)]
        /\ UNCHANGED rejections
     \/ Expired(t) /\ Deny(i, "expired")
  /\ UNCHANGED <<clock, life, agents, tokens, revoked, unauthorized,
                 everRevoked>>

(* The first check that fails names the reason; nothing after IsRevoked    *)
(* reads shared state.                                                     *)
Refusals(t, a) ==
  IF t.id \in revoked THEN "revoked"
  ELSE IF t.agent # a.agent THEN "agent_mismatch"
  ELSE IF ~Contains(t.scope.actions, a.action) THEN "action_type_not_allowed"
  ELSE IF ~Contains(t.scope.targets, a.target) THEN "target_not_allowed"
  ELSE "ok"

CheckRest(i) ==
  LET verdict == Refusals(calls[i].token, calls[i].ask) IN
  /\ calls[i].server = "current"
  /\ \/ /\ verdict = "ok"
        /\ calls' = [calls EXCEPT ![i].server = "ok"]
        /\ UNCHANGED rejections
     \/ verdict # "ok" /\ Deny(i, verdict)
  /\ UNCHANGED <<clock, life, agents, tokens, revoked, unauthorized,
                 everRevoked>>

(* The process starts again: keystore and revocations are empty, the       *)
(* signing key is new and the handlers are gone.                           *)
Restart ==
  /\ life < MaxLives
  /\ life' = life + 1
  /\ agents' = {} /\ revoked' = {}
  /\ calls' = [i \in DOMAIN calls |->
       IF calls[i].server \in {"received", "signed", "current"}
       THEN [calls[i] EXCEPT !.server = "dead"] ELSE calls[i]]
  /\ UNCHANGED <<clock, tokens, rejections, unauthorized, everRevoked>>

-----------------------------------------------------------------------------
(* The guard.                                                              *)

(* A guarded function is called with t active.  Outside @signed_action or  *)
(* without a token it raises at once; otherwise it asks the service, and   *)
(* the request may get lost.  valid and barred are history: Valid when the *)
(* expiry was read, and whether t had been revoked before the call.        *)
Call(t, a) ==
  /\ Len(calls) < MaxCalls
  /\ \E client \in {"waiting", "refused"}, server \in {"none", "received"} :
       /\ client = "refused" <=> t = NoToken
       /\ client = "refused" => server = "none"
       /\ calls' = Append(calls,
            [client |-> client, server |-> server, token |-> t, ask |-> a,
             valid |-> FALSE, barred |-> t.id \in everRevoked])
       /\ unauthorized' = IF client = "refused" THEN unauthorized + 1
                          ELSE unauthorized
  /\ UNCHANGED <<clock, life, agents, tokens, revoked, rejections,
                 everRevoked>>

(* The response is 200, or an error that becomes a TokenError.             *)
Answer(i) ==
  /\ calls[i].client = "waiting"
  /\ \/ /\ calls[i].server = "ok"
        /\ calls' = [calls EXCEPT ![i].client = "granted"]
        /\ UNCHANGED unauthorized
     \/ /\ calls[i].server \in Reasons
        /\ calls' = [calls EXCEPT ![i].client = "refused"]
        /\ unauthorized' = unauthorized + 1
  /\ UNCHANGED <<clock, life, agents, tokens, revoked, rejections,
                 everRevoked>>

(* No connection or no answer in time: TokenServiceUnavailableError.       *)
GiveUp(i) ==
  /\ calls[i].client = "waiting"
  /\ calls' = [calls EXCEPT ![i].client = "refused"]
  /\ unauthorized' = unauthorized + 1
  /\ UNCHANGED <<clock, life, agents, tokens, revoked, rejections,
                 everRevoked>>

(* A response that ends before its Content-Length raises IncompleteRead    *)
(* out of the guard: it is no OSError, so no TokenError and not counted.   *)
CutShort(i) ==
  /\ calls[i].client = "waiting"
  /\ calls[i].server \in Reasons \cup {"ok"}
  /\ calls' = [calls EXCEPT ![i].client = "broken"]
  /\ UNCHANGED <<clock, life, agents, tokens, revoked, rejections,
                 unauthorized, everRevoked>>

(* The function itself runs.                                               *)
Run(i) ==
  /\ calls[i].client = "granted"
  /\ calls' = [calls EXCEPT ![i].client = "ran"]
  /\ UNCHANGED <<clock, life, agents, tokens, revoked, rejections,
                 unauthorized, everRevoked>>

-----------------------------------------------------------------------------
Next ==
  \/ Tick \/ Restart
  \/ \E agent \in Agents : ChangeAgents(agent)
  \/ \E agent \in Agents, scope \in Scopes, ttl \in TTLs :
       Issue(agent, scope, ttl)
  \/ \E id \in DOMAIN tokens : Revoke(id)
  \/ \E t \in Presentable \cup {NoToken}, a \in Asks : Call(t, a)
  \/ \E i \in DOMAIN calls :
       \/ CheckSignature(i) \/ CheckExpiry(i) \/ CheckRest(i)
       \/ Answer(i) \/ GiveUp(i) \/ CutShort(i) \/ Run(i)

Spec == Init /\ [][Next]_vars

-----------------------------------------------------------------------------
Tokens ==
  [id : Nat \ {0}, agent : Agents, scope : Scopes, issued : Nat, ttl : Nat,
   expires : (-MaxInt - 1)..MaxInt, key : Nat, genuine : BOOLEAN]

(* The type invariant of service and guard; expiry times are int64.        *)
TypeOK ==
  /\ clock \in Nat /\ life \in Nat
  /\ agents \subseteq Agents
  /\ tokens \in Seq(Tokens)
  /\ revoked \subseteq everRevoked /\ everRevoked \subseteq DOMAIN tokens
  /\ rejections \in Nat /\ unauthorized \in Nat
  /\ calls \in Seq(
       [client : {"waiting", "granted", "ran", "refused", "broken"},
        server : {"none", "received", "signed", "current", "ok", "dead"}
                 \cup Reasons,
        token : Tokens \cup {NoToken}, ask : Asks,
        valid : BOOLEAN, barred : BOOLEAN])

(* The four looks Verify takes at key, clock, revocations and scope (and a *)
(* restart, a revocation or the passage of time between them) let a call   *)
(* through only if one look at everything would have, at some moment of    *)
(* the call; an expiry that overflowed lets nothing through (service.go    *)
(* 142-149, 189-213; decorators.py 156-167).                               *)
GrantedMeansValid ==
  \A i \in DOMAIN calls :
    calls[i].server = "ok" \/ calls[i].client \in {"granted", "ran"}
      => calls[i].valid

(* A token revoked before a call never lets it through, although a restart *)
(* forgets every revocation: the signing key is forgotten with them        *)
(* (revocation.go 11-25, service.go 70-77).                                *)
RevokedStaysDead ==
  \A i \in DOMAIN calls :
    calls[i].barred =>
      calls[i].server # "ok" /\ calls[i].client \notin {"granted", "ran"}

(* Verify refuses no token that is valid still: whatever it read on the    *)
(* way to the refusal stays true.  Not so for a ttl that overflows: such a *)
(* token is born expired (service.go 149, 192).                            *)
OnlyInvalidRefused ==
  \A i \in DOMAIN calls :
    LET t == calls[i].token IN
    calls[i].server \in Reasons /\ Valid(t, calls[i].ask)
      => t.issued + t.ttl > MaxInt

=============================================================================
