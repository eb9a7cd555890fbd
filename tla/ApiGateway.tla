----------------------------- MODULE ApiGateway -----------------------------
(***************************************************************************)
(* The API gateway (services/api-gateway): who may call what, the limit on *)
(* calls per minute, and the circuit breaker in front of each service.     *)
(*                                                                         *)
(* A call passes the guards in one step, up to the fetch; the answer or    *)
(* the timeout comes in a later one, and uses the state of the circuit as  *)
(* it was when the call was sent.  Time passes in ticks.                   *)
(***************************************************************************)
EXTENDS Integers, Sequences, SequencesExt, FiniteSetsExt, Combinatorics

CONSTANTS
  Calls,                 \* calls that the gateway forwards at the same time
  Upstreams,
  Accounts, Nobody,
  TriedCallers, TriedRoutes,             \* the calls that are made
  RateLimit, RateTicks,                  \* calls per key, ticks of a window
  CircuitFailures, CircuitTicks          \* failures that open, ticks it is open

ASSUME GatewayAssumption ==
  /\ Nobody \notin Accounts
  /\ RateLimit \in Nat \ {0} /\ RateTicks \in Nat \ {0}
  /\ CircuitFailures \in Nat \ {0} /\ CircuitTicks \in Nat \ {0}

VARIABLES
  buckets,         \* per key: calls of the window, ticks until it ends
  circuits,        \* per service: failures, ticks until it may be called
  call,            \* per call: the failures it saw, whether it will time out
  up,              \* per service: it answers
  recent,          \* history: calls let through in the last ticks, per key
  streak,          \* history: failures in a row, per service
  sent             \* history: what the last step sent to a service, if it did

guardVars == <<buckets, recent>>
circuitVars == <<circuits, call, up, streak>>
gatewayVars == <<guardVars, circuitVars, sent>>

Keys == Accounts \cup {"ip"}
NoCall == [to |-> Nobody]

(* An entry of `buckets` and of `circuits`: resetAt and openUntil are the  *)
(* ticks that are left until then.                                         *)
Bucket == [count : 0..RateLimit + 1, left : 0..RateTicks]
Circuit == [failures : 0..CircuitFailures, left : 0..CircuitTicks]

GatewayInit ==
  /\ buckets = [k \in Keys |-> [count |-> 0, left |-> 0]]
  /\ circuits = [b \in Upstreams |-> [failures |-> 0, left |-> 0]]
  /\ call = [c \in Calls |-> NoCall]
  /\ up = [b \in Upstreams |-> TRUE]
  /\ recent = [k \in Keys |-> [i \in 1..RateTicks |-> 0]]
  /\ streak = [b \in Upstreams |-> 0]
  /\ sent = {}

-----------------------------------------------------------------------------
(* Who may call what.  A caller is [user, privileged, key]: the user of    *)
(* its bearer token, or Nobody, whether the token has the role of an admin *)
(* or operator, and whether it signs with an API key.                      *)

HasBearer(caller) == caller.user # Nobody
IsPrivileged(caller) == HasBearer(caller) /\ caller.privileged

PublicRoutes ==
  {"health", "exchangeInfo", "ticker", "depth", "auth/register", "auth/login"}

(* The gateway answers these itself. *)
LocalRoutes == {"health", "exchangeInfo"}

(* Routes about one user: named in the path, the query or the body. *)
OwnRoutes ==
  {"profile", "kyc", "referrals", "address-book", "deposits/address",
   "deposits/simulate", "withdrawals/whitelist", "withdrawals"}

(* Routes on which the user may be left out, and is then the caller. *)
DefaultedRoutes == {"account", "orders"}

(* Lists, of one user or of all. *)
ListRoutes == {"list deposits", "list withdrawals"}

OperatorRoutes ==
  {"wallets/credit", "review kyc", "tier", "deposits/confirm", "withdrawals/approve",
   "withdrawals/reject"}

OpenRoutes ==
  {"risk/evaluate", "risk/insurance-fund", "compliance/screen",
   "compliance/regulatory-matrix", "notifications"}

Routes == PublicRoutes \cup OwnRoutes \cup DefaultedRoutes \cup ListRoutes
            \cup OperatorRoutes \cup OpenRoutes

(* GatewayAuthGuard *)
Authenticated(caller, route) ==
  route \in PublicRoutes \/ HasBearer(caller) \/ caller.key

SelfOrPrivileged(caller, user) ==
  /\ user # Nobody /\ HasBearer(caller)
  /\ caller.user = user \/ IsPrivileged(caller)

(* Mutant of UserOf: the user named in the call is not looked at again. *)
UserTaken(caller, route, user) ==
  IF route \in DefaultedRoutes THEN caller.user ELSE user

UserOf(caller, route, user) ==
  IF route \in DefaultedRoutes /\ user = Nobody THEN caller.user ELSE user

(* The checks of the route's handler; `user` is the one that the call      *)
(* names, if any.                                                          *)
Permitted(caller, route, user) ==
  \/ route \in PublicRoutes \cup OpenRoutes
  \/ /\ route \in OwnRoutes \cup DefaultedRoutes
     /\ SelfOrPrivileged(caller, UserOf(caller, route, user))
  \/ /\ route \in ListRoutes
     /\ IF user = Nobody THEN IsPrivileged(caller) ELSE SelfOrPrivileged(caller, user)
  \/ route \in OperatorRoutes /\ IsPrivileged(caller)

-----------------------------------------------------------------------------
(* GatewayRateGuard: calls are counted per user, or per address if the     *)
(* guard before it has found none.                                         *)

RateKey(caller, route) ==
  IF route \in PublicRoutes \/ ~HasBearer(caller) THEN "ip" ELSE caller.user

Fresh(bucket) == bucket.left = 0

(* Counts beyond the limit are alike. *)
Counted(bucket) ==
  IF Fresh(bucket) THEN [count |-> 1, left |-> RateTicks]
  ELSE [bucket EXCEPT !.count = Min({@ + 1, RateLimit + 1})]

(* Mutant of WithinLimit: one call too many in each window. *)
WithinLimitOrAt(bucket) == Fresh(bucket) \/ bucket.count <= RateLimit

WithinLimit(bucket) == Fresh(bucket) \/ bucket.count < RateLimit

Passes(key) ==
  /\ buckets' = [buckets EXCEPT ![key] = Counted(@)]
  /\ recent' = IF WithinLimit(buckets[key]) THEN [recent EXCEPT ![key][1] = @ + 1]
               ELSE recent

-----------------------------------------------------------------------------
(* fetchWithCircuit *)

(* Mutant of Refuses: a circuit that has opened stays so. *)
RefusesOnceOpen(circuit) == circuit.failures >= CircuitFailures

Refuses(circuit) == circuit.left > 0

(* A call that passes the guards is sent, unless it needs no service or a  *)
(* check or the circuit refuses it.                                        *)
Send(c, caller, route, user, b) ==
  /\ call[c] = NoCall
  /\ Authenticated(caller, route)
  /\ Passes(RateKey(caller, route))
  /\ IF /\ WithinLimit(buckets[RateKey(caller, route)])
        /\ Permitted(caller, route, user) /\ route \notin LocalRoutes
        /\ ~Refuses(circuits[b])
     THEN /\ call' = [call EXCEPT ![c] =
                [to |-> b, seen |-> circuits[b].failures, late |-> ~up[b]]]
          /\ sent' = {<<caller, route, user>>}
     ELSE call' = call /\ sent' = {}
  /\ UNCHANGED <<circuits, up, streak>>

(* The service answers, if only with an error. *)
Answer(c) ==
  /\ call[c] # NoCall /\ ~call[c].late
  /\ circuits' = [circuits EXCEPT ![call[c].to] = [failures |-> 0, left |-> 0]]
  /\ streak' = [streak EXCEPT ![call[c].to] = 0]
  /\ call' = [call EXCEPT ![c] = NoCall]
  /\ sent' = {}
  /\ UNCHANGED <<guardVars, up>>

(* Failures beyond the limit are alike. *)
AfterFailure(seen) == Min({seen + 1, CircuitFailures})

(* Mutant of Failed: the circuit never opens on the first count. *)
FailedLate(seen) ==
  [failures |-> AfterFailure(seen),
   left |-> IF seen >= CircuitFailures THEN CircuitTicks ELSE 0]

Failed(seen) ==
  [failures |-> AfterFailure(seen),
   left |-> IF AfterFailure(seen) >= CircuitFailures THEN CircuitTicks ELSE 0]

(* The call is given up; the failure is added to those that it saw when it *)
(* was sent.                                                               *)
TimeOut(c) ==
  /\ call[c] # NoCall /\ call[c].late
  /\ circuits' = [circuits EXCEPT ![call[c].to] = Failed(call[c].seen)]
  /\ streak' = [streak EXCEPT ![call[c].to] = @ + 1]
  /\ call' = [call EXCEPT ![c] = NoCall]
  /\ sent' = {}
  /\ UNCHANGED <<guardVars, up>>

(* A service stops to answer, also the calls under way, or answers again.  *)
Switch(b) ==
  /\ up' = [up EXCEPT ![b] = ~@]
  /\ call' = [c \in Calls |-> IF call[c].to = b /\ up[b] THEN [call[c] EXCEPT !.late = TRUE]
                              ELSE call[c]]
  /\ sent' = {}
  /\ UNCHANGED <<guardVars, circuits, streak>>

Later(record) == [record EXCEPT !.left = IF @ > 0 THEN @ - 1 ELSE 0]

(* Failures are counted afresh when a circuit may be called again. *)
Tick ==
  /\ buckets' = [k \in Keys |-> Later(buckets[k])]
  /\ circuits' = [b \in Upstreams |-> Later(circuits[b])]
  /\ recent' = [k \in Keys |-> <<0>> \o Front(recent[k])]
  /\ streak' = [b \in Upstreams |-> IF circuits[b].left = 1 THEN 0 ELSE streak[b]]
  /\ sent' = {}
  /\ UNCHANGED <<call, up>>

GatewayNext ==
  \/ \E c \in Calls :
       \/ \E caller \in TriedCallers, route \in TriedRoutes, user \in Accounts \cup {Nobody},
             b \in Upstreams : Send(c, caller, route, user, b)
       \/ Answer(c) \/ TimeOut(c)
  \/ \E b \in Upstreams : Switch(b)
  \/ Tick

(* Time passes, and each call is answered or given up. *)
GatewayFairness ==
  /\ WF_gatewayVars(Tick)
  /\ \A c \in Calls : WF_gatewayVars(Answer(c) \/ TimeOut(c))

-----------------------------------------------------------------------------
(* Properties *)

(* The variables have their types. *)
GatewayTypeOK ==
  /\ buckets \in [Keys -> Bucket] /\ circuits \in [Upstreams -> Circuit]
  /\ call \in [Calls -> [to : Upstreams, seen : 0..CircuitFailures, late : BOOLEAN]
                          \cup {NoCall}]
  /\ up \in [Upstreams -> BOOLEAN]

(* The guard and the checks of the handlers together come to this: what is *)
(* about one account reaches a service only for its owner or an operator,  *)
(* lists of all accounts and the operators' routes only for an operator,   *)
(* and none of them for an API key alone.                                  *)
OwnersAndOperators ==
  \A s \in sent :
    LET caller == s[1]  route == s[2]  user == s[3]
    IN \/ route \in PublicRoutes \cup OpenRoutes \/ IsPrivileged(caller)
       \/ /\ caller.user # Nobody
          /\ \/ route \in OwnRoutes \cup ListRoutes /\ user = caller.user
             \/ route \in DefaultedRoutes /\ user \in {caller.user, Nobody}

(* In any stretch of time as long as a window, whatever windows it falls   *)
(* into, a key is let through at most twice as often as the limit says.    *)
RateBounded == \A k \in Keys : SumFunction(recent[k]) <= 2 * RateLimit

(* However the failures interleave, a service that does not answer is      *)
(* called only so often until its circuit has been open for its time.  A   *)
(* late failure puts the count back, or closes the circuit, but only to    *)
(* one more than its own call saw: with one call at a time this takes      *)
(* CircuitFailures failures, with n calls as many as there are ways to     *)
(* choose n of CircuitFailures + n, less one.                              *)
FailuresBounded ==
  LET n == Cardinality(Calls)
  IN \A b \in Upstreams : streak[b] <= choose(CircuitFailures + n, n) - 1

(* Once a service answers again for good, its circuit is closed for good,  *)
(* also when failures from before come in late.                            *)
Recovers ==
  \A b \in Upstreams : <>[](up[b]) => <>[](~Refuses(circuits[b]))
=============================================================================
