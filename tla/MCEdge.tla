------------------------------- MODULE MCEdge -------------------------------
(***************************************************************************)
(* Instances of ApiGateway and MarketData for TLC.  The two share nothing, *)
(* so that a behaviour is of the one or of the other.                      *)
(***************************************************************************)
EXTENDS ApiGateway, MarketData

CONSTANT u1

VARIABLE part

MCTriedCallers ==
  {[user |-> u1, privileged |-> FALSE, key |-> FALSE],
   [user |-> u1, privileged |-> TRUE, key |-> FALSE],
   [user |-> Nobody, privileged |-> FALSE, key |-> TRUE]}

Init == GatewayInit /\ MarketInit /\ part \in {"gateway", "market"}

Next ==
  /\ \/ part = "gateway" /\ GatewayNext /\ UNCHANGED marketVars
     \/ part = "market" /\ MarketNext /\ UNCHANGED gatewayVars
  /\ UNCHANGED part

Spec == Init /\ [][Next]_<<gatewayVars, marketVars, part>>

(* Time passes and calls end; nothing is assumed of the market's feed. *)
FairSpec == Spec /\ (part = "gateway" => GatewayFairness)
=============================================================================
