-------------------------- MODULE MCResourceBroker --------------------------
(***************************************************************************)
(* Two windows. In the agents instance three calls share agent, a physical *)
(* key of two units whose callers disagree on its capacity, and one of     *)
(* them also wants repo, an abstract key. In the bridge instance each      *)
(* window asks for the browser bridge.                                     *)
(***************************************************************************)
EXTENDS ResourceBroker, TLC

CONSTANTS w1, w2, a1, a2, a3, b1, b2, agent, repo, bridge

MCOwner == {w1, w2}

MCOwnerOf == a1 :> w1 @@ a2 :> w2 @@ a3 :> w2 @@ b1 :> w1 @@ b2 :> w2

Claim(units, capacity, physical) ==
    [units |-> units, capacity |-> capacity, physical |-> physical]

MCAgentCall == {a1, a2, a3}
MCAgentKey == {agent, repo}
MCAgentClaimsOf ==
    a1 :> (agent :> Claim(1, 2, TRUE))
    @@ a2 :> (agent :> Claim(1, 2, TRUE) @@ repo :> Claim(1, 1, FALSE))
    @@ a3 :> (agent :> Claim(1, 1, TRUE))

MCBridgeCall == {b1, b2}
MCBridgeKey == {bridge}
MCBridgeClaimsOf ==
    b1 :> (bridge :> Claim(1, 1, TRUE)) @@ b2 :> (bridge :> Claim(1, 1, TRUE))

(***************************************************************************)
(* The bound of the agents instance: the window of the two later calls     *)
(* stays up and renews its row in time; the first one may be paused,       *)
(* reclaimed, continue, crash or be disposed.                              *)
(***************************************************************************)
SecondWindowStays == proc[w2] \in {"off", "live"} /\ ownerRow[w2] # "silent"
=============================================================================
