---------------------------- MODULE LeaseService ----------------------------
(***************************************************************************)
(* What the machine-wide resource broker promises to the components that   *)
(* call it, with no database, no queue and no heartbeat: a table of live   *)
(* grants and, per resource key, a fencing token and the grants that were  *)
(* lost there before anybody confirmed that their physical work stopped.   *)
(*                                                                         *)
(*  - a grant is atomic over all its keys and respects every capacity;     *)
(*  - its token on a key is higher than every earlier token on that key;   *)
(*  - a physical key with unconfirmed work is not granted again.           *)
(*                                                                         *)
(* ResourceBroker implements this module: see its ImplementsLeaseService.  *)
(***************************************************************************)
EXTENDS Claims

VARIABLES
    live,      \* the calls whose grant is live
    granted,   \* the calls that were ever granted
    token,     \* key -> the last fencing token given out
    fences,    \* call -> key -> the token of the call's grant, 0 if none
    unclean    \* key -> the lost grants whose physical work may still run

serviceVars == <<live, granted, token, fences, unclean>>

Init ==
    /\ live = {}
    /\ granted = {}
    /\ token = [k \in Key |-> 0]
    /\ fences = [c \in Call |-> [k \in Key |-> 0]]
    /\ unclean = [k \in Key |-> {}]

(***************************************************************************)
(* A grant. acquireBrowserBridge proves by reserving the old endpoint that *)
(* the previous bridge is gone, so it alone may take an unclean key, and   *)
(* doing so waives what was recorded there.                                *)
(***************************************************************************)
Grant(c) ==
    /\ c \notin granted
    /\ c \notin BridgeCall => \A k \in KeysOf(c) : unclean[k] = {}
    /\ \A k \in KeysOf(c) : \A d \in {c} \cup ClaimantsOf(live, k) :
         Used(live, k) + ClaimsOf[c][k].units <= ClaimsOf[d][k].capacity
    /\ live' = live \cup {c}
    /\ granted' = granted \cup {c}
    /\ token' = [k \in Key |-> IF k \in KeysOf(c) THEN token[k] + 1 ELSE token[k]]
    /\ fences' = [fences EXCEPT ![c] =
                    [k \in Key |-> IF k \in KeysOf(c) THEN token[k] + 1 ELSE 0]]
    /\ unclean' = [k \in Key |-> IF c \in BridgeCall /\ k \in KeysOf(c)
                                 THEN {} ELSE unclean[k]]

(***************************************************************************)
(* Grants end. Those of clean were released by callers that finished their *)
(* work; those of lost were reclaimed, quarantined or disposed, and their  *)
(* physical keys now carry unconfirmed work.                               *)
(***************************************************************************)
End(clean, lost) ==
    /\ live' = live \ (clean \cup lost)
    /\ unclean' = [k \in Key |->
                     unclean[k] \cup {c \in lost : k \in PhysicalKeysOf(c)}]
    /\ UNCHANGED <<granted, token, fences>>

(***************************************************************************)
(* The caller of c confirms that its physical work has stopped.            *)
(***************************************************************************)
Confirm(c) ==
    /\ c \in granted \ live
    /\ unclean' = [k \in Key |-> unclean[k] \ {c}]
    /\ UNCHANGED <<live, granted, token, fences>>

(***************************************************************************)
(* An operator declares the keys of K clean.                               *)
(***************************************************************************)
OperatorClear(K) ==
    /\ unclean' = [k \in Key |-> IF k \in K THEN {} ELSE unclean[k]]
    /\ UNCHANGED <<live, granted, token, fences>>

Next ==
    \/ \E c \in Call : Grant(c) \/ Confirm(c)
    \/ \E clean, lost \in SUBSET granted : End(clean, lost)
    \/ \E K \in SUBSET Key : OperatorClear(K)

Spec == Init /\ [][Next]_serviceVars
=============================================================================
