------------------------------- MODULE Claims -------------------------------
(***************************************************************************)
(* The resource claims of acquire calls, as normalizeClaims leaves them:   *)
(* one claim per key, every claim within its own declared capacity.        *)
(***************************************************************************)
EXTENDS Naturals, FiniteSets

CONSTANTS
    Call,        \* acquire calls; a call is one request and at most one lease
    Key,         \* resource keys
    ClaimsOf,    \* call -> key -> [units, capacity, physical]
    BridgeCall   \* the calls made by acquireBrowserBridge

ASSUME ClaimsAssumption ==
    /\ BridgeCall \subseteq Call
    /\ \A c \in Call :
         /\ DOMAIN ClaimsOf[c] \subseteq Key
         /\ \A k \in DOMAIN ClaimsOf[c] :
              /\ ClaimsOf[c][k].units \in Nat \ {0}
              /\ ClaimsOf[c][k].capacity \in Nat \ {0}
              /\ ClaimsOf[c][k].units <= ClaimsOf[c][k].capacity
              /\ ClaimsOf[c][k].physical \in BOOLEAN

KeysOf(c) == DOMAIN ClaimsOf[c]

PhysicalKeysOf(c) == {k \in KeysOf(c) : ClaimsOf[c][k].physical}

Overlaps(c, d) == KeysOf(c) \cap KeysOf(d) # {}

ClaimantsOf(S, k) == {c \in S : k \in KeysOf(c)}

(***************************************************************************)
(* The units the calls of S claim of key k: <<c, i>> is unit i of call c,  *)
(* so that SUM(units) is the number of elements.                           *)
(***************************************************************************)
UnitsOf(S, k) ==
    UNION {{c} \X (1 .. ClaimsOf[c][k].units) : c \in ClaimantsOf(S, k)}

Used(S, k) == Cardinality(UnitsOf(S, k))
=============================================================================
