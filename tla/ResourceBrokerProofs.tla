------------------------ MODULE ResourceBrokerProofs ------------------------
EXTENDS ResourceBroker, FiniteSetTheorems, TLAPS

(***************************************************************************)
(* Types.                                                                  *)
(***************************************************************************)
\* The keys and the owner of a call are keys and an owner (normalizeClaims).
LEMMA ClaimsType ==
    ASSUME NEW c \in Call
    PROVE  /\ KeysOf(c) \subseteq Key
           /\ PhysicalKeysOf(c) \subseteq KeysOf(c)
           /\ OwnerOf[c] \in Owner
           /\ c # NoRow /\ c # Unattributed
  BY ClaimsAssumption, BrokerAssumption DEF KeysOf, PhysicalKeysOf

\* A maintenance transaction keeps the shapes of the tables (maintainOwners).
LEMMA MaintainType ==
    ASSUME TypeOK, NEW o \in Owner, NEW include \in BOOLEAN, Maintain(o, include)
    PROVE  /\ ownerRow' \in [Owner -> {"none", "fresh", "silent"}]
           /\ pending' \subseteq Call
           /\ sequence' \in [Call -> Nat]
           /\ lastSequence' \in Nat
           /\ lease' \subseteq Call
           /\ fences' \in [Call -> [Key -> Nat]]
           /\ token' \in [Key -> Nat]
           /\ quarantine' \in [Key -> Call \cup {NoRow, Unattributed}]
           /\ unclean' \in [Key -> SUBSET Call]
           /\ invalid' \subseteq Call
           /\ unsettled' \subseteq Call
  BY DEF Maintain, LostLocally, TypeOK

\* So does a settlement of a lease's rows (settleLease).
LEMMA SettleRowsType ==
    ASSUME TypeOK, NEW c \in Call, NEW quarantined \in BOOLEAN,
           SettleRows(c, quarantined), unsettled' = unsettled
    PROVE  TypeOK'
  BY DEF SettleRows, RowAfterQuarantine, TypeOK, queueVars, grantVars, Phase

\* Every step of every window keeps the shapes of the tables and maps.
LEMMA TypeStep == TypeOK /\ [Next]_vars => TypeOK'
<1> SUFFICES ASSUME TypeOK, [Next]_vars PROVE TypeOK'
  OBVIOUS
<1> USE DEF memoryVars, queueVars, grantVars
<1>1. ASSUME NEW o \in Owner, Start(o) PROVE TypeOK'
  BY <1>1, MaintainType DEF Start, TypeOK
<1>2. ASSUME NEW o \in Owner, GoSilent(o) PROVE TypeOK'
  BY <1>2 DEF GoSilent, TypeOK, Phase, Step
<1>3. ASSUME NEW o \in Owner, NEW i \in BOOLEAN, Heartbeat(o, i) PROVE TypeOK'
  BY <1>3, MaintainType DEF Heartbeat, TypeOK
<1>4. ASSUME NEW o \in Owner, HeartbeatFails(o) PROVE TypeOK'
  BY <1>4 DEF HeartbeatFails, TypeOK, Phase, Step
<1>5. ASSUME NEW o \in Owner, NEW K \in SUBSET Key, ClearQuarantine(o, K) PROVE TypeOK'
  BY <1>5 DEF ClearQuarantine, TypeOK, Phase, Step
<1>6. ASSUME NEW o \in Owner, Dispose(o) PROVE TypeOK'
  BY <1>6 DEF Dispose, TypeOK, Phase, Step
<1>7. ASSUME NEW o \in Owner, Crash(o) PROVE TypeOK'
  BY <1>7 DEF Crash, Forget, TypeOK, Phase, Step
<1>8. ASSUME NEW o \in Owner, NEW b \in BOOLEAN, DisposeFinishes(o, b) PROVE TypeOK'
  BY <1>8 DEF DisposeFinishes, Forget, TypeOK
<1>9. ASSUME NEW c \in Call, NEW i \in BOOLEAN, Acquire(c, i) PROVE TypeOK'
  BY <1>9, MaintainType, ClaimsType DEF Acquire, TypeOK, Phase, Step, At
<1>10. ASSUME NEW c \in Call, NEW i \in BOOLEAN, Poll(c, i) PROVE TypeOK'
  BY <1>10, MaintainType, ClaimsType DEF Poll, TypeOK, Step, At
<1>11. ASSUME NEW c \in Call, AcquireRejected(c) PROVE TypeOK'
  BY <1>11 DEF AcquireRejected, TypeOK, Phase, Step
<1>12. ASSUME NEW c \in Call, InsertRequest(c) PROVE TypeOK'
  <2>1. sequence' \in [Call -> Nat] /\ lastSequence' \in Nat
    BY <1>12 DEF InsertRequest, TypeOK
  <2>2. step' \in [Owner -> Step] /\ phase' \in [Call -> Phase]
    BY <1>12 DEF InsertRequest, TypeOK, Phase, Step, At
  <2>3. pending' \subseteq Call
    BY <1>12 DEF InsertRequest, TypeOK
  <2> QED
    BY <2>2, <1>12 DEF InsertRequest, TypeOK
<1>13. ASSUME NEW c \in Call, KeepWaiting(c) PROVE TypeOK'
  BY <1>13 DEF KeepWaiting, TypeOK, Step
<1>14. ASSUME NEW c \in Call, Grant(c) PROVE TypeOK'
  BY <1>14, ClaimsType DEF Grant, TypeOK, Phase, Step
<1>15. ASSUME NEW c \in Call, NEW b \in BOOLEAN, GiveUp(c, b) PROVE TypeOK'
  BY <1>15 DEF GiveUp, TypeOK, Phase, Step
<1>16. ASSUME NEW c \in Call, NEW b \in BOOLEAN, Settle(c, b) PROVE TypeOK'
  BY <1>16, SettleRowsType DEF Settle
<1>17. ASSUME NEW c \in Call, NEW b \in BOOLEAN, CheckLeaseLost(c, b) PROVE TypeOK'
  BY <1>17 DEF CheckLeaseLost, TypeOK, Phase, Step
<1>18. ASSUME NEW c \in Call, ConfirmCleanup(c) PROVE TypeOK'
  BY <1>18 DEF ConfirmCleanup, TypeOK, Phase, Step
<1>19. ASSUME NEW c \in Call, DisposeCancels(c) PROVE TypeOK'
  BY <1>19 DEF DisposeCancels, TypeOK, Phase, Step
<1>20. ASSUME NEW c \in Call, DisposeSettles(c) PROVE TypeOK'
  BY <1>20, SettleRowsType DEF DisposeSettles
<1>21. ASSUME NEW c \in Call, DisposeSettleFails(c) PROVE TypeOK'
  BY <1>21 DEF DisposeSettleFails, TypeOK, Phase, Step
<1>22. CASE UNCHANGED vars
  BY <1>22 DEF vars, TypeOK, Phase, Step
<1> QED
  BY <1>1, <1>2, <1>3, <1>4, <1>5, <1>6, <1>7, <1>8, <1>9, <1>10, <1>11, <1>12, <1>13, <1>14,
     <1>15, <1>16, <1>17, <1>18, <1>19, <1>20, <1>21, <1>22 DEF Next, OwnerStep, CallStep

\* The tables and the windows' maps keep their shapes.
THEOREM TypeCorrect == Spec => []TypeOK
<1>1. Init => TypeOK
  BY DEF Init, TypeOK, Phase, Step
<1> QED
  BY <1>1, TypeStep, PTL DEF Spec

-----------------------------------------------------------------------------
(***************************************************************************)
(* Calls, their handlers and their rows.                                   *)
(***************************************************************************)
BookInv == HandlerInv /\ LeaseHasHolder /\ \A c \in pending : phase[c] \in {"waiting", "failed"}

\* Every step keeps a lease row with a holder, a request row with a waiting
\* call, and a handler with the call of its own window.
LEMMA BookStep == TypeOK /\ BookInv /\ [Next]_vars => BookInv'
<1> SUFFICES ASSUME TypeOK, BookInv, [Next]_vars PROVE BookInv'
  OBVIOUS
<1> USE DEF memoryVars, queueVars, grantVars
<1>1. ASSUME NEW o \in Owner, Start(o) PROVE BookInv'
  <2>1. HandlerInv'
    BY <1>1 DEF Start, TypeOK, BookInv, HandlerInv
  <2>2. lease' \subseteq lease /\ pending' \subseteq pending /\ phase' = phase
    BY <1>1 DEF Start, Maintain
  <2> QED
    BY <2>1, <2>2 DEF BookInv, LeaseHasHolder
<1>2. ASSUME NEW o \in Owner, GoSilent(o) PROVE BookInv'
  BY <1>2 DEF GoSilent, BookInv, HandlerInv, LeaseHasHolder
<1>3. ASSUME NEW o \in Owner, NEW i \in BOOLEAN, Heartbeat(o, i) PROVE BookInv'
  BY <1>3 DEF Heartbeat, Maintain, BookInv, HandlerInv, LeaseHasHolder
<1>4. ASSUME NEW o \in Owner, HeartbeatFails(o) PROVE BookInv'
  BY <1>4 DEF HeartbeatFails, BookInv, HandlerInv, LeaseHasHolder
<1>5. ASSUME NEW o \in Owner, NEW K \in SUBSET Key, ClearQuarantine(o, K) PROVE BookInv'
  BY <1>5 DEF ClearQuarantine, BookInv, HandlerInv, LeaseHasHolder
<1>6. ASSUME NEW o \in Owner, Dispose(o) PROVE BookInv'
  BY <1>6 DEF Dispose, CanRun, BookInv, HandlerInv, LeaseHasHolder
<1>7. ASSUME NEW o \in Owner, Crash(o) PROVE BookInv'
  BY <1>7 DEF Crash, TypeOK, BookInv, HandlerInv, LeaseHasHolder, Step
<1>8. ASSUME NEW o \in Owner, NEW b \in BOOLEAN, DisposeFinishes(o, b) PROVE BookInv'
  BY <1>8 DEF DisposeFinishes, BookInv, HandlerInv, LeaseHasHolder
<1>9. ASSUME NEW c \in Call, NEW i \in BOOLEAN, Acquire(c, i) PROVE BookInv'
  BY <1>9 DEF Acquire, CanRun, Maintain, TypeOK, BookInv, HandlerInv, LeaseHasHolder, At
<1>10. ASSUME NEW c \in Call, NEW i \in BOOLEAN, Poll(c, i) PROVE BookInv'
  BY <1>10 DEF Poll, Maintain, BookInv, HandlerInv, LeaseHasHolder, At
<1>11. ASSUME NEW c \in Call, AcquireRejected(c) PROVE BookInv'
  BY <1>11, ClaimsType DEF AcquireRejected, TypeOK, BookInv, HandlerInv, LeaseHasHolder, Idle,
     At
<1>12. ASSUME NEW c \in Call, InsertRequest(c) PROVE BookInv'
  BY <1>12, ClaimsType DEF InsertRequest, TypeOK, BookInv, HandlerInv, LeaseHasHolder, Idle, At
<1>13. ASSUME NEW c \in Call, KeepWaiting(c) PROVE BookInv'
  BY <1>13 DEF KeepWaiting, BookInv, HandlerInv, LeaseHasHolder
<1>14. ASSUME NEW c \in Call, Grant(c) PROVE BookInv'
  BY <1>14 DEF Grant, TypeOK, BookInv, HandlerInv, LeaseHasHolder
<1>15. ASSUME NEW c \in Call, NEW b \in BOOLEAN, GiveUp(c, b) PROVE BookInv'
  BY <1>15 DEF GiveUp, TypeOK, BookInv, HandlerInv, LeaseHasHolder
<1>16. ASSUME NEW c \in Call, NEW b \in BOOLEAN, Settle(c, b) PROVE BookInv'
  BY <1>16 DEF Settle, SettleRows, BookInv, HandlerInv, LeaseHasHolder
<1>17. ASSUME NEW c \in Call, NEW b \in BOOLEAN, CheckLeaseLost(c, b) PROVE BookInv'
  BY <1>17 DEF CheckLeaseLost, BookInv, HandlerInv, LeaseHasHolder
<1>18. ASSUME NEW c \in Call, ConfirmCleanup(c) PROVE BookInv'
  BY <1>18 DEF ConfirmCleanup, BookInv, HandlerInv, LeaseHasHolder
<1>19. ASSUME NEW c \in Call, DisposeCancels(c) PROVE BookInv'
  BY <1>19 DEF DisposeCancels, BookInv, HandlerInv, LeaseHasHolder
<1>20. ASSUME NEW c \in Call, DisposeSettles(c) PROVE BookInv'
  BY <1>20 DEF DisposeSettles, SettleRows, BookInv, HandlerInv, LeaseHasHolder
<1>21. ASSUME NEW c \in Call, DisposeSettleFails(c) PROVE BookInv'
  BY <1>21 DEF DisposeSettleFails, BookInv, HandlerInv, LeaseHasHolder
<1>22. CASE UNCHANGED vars
  BY <1>22 DEF vars, BookInv, HandlerInv, LeaseHasHolder
<1> QED
  BY <1>1, <1>2, <1>3, <1>4, <1>5, <1>6, <1>7, <1>8, <1>9, <1>10, <1>11, <1>12, <1>13, <1>14,
     <1>15, <1>16, <1>17, <1>18, <1>19, <1>20, <1>21, <1>22 DEF Next, OwnerStep, CallStep
-----------------------------------------------------------------------------
(***************************************************************************)
(* What a step may do to the rows that the invariants below speak of. The  *)
(* steps that are not one of the six kinds named first only drop requests. *)
(***************************************************************************)
Maintains == \E o \in Owner, i \in BOOLEAN : Maintain(o, i) /\ Granted' = Granted

Settles == \E c \in Call, b \in BOOLEAN : phase[c] = "holding" /\ SettleRows(c, b)

DropsRequests ==
    /\ pending' \subseteq pending
    /\ Granted' = Granted
    /\ UNCHANGED <<sequence, lastSequence, lease, fences, token, quarantine, unclean>>

StepKind ==
    \/ \E c \in Call : InsertRequest(c) \/ Grant(c) \/ ConfirmCleanup(c)
    \/ \E o \in Owner : \E K \in SUBSET Key : ClearQuarantine(o, K)
    \/ Maintains \/ Settles \/ DropsRequests

\* Every step is of one of these kinds.
LEMMA StepKinds == TypeOK /\ BookInv /\ [Next]_vars => StepKind
<1> SUFFICES ASSUME TypeOK, BookInv, [Next]_vars PROVE StepKind
  OBVIOUS
<1> USE DEF memoryVars, queueVars, grantVars
<1>1. ASSUME NEW o \in Owner, Start(o) PROVE StepKind
  BY <1>1 DEF Start, StepKind, Maintains, Granted
<1>2. ASSUME NEW o \in Owner, GoSilent(o) PROVE StepKind
  BY <1>2 DEF GoSilent, StepKind, DropsRequests, Granted
<1>3. ASSUME NEW o \in Owner, NEW i \in BOOLEAN, Heartbeat(o, i) PROVE StepKind
  BY <1>3 DEF Heartbeat, StepKind, Maintains, Granted
<1>4. ASSUME NEW o \in Owner, HeartbeatFails(o) PROVE StepKind
  BY <1>4 DEF HeartbeatFails, StepKind, DropsRequests, Granted
<1>5. ASSUME NEW o \in Owner, NEW K \in SUBSET Key, ClearQuarantine(o, K) PROVE StepKind
  BY <1>5 DEF StepKind
<1>6. ASSUME NEW o \in Owner, Dispose(o) PROVE StepKind
  BY <1>6 DEF Dispose, StepKind, DropsRequests, Granted
<1>7. ASSUME NEW o \in Owner, Crash(o) PROVE StepKind
  BY <1>7 DEF Crash, StepKind, DropsRequests, Granted
<1>8. ASSUME NEW o \in Owner, NEW b \in BOOLEAN, DisposeFinishes(o, b) PROVE StepKind
  BY <1>8 DEF DisposeFinishes, StepKind, DropsRequests, Granted
<1>9. ASSUME NEW c \in Call, NEW i \in BOOLEAN, Acquire(c, i) PROVE StepKind
  BY <1>9, ClaimsType DEF Acquire, StepKind, Maintains, Granted
<1>10. ASSUME NEW c \in Call, NEW i \in BOOLEAN, Poll(c, i) PROVE StepKind
  BY <1>10, ClaimsType DEF Poll, StepKind, Maintains, Granted
<1>11. ASSUME NEW c \in Call, AcquireRejected(c) PROVE StepKind
  BY <1>11, ClaimsType DEF AcquireRejected, StepKind, DropsRequests, Granted, BookInv,
     HandlerInv, Idle, At
<1>12. ASSUME NEW c \in Call, InsertRequest(c) PROVE StepKind
  BY <1>12 DEF StepKind
<1>13. ASSUME NEW c \in Call, KeepWaiting(c) PROVE StepKind
  BY <1>13 DEF KeepWaiting, StepKind, DropsRequests, Granted
<1>14. ASSUME NEW c \in Call, Grant(c) PROVE StepKind
  BY <1>14 DEF StepKind
<1>15. ASSUME NEW c \in Call, NEW b \in BOOLEAN, GiveUp(c, b) PROVE StepKind
  BY <1>15 DEF GiveUp, StepKind, DropsRequests, Granted
<1>16. ASSUME NEW c \in Call, NEW b \in BOOLEAN, Settle(c, b) PROVE StepKind
  BY <1>16 DEF Settle, StepKind, Settles
<1>17. ASSUME NEW c \in Call, NEW b \in BOOLEAN, CheckLeaseLost(c, b) PROVE StepKind
  BY <1>17 DEF CheckLeaseLost, StepKind, DropsRequests, Granted
<1>18. ASSUME NEW c \in Call, ConfirmCleanup(c) PROVE StepKind
  BY <1>18 DEF StepKind
<1>19. ASSUME NEW c \in Call, DisposeCancels(c) PROVE StepKind
  BY <1>19 DEF DisposeCancels, StepKind, DropsRequests, Granted
<1>20. ASSUME NEW c \in Call, DisposeSettles(c) PROVE StepKind
  BY <1>20 DEF DisposeSettles, StepKind, Settles
<1>21. ASSUME NEW c \in Call, DisposeSettleFails(c) PROVE StepKind
  BY <1>21 DEF DisposeSettleFails, StepKind, DropsRequests, Granted
<1>22. CASE UNCHANGED vars
  BY <1>22 DEF vars, StepKind, DropsRequests, Granted
<1> QED
  BY <1>1, <1>2, <1>3, <1>4, <1>5, <1>6, <1>7, <1>8, <1>9, <1>10, <1>11, <1>12, <1>13, <1>14,
     <1>15, <1>16, <1>17, <1>18, <1>19, <1>20, <1>21, <1>22 DEF Next, OwnerStep, CallStep

\* Only a grant makes a call granted, and it does so from "waiting".
LEMMA GrantedSteps ==
    ASSUME TypeOK, BookInv, StepKind
    PROVE  \/ Granted' = Granted /\ (Maintains \/ Settles \/ DropsRequests)
           \/ Granted' = Granted /\ \E c \in Call : ConfirmCleanup(c)
           \/ Granted' = Granted /\ \E o \in Owner : \E K \in SUBSET Key : ClearQuarantine(o, K)
           \/ \E c \in Call : Granted' = Granted /\ c \notin Granted /\ InsertRequest(c)
           \/ \E c \in Call : Granted' = Granted \cup {c} /\ c \notin Granted /\ Grant(c)
<1>1. CASE \E c \in Call : InsertRequest(c)
  <2> PICK c \in Call : InsertRequest(c)
    BY <1>1
  <2>1. Granted' = Granted /\ c \notin Granted
    BY ClaimsType DEF InsertRequest, Granted, BookInv, HandlerInv, Idle, At
  <2> QED
    BY <2>1
<1>2. CASE \E c \in Call : Grant(c)
  <2> PICK c \in Call : Grant(c)
    BY <1>2
  <2>1. Granted' = Granted \cup {c} /\ c \notin Granted
    BY DEF Grant, Granted, TypeOK, BookInv
  <2> QED
    BY <2>1
<1>3. CASE \E c \in Call : ConfirmCleanup(c)
  BY <1>3 DEF ConfirmCleanup, memoryVars, Granted
<1>4. CASE \E o \in Owner : \E K \in SUBSET Key : ClearQuarantine(o, K)
  BY <1>4 DEF ClearQuarantine, memoryVars, Granted
<1>5. CASE Maintains
  BY <1>5 DEF Maintains
<1>6. CASE Settles
  <2>1. PICK c \in Call, b \in BOOLEAN : phase[c] = "holding" /\ SettleRows(c, b)
    BY <1>6 DEF Settles
  <2>2. \A d \in Call : (phase'[d] \in {"holding", "settled"}) <=> (phase[d] \in {"holding", "settled"})
    BY <2>1 DEF SettleRows, TypeOK
  <2> QED
    BY <1>6, <2>2 DEF Granted
<1>7. CASE DropsRequests
  BY <1>7 DEF DropsRequests
<1> QED
  BY <1>1, <1>2, <1>3, <1>4, <1>5, <1>6, <1>7 DEF StepKind

\* The steps other than an insertion and a grant keep sequences, fences and
\* tokens, and add neither a request, nor a lease, nor a grant.
LEMMA QuietSteps ==
    ASSUME Granted' = Granted,
           \/ Maintains \/ Settles \/ DropsRequests
           \/ \E c \in Call : ConfirmCleanup(c)
           \/ \E o \in Owner : \E K \in SUBSET Key : ClearQuarantine(o, K)
    PROVE  /\ pending' \subseteq pending
           /\ lease' \subseteq lease
           /\ UNCHANGED <<sequence, lastSequence, fences, token>>
  BY DEF Maintains, Maintain, Settles, SettleRows, DropsRequests, ConfirmCleanup,
     ClearQuarantine, queueVars, grantVars

\* The database never numbers two requests alike, and numbers each above all
\* earlier ones (the AUTOINCREMENT of resource_request).
LEMMA QueueStep ==
    TypeOK /\ BookInv /\ RequestInv /\ [Next]_vars => RequestInv'
<1> SUFFICES ASSUME TypeOK, BookInv, RequestInv, [Next]_vars PROVE RequestInv'
  OBVIOUS
<1> USE DEF RequestInv
<1>0. \A c \in pending' : (phase[c] \in {"waiting", "failed"})'
  BY BookStep DEF BookInv
<1>1. ASSUME NEW c \in Call, Granted' = Granted, c \notin Granted, InsertRequest(c)
      PROVE  RequestInv'
  <2>1. \A d \in Call : d # c => sequence'[d] = sequence[d]
    BY <1>1 DEF InsertRequest, TypeOK
  <2>2. sequence'[c] = lastSequence + 1 /\ lastSequence' = lastSequence + 1
    BY <1>1 DEF InsertRequest, TypeOK
  <2>3. pending' = pending \cup {c}
    BY <1>1 DEF InsertRequest
  <2>4. /\ lastSequence \in Nat /\ pending \subseteq Call /\ Granted \subseteq Call
        /\ \A d \in Call : sequence[d] \in Nat
    BY DEF TypeOK, Granted
  <2>5. \A d \in Call : sequence'[d] <= lastSequence'
    BY <2>1, <2>2, <2>4
  <2>6. \A d \in pending' \cup Granted' : sequence'[d] > 0
    BY <2>1, <2>2, <2>3, <2>4, <1>1
  <2>7. \A d, e \in Call : d # e /\ sequence'[d] > 0 => sequence'[d] # sequence'[e]
    BY <2>1, <2>2, <2>4
  <2> QED
    BY <1>0, <2>5, <2>6, <2>7
<1>2. ASSUME NEW c \in Call, Granted' = Granted \cup {c}, Grant(c) PROVE RequestInv'
  BY <1>0, <1>2 DEF Grant
<1>3. CASE Granted' = Granted /\ pending' \subseteq pending /\ UNCHANGED <<sequence, lastSequence>>
  BY <1>0, <1>3
<1> QED
  BY <1>1, <1>2, <1>3, StepKinds, GrantedSteps, QuietSteps

\* A grant is later in the queue than every conflicting grant before it, and
\* its tokens are above theirs; a request still queued is later than both.
LEMMA ArrivalStep ==
    TypeOK /\ BookInv /\ RequestInv /\ ArrivalInv /\ [Next]_vars => ArrivalInv'
<1> SUFFICES ASSUME TypeOK, BookInv, RequestInv, ArrivalInv, [Next]_vars
             PROVE  ArrivalInv'
  OBVIOUS
<1> USE DEF ArrivalInv, TokensFollowArrival
<1>0. /\ Granted \subseteq Call /\ pending \subseteq Call
      /\ \A c \in Call : sequence[c] \in Nat
      /\ lastSequence \in Nat
      /\ \A c \in Call : KeysOf(c) \subseteq Key
  BY ClaimsType DEF TypeOK, Granted
<1>1. ASSUME NEW c \in Call, Granted' = Granted, c \notin Granted, InsertRequest(c)
      PROVE  ArrivalInv'
  <2>1. /\ pending' = pending \cup {c}
        /\ sequence'[c] = lastSequence + 1
        /\ \A d \in Call : d # c => sequence'[d] = sequence[d]
        /\ fences' = fences /\ token' = token
    BY <1>1 DEF InsertRequest, TypeOK, grantVars
  <2>2. \A d \in Granted : sequence[d] < lastSequence + 1
    BY <1>0 DEF RequestInv
  <2> QED
    BY <1>0, <1>1, <2>1, <2>2
<1>2. ASSUME NEW c \in Call, Granted' = Granted \cup {c}, c \notin Granted, Grant(c)
      PROVE  ArrivalInv'
  <2>1. /\ c \in pending /\ pending' = pending \ {c} /\ sequence' = sequence
        /\ \A d \in Call : d # c => fences'[d] = fences[d]
        /\ \A k \in KeysOf(c) : fences'[c][k] = token[k] + 1 /\ token'[k] = token[k] + 1
        /\ \A k \in Key : token'[k] \in {token[k], token[k] + 1}
        /\ \A k \in Key : token[k] \in Nat
        /\ \A d \in Call, k \in Key : fences[d][k] \in Nat
    BY <1>0, <1>2 DEF Grant, TypeOK
  <2>2. ASSUME NEW d \in pending', Overlaps(d, c) PROVE sequence[c] < sequence[d]
    <3>1. ~(sequence[d] < sequence[c])
      BY <1>2, <2>2 DEF Grant, MustWait, EarlierRequests, Overlaps
    <3> QED
      BY <3>1, <2>1, <1>0 DEF RequestInv
  <2>3. \A d \in Granted : Overlaps(c, d) => sequence[d] < sequence[c]
    BY <2>1
  <2>4. \A d, e \in pending' \cup Granted' : Overlaps(d, e) <=> Overlaps(e, d)
    BY DEF Overlaps
  <2>5. TokensFollowArrival'
    <3> SUFFICES ASSUME NEW d \in Granted', NEW e \in Granted',
                        NEW k \in KeysOf(d) \cap KeysOf(e), sequence[d] < sequence[e]
                 PROVE  fences'[d][k] < fences'[e][k]
      BY <2>1
    <3>1. CASE d # c /\ e # c
      BY <3>1, <1>0, <1>2, <2>1
    <3>2. CASE e = c /\ d # c
      <4>1. d \in Granted /\ k \in Key /\ fences[d][k] <= token[k]
        BY <3>2, <1>0, <1>2
      <4> QED
        BY <4>1, <3>2, <1>0, <2>1
    <3>3. CASE d = c
      <4>1. e \in Granted
        BY <3>3, <1>2, <1>0
      <4> QED
        BY <4>1, <3>3, <2>3, <1>0 DEF Overlaps
    <3> QED
      BY <3>1, <3>2, <3>3
  <2>6. \A d \in Granted' : \A k \in KeysOf(d) : fences'[d][k] <= token'[k]
    <3> SUFFICES ASSUME NEW d \in Granted', NEW k \in KeysOf(d)
                 PROVE  fences'[d][k] <= token'[k]
      OBVIOUS
    <3>1. CASE d = c
      BY <3>1, <1>0, <2>1
    <3>2. CASE d # c
      <4>1. d \in Granted /\ k \in Key
        BY <3>2, <1>2, <1>0
      <4>2. fences[d][k] <= token[k]
        BY <4>1
      <4> QED
        BY <4>1, <4>2, <3>2, <1>0, <2>1
    <3> QED
      BY <3>1, <3>2
  <2>7. \A d \in pending', e \in Granted' : Overlaps(d, e) => sequence'[e] < sequence'[d]
    BY <1>2, <2>1, <2>2
  <2> QED
    BY <2>5, <2>6, <2>7
<1>3. CASE /\ Granted' = Granted /\ pending' \subseteq pending
           /\ UNCHANGED <<sequence, fences, token>>
  BY <1>3
<1> QED
  BY <1>1, <1>2, StepKinds, GrantedSteps, QuietSteps

-----------------------------------------------------------------------------
(***************************************************************************)
(* Owner rows: between a poll and its decision the owner's row may be      *)
(* reclaimed, but then its request is gone too.                            *)
(***************************************************************************)
\* A maintenance transaction drops the owner rows of the stale owners only
\* together with their leases and requests (cleanupStaleOwners).
LEMMA MaintainOwnerRows ==
    ASSUME TypeOK, BookInv, OwnerRowInv, NEW o \in Owner, NEW include \in BOOLEAN,
           Maintain(o, include)
    PROVE  /\ LeaseHasOwnerRow'
           /\ ownerRow'[o] = "fresh"
           /\ \A p \in Owner :
                step[p] # Idle /\ step[p].at = "attempt" /\ step[p].call \in pending'
                  => ownerRow'[p] # "none"
<1>1. ownerRow'[o] = "fresh"
  BY DEF Maintain, LostLocally, TypeOK
<1>2. \A p \in Owner : p \notin StaleOwners(o, include) /\ ownerRow[p] # "none" => ownerRow'[p] # "none"
  BY DEF Maintain, LostLocally, TypeOK
<1>3. \A c \in lease' : c \in lease /\ OwnerOf[c] \notin StaleOwners(o, include)
  BY DEF Maintain
<1>4. \A c \in pending' : c \in pending /\ OwnerOf[c] \notin StaleOwners(o, include)
  BY DEF Maintain
<1>5. \A c \in lease \cup pending : OwnerOf[c] \in Owner
  BY ClaimsType DEF TypeOK
<1>6. \A p \in Owner : step[p] # Idle => OwnerOf[step[p].call] = p
  BY DEF BookInv, HandlerInv
<1>7. LeaseHasOwnerRow'
  BY <1>2, <1>3, <1>5 DEF OwnerRowInv, LeaseHasOwnerRow
<1> QED
  BY <1>1, <1>2, <1>4, <1>6, <1>7 DEF OwnerRowInv

\* Every step keeps an owner row for each lease, also a disposal that could
\* not settle one (the DELETE with NOT EXISTS of dispose).
LEMMA OwnerRowStep ==
    TypeOK /\ BookInv /\ OwnerRowInv /\ [Next]_vars => OwnerRowInv'
<1> SUFFICES ASSUME TypeOK, BookInv, OwnerRowInv, [Next]_vars PROVE OwnerRowInv'
  OBVIOUS
<1> USE DEF memoryVars, queueVars, grantVars
<1>1. ASSUME NEW o \in Owner, Start(o) PROVE OwnerRowInv'
  BY <1>1, MaintainOwnerRows DEF Start, OwnerRowInv
<1>2. ASSUME NEW o \in Owner, GoSilent(o) PROVE OwnerRowInv'
  BY <1>2 DEF GoSilent, OwnerRowInv, LeaseHasOwnerRow
<1>3. ASSUME NEW o \in Owner, NEW i \in BOOLEAN, Heartbeat(o, i) PROVE OwnerRowInv'
  BY <1>3, MaintainOwnerRows DEF Heartbeat, OwnerRowInv
<1>4. ASSUME NEW o \in Owner, HeartbeatFails(o) PROVE OwnerRowInv'
  BY <1>4 DEF HeartbeatFails, OwnerRowInv, LeaseHasOwnerRow
<1>5. ASSUME NEW o \in Owner, NEW K \in SUBSET Key, ClearQuarantine(o, K) PROVE OwnerRowInv'
  BY <1>5 DEF ClearQuarantine, OwnerRowInv, LeaseHasOwnerRow
<1>6. ASSUME NEW o \in Owner, Dispose(o) PROVE OwnerRowInv'
  BY <1>6 DEF Dispose, OwnerRowInv, LeaseHasOwnerRow
<1>7. ASSUME NEW o \in Owner, Crash(o) PROVE OwnerRowInv'
  BY <1>7 DEF Crash, OwnerRowInv, LeaseHasOwnerRow
<1>8. ASSUME NEW o \in Owner, NEW b \in BOOLEAN, DisposeFinishes(o, b) PROVE OwnerRowInv'
  BY <1>8 DEF DisposeFinishes, HeldCalls, OwnerRowStays, TypeOK, BookInv, HandlerInv,
     LeaseHasHolder, OwnerRowInv, LeaseHasOwnerRow
<1>9. ASSUME NEW c \in Call, NEW i \in BOOLEAN, Acquire(c, i) PROVE OwnerRowInv'
  <2>1. /\ OwnerOf[c] \in Owner /\ Maintain(OwnerOf[c], i)
        /\ \A p \in Owner \ {OwnerOf[c]} : step'[p] = step[p]
    BY <1>9, ClaimsType DEF Acquire, TypeOK
  <2>2. \A p \in Owner \ {OwnerOf[c]} :
          step'[p] # Idle /\ step'[p].at = "attempt" /\ step'[p].call \in pending'
            => ownerRow'[p] # "none"
    BY <2>1, MaintainOwnerRows
  <2> QED
    BY <2>1, <2>2, MaintainOwnerRows DEF OwnerRowInv
<1>10. ASSUME NEW c \in Call, NEW i \in BOOLEAN, Poll(c, i) PROVE OwnerRowInv'
  <2>1. /\ OwnerOf[c] \in Owner /\ Maintain(OwnerOf[c], i)
        /\ \A p \in Owner \ {OwnerOf[c]} : step'[p] = step[p]
    BY <1>10, ClaimsType DEF Poll, TypeOK
  <2>2. \A p \in Owner \ {OwnerOf[c]} :
          step'[p] # Idle /\ step'[p].at = "attempt" /\ step'[p].call \in pending'
            => ownerRow'[p] # "none"
    BY <2>1, MaintainOwnerRows
  <2> QED
    BY <2>1, <2>2, MaintainOwnerRows DEF OwnerRowInv
<1>11. ASSUME NEW c \in Call, AcquireRejected(c) PROVE OwnerRowInv'
  BY <1>11 DEF AcquireRejected, OwnerRowInv, LeaseHasOwnerRow
<1>12. ASSUME NEW c \in Call, InsertRequest(c) PROVE OwnerRowInv'
  BY <1>12 DEF InsertRequest, BookInv, HandlerInv, OwnerRowInv, LeaseHasOwnerRow, At
<1>13. ASSUME NEW c \in Call, KeepWaiting(c) PROVE OwnerRowInv'
  BY <1>13 DEF KeepWaiting, OwnerRowInv, LeaseHasOwnerRow
<1>14. ASSUME NEW c \in Call, Grant(c) PROVE OwnerRowInv'
  BY <1>14, ClaimsType DEF Grant, OwnerRowInv, LeaseHasOwnerRow, Idle, At
<1>15. ASSUME NEW c \in Call, NEW b \in BOOLEAN, GiveUp(c, b) PROVE OwnerRowInv'
  BY <1>15 DEF GiveUp, OwnerRowInv, LeaseHasOwnerRow
<1>16. ASSUME NEW c \in Call, NEW b \in BOOLEAN, Settle(c, b) PROVE OwnerRowInv'
  BY <1>16 DEF Settle, SettleRows, OwnerRowInv, LeaseHasOwnerRow
<1>17. ASSUME NEW c \in Call, NEW b \in BOOLEAN, CheckLeaseLost(c, b) PROVE OwnerRowInv'
  BY <1>17 DEF CheckLeaseLost, OwnerRowInv, LeaseHasOwnerRow
<1>18. ASSUME NEW c \in Call, ConfirmCleanup(c) PROVE OwnerRowInv'
  BY <1>18 DEF ConfirmCleanup, OwnerRowInv, LeaseHasOwnerRow
<1>19. ASSUME NEW c \in Call, DisposeCancels(c) PROVE OwnerRowInv'
  BY <1>19 DEF DisposeCancels, OwnerRowInv, LeaseHasOwnerRow
<1>20. ASSUME NEW c \in Call, DisposeSettles(c) PROVE OwnerRowInv'
  BY <1>20 DEF DisposeSettles, SettleRows, OwnerRowInv, LeaseHasOwnerRow
<1>21. ASSUME NEW c \in Call, DisposeSettleFails(c) PROVE OwnerRowInv'
  BY <1>21 DEF DisposeSettleFails, OwnerRowInv, LeaseHasOwnerRow
<1>22. CASE UNCHANGED vars
  BY <1>22 DEF vars, OwnerRowInv, LeaseHasOwnerRow
<1> QED
  BY <1>1, <1>2, <1>3, <1>4, <1>5, <1>6, <1>7, <1>8, <1>9, <1>10, <1>11, <1>12, <1>13, <1>14,
     <1>15, <1>16, <1>17, <1>18, <1>19, <1>20, <1>21, <1>22 DEF Next, OwnerStep, CallStep

-----------------------------------------------------------------------------
(***************************************************************************)
(* Capacity: what reclaiming and settling do to the sum of the units of a  *)
(* key, and what a grant does.                                             *)
(***************************************************************************)
\* Dropping leases never raises the units in use of a key.
LEMMA UsedShrinks ==
    ASSUME NEW S, NEW T \in SUBSET S, NEW k, IsFiniteSet(UnitsOf(S, k))
    PROVE  /\ IsFiniteSet(UnitsOf(T, k))
           /\ Used(T, k) \in Nat /\ Used(S, k) \in Nat
           /\ Used(T, k) <= Used(S, k)
<1>1. UnitsOf(T, k) \subseteq UnitsOf(S, k)
  BY DEF UnitsOf, ClaimantsOf
<1> QED
  BY <1>1, FS_Subset, FS_CardinalityType DEF Used

\* The units one call puts on a key are as many as its claim says.
LEMMA UnitsOfOneCall ==
    ASSUME NEW c, NEW n \in Nat \ {0}
    PROVE  IsFiniteSet({c} \X (1 .. n)) /\ Cardinality({c} \X (1 .. n)) = n
<1>1. IsFiniteSet({c}) /\ Cardinality({c}) = 1
  BY FS_Singleton
<1>2. 1 \in Int /\ n \in Int /\ ~(1 > n) /\ n - 1 + 1 = n /\ 1 * n = n
  OBVIOUS
<1>3. IsFiniteSet(1 .. n) /\ Cardinality(1 .. n) = IF 1 > n THEN 0 ELSE n - 1 + 1
  BY <1>2, FS_Interval
<1>4. Cardinality(1 .. n) = n
  BY <1>2, <1>3
<1>5. IsFiniteSet({c} \X (1 .. n)) /\ Cardinality({c} \X (1 .. n)) = Cardinality({c}) * Cardinality(1 .. n)
  BY <1>1, <1>3, FS_Product
<1> QED
  BY <1>1, <1>2, <1>4, <1>5

\* A new lease raises the units in use of its keys by at most its claim.
LEMMA UsedGrows ==
    ASSUME NEW S, NEW c \in Call, NEW k \in Key, IsFiniteSet(UnitsOf(S, k))
    PROVE  /\ IsFiniteSet(UnitsOf(S \cup {c}, k))
           /\ Used(S \cup {c}, k) \in Nat /\ Used(S, k) \in Nat
           /\ k \notin KeysOf(c) => Used(S \cup {c}, k) = Used(S, k)
           /\ k \in KeysOf(c) =>
                Used(S \cup {c}, k) <= Used(S, k) + ClaimsOf[c][k].units
<1>1. CASE k \notin KeysOf(c)
  <2>1. ClaimantsOf(S \cup {c}, k) = ClaimantsOf(S, k)
    BY <1>1 DEF ClaimantsOf
  <2>2. UnitsOf(S \cup {c}, k) = UnitsOf(S, k)
    BY <2>1 DEF UnitsOf
  <2> QED
    BY <1>1, <2>2, FS_CardinalityType DEF Used
<1>2. CASE k \in KeysOf(c)
  <2> DEFINE mine == {c} \X (1 .. ClaimsOf[c][k].units)
  <2>1. ClaimsOf[c][k].units \in Nat \ {0}
    BY <1>2, ClaimsAssumption DEF KeysOf
  <2>4. IsFiniteSet(mine) /\ Cardinality(mine) = ClaimsOf[c][k].units
    BY <2>1, UnitsOfOneCall
  <2>5. ClaimantsOf(S \cup {c}, k) = ClaimantsOf(S, k) \cup {c}
    BY <1>2 DEF ClaimantsOf
  <2>6. UnitsOf(S \cup {c}, k) = UnitsOf(S, k) \cup mine
    BY <2>5 DEF UnitsOf
  <2>7. /\ IsFiniteSet(UnitsOf(S, k) \cup mine)
        /\ Cardinality(UnitsOf(S, k) \cup mine) =
             Cardinality(UnitsOf(S, k)) + Cardinality(mine)
               - Cardinality(UnitsOf(S, k) \cap mine)
    BY <2>4, FS_Union
  <2>8. IsFiniteSet(UnitsOf(S, k) \cap mine)
    BY <2>4, FS_Subset
  <2>9. /\ Cardinality(UnitsOf(S, k) \cap mine) \in Nat
        /\ Cardinality(UnitsOf(S, k)) \in Nat
        /\ Cardinality(UnitsOf(S, k) \cup mine) \in Nat
    BY <2>7, <2>8, FS_CardinalityType
  <2>10. \A u, m, i \in Nat : u + m - i <= u + m
    OBVIOUS
  <2>11. Cardinality(mine) \in Nat
    BY <2>1, <2>4
  <2> HIDE DEF mine
  <2>12. Cardinality(UnitsOf(S, k) \cup mine) <= Cardinality(UnitsOf(S, k)) + Cardinality(mine)
    BY <2>7, <2>9, <2>10, <2>11
  <2> QED
    BY <1>2, <2>4, <2>6, <2>7, <2>9, <2>12 DEF Used
<1> QED
  BY <1>1, <1>2

\* Every step keeps every key within each declared capacity.
LEMMA CapacityStep ==
    TypeOK /\ BookInv /\ CapacityInv /\ [Next]_vars => CapacityInv'
<1> SUFFICES ASSUME TypeOK, BookInv, CapacityInv, [Next]_vars PROVE CapacityInv'
  OBVIOUS
<1> USE DEF CapacityInv, CapacityRespected
<1>0. \A c \in Call : \A k \in KeysOf(c) : k \in Key /\ ClaimsOf[c][k].units \in Nat
                                           /\ ClaimsOf[c][k].capacity \in Nat
  BY ClaimsAssumption DEF KeysOf
<1>1. ASSUME NEW c \in Call, Grant(c) PROVE CapacityInv'
  <2>1. lease' = lease \cup {c} /\ lease \subseteq Call
    BY <1>1 DEF Grant, TypeOK
  <2>2. \A k \in KeysOf(c) : \A d \in ClaimantsOf({c} \cup lease, k) :
          Used(lease, k) + ClaimsOf[c][k].units <= ClaimsOf[d][k].capacity
    BY <1>1 DEF Grant, MustWait, Fits, ClaimantsOf
  <2>3. \A k \in Key : IsFiniteSet(UnitsOf(lease', k))
    BY <2>1, UsedGrows
  <2>4. ASSUME NEW k \in Key, NEW d \in ClaimantsOf(lease', k)
        PROVE  Used(lease', k) <= ClaimsOf[d][k].capacity
    <3>1. d \in Call /\ k \in KeysOf(d) /\ d \in lease \cup {c}
      BY <2>1, <2>4 DEF ClaimantsOf
    <3>2. CASE k \in KeysOf(c)
      <4>1. Used(lease, k) + ClaimsOf[c][k].units <= ClaimsOf[d][k].capacity
        BY <2>2, <3>1, <3>2 DEF ClaimantsOf
      <4>2. /\ Used(lease', k) <= Used(lease, k) + ClaimsOf[c][k].units
            /\ Used(lease', k) \in Nat /\ Used(lease, k) \in Nat
        BY <2>1, <3>2, UsedGrows
      <4>3. ClaimsOf[c][k].units \in Nat /\ ClaimsOf[d][k].capacity \in Nat
        BY <1>0, <3>1, <3>2
      <4> QED
        BY <4>1, <4>2, <4>3
    <3>3. CASE k \notin KeysOf(c)
      <4>1. d \in ClaimantsOf(lease, k)
        BY <3>1, <3>3 DEF ClaimantsOf
      <4> QED
        BY <4>1, <2>1, <3>3, UsedGrows
    <3> QED
      BY <3>2, <3>3
  <2> QED
    BY <2>3, <2>4
<1>2. CASE lease' \subseteq lease
  <2>1. ASSUME NEW k \in Key
        PROVE  /\ IsFiniteSet(UnitsOf(lease', k))
               /\ Used(lease', k) \in Nat /\ Used(lease, k) \in Nat
               /\ Used(lease', k) <= Used(lease, k)
    BY <1>2, UsedShrinks
  <2>2. ASSUME NEW k \in Key, NEW d \in ClaimantsOf(lease', k)
        PROVE  Used(lease', k) <= ClaimsOf[d][k].capacity
    <3>1. d \in ClaimantsOf(lease, k) /\ d \in Call /\ k \in KeysOf(d)
      BY <1>2, <2>2 DEF ClaimantsOf, TypeOK
    <3>2. Used(lease, k) <= ClaimsOf[d][k].capacity
      BY <3>1
    <3> QED
      BY <1>0, <2>1, <3>1, <3>2
  <2> QED
    BY <2>1, <2>2
<1>3. ASSUME NEW c \in Call, InsertRequest(c) PROVE lease' = lease
  BY <1>3 DEF InsertRequest
<1> QED
  BY <1>1, <1>2, <1>3, StepKinds, GrantedSteps, QuietSteps

-----------------------------------------------------------------------------
(***************************************************************************)
(* Quarantine rows.                                                        *)
(***************************************************************************)
\* Every step keeps a quarantine row on each key with unclean work.
LEMMA QuarantineStep ==
    TypeOK /\ BookInv /\ QuarantineInv /\ [Next]_vars => QuarantineInv'
<1> SUFFICES ASSUME TypeOK, BookInv, QuarantineInv, [Next]_vars PROVE QuarantineInv'
  OBVIOUS
<1> USE DEF QuarantineInv
<1>0. /\ NoRow \notin Call /\ Unattributed \notin Call /\ NoRow # Unattributed
      /\ \A k \in Key : quarantine[k] \in Call \cup {NoRow, Unattributed}
  BY BrokerAssumption DEF TypeOK
<1>1. ASSUME NEW o \in Owner, NEW i \in BOOLEAN, Maintain(o, i) PROVE QuarantineInv'
  <2> DEFINE lost == {c \in lease : OwnerOf[c] \in StaleOwners(o, i)}
  <2>1. \A k \in Key :
          /\ quarantine'[k] = IF \E c \in lost : k \in PhysicalKeysOf(c)
                              THEN Unattributed ELSE quarantine[k]
          /\ unclean'[k] = unclean[k] \cup {c \in lost : k \in PhysicalKeysOf(c)}
    BY <1>1 DEF Maintain
  <2> HIDE DEF lost
  <2> QED
    BY <1>0, <2>1
<1>2. ASSUME NEW c \in Call, NEW b \in BOOLEAN, SettleRows(c, b) PROVE QuarantineInv'
  BY <1>0, <1>2 DEF SettleRows, RowAfterQuarantine
<1>3. ASSUME NEW c \in Call, Grant(c) PROVE QuarantineInv'
  BY <1>0, <1>3 DEF Grant
<1>4. ASSUME NEW c \in Call, ConfirmCleanup(c) PROVE QuarantineInv'
  BY <1>0, <1>4 DEF ConfirmCleanup
<1>5. ASSUME NEW o \in Owner, NEW K \in SUBSET Key, ClearQuarantine(o, K) PROVE QuarantineInv'
  BY <1>0, <1>5 DEF ClearQuarantine
<1>6. CASE UNCHANGED <<quarantine, unclean>>
  BY <1>6
<1> QED
  BY <1>1, <1>2, <1>3, <1>4, <1>5, StepKinds DEF StepKind, Maintains, Settles, DropsRequests,
     InsertRequest

-----------------------------------------------------------------------------
(***************************************************************************)
(* The broker implements the lease service.                                *)
(***************************************************************************)
\* The lease service counts as the broker does.
LEMMA SameCardinality == \A S : Service!Cardinality(S) = Cardinality(S)
  BY Zenon DEF Service!Cardinality, Cardinality

\* Every step of the broker is a step of the lease service, or none.
LEMMA ServiceStep ==
    TypeOK /\ BookInv /\ QuarantineInv /\ [Next]_vars
      => [Service!Next]_(Service!serviceVars)
<1> SUFFICES ASSUME TypeOK, BookInv, QuarantineInv, [Next]_vars
             PROVE  Service!Next \/ UNCHANGED Service!serviceVars
  OBVIOUS
<1>0. /\ lease \subseteq Granted /\ Granted \subseteq Call
      /\ \A c \in Call : KeysOf(c) \subseteq Key
  BY ClaimsType DEF BookInv, LeaseHasHolder, Granted, TypeOK
<1>1. ASSUME NEW c \in Call, Granted' = Granted, InsertRequest(c)
      PROVE  UNCHANGED Service!serviceVars
  BY <1>1 DEF InsertRequest, Service!serviceVars, grantVars
<1>2. ASSUME NEW c \in Call, Granted' = Granted \cup {c}, c \notin Granted, Grant(c)
      PROVE  Service!Grant(c)
  <2>1. c \notin BridgeCall => \A k \in KeysOf(c) : unclean[k] = {}
    BY <1>0, <1>2 DEF Grant, QuarantineBars, QuarantineInv
  <2>2. \A k \in KeysOf(c) : \A d \in {c} \cup ClaimantsOf(lease, k) :
          Used(lease, k) + ClaimsOf[c][k].units <= ClaimsOf[d][k].capacity
    BY <1>2 DEF Grant, MustWait, Fits, ClaimantsOf
  <2>3. /\ lease' = lease \cup {c}
        /\ token' = [k \in Key |-> IF k \in KeysOf(c) THEN token[k] + 1 ELSE token[k]]
        /\ fences' = [fences EXCEPT ![c] =
                        [k \in Key |-> IF k \in KeysOf(c) THEN token[k] + 1 ELSE 0]]
        /\ unclean' = [k \in Key |-> IF c \in BridgeCall /\ k \in KeysOf(c)
                                     THEN {} ELSE unclean[k]]
    BY <1>2 DEF Grant
  <2>4. \A k \in KeysOf(c) : Service!Used(lease, k) = Used(lease, k)
    BY SameCardinality DEF Service!Used, Service!UnitsOf, Service!ClaimantsOf, Service!KeysOf,
       Used, UnitsOf, ClaimantsOf, KeysOf
  <2> QED
    BY <1>2, <2>1, <2>2, <2>3, <2>4 DEF Service!Grant, Service!KeysOf, Service!ClaimantsOf,
       KeysOf, ClaimantsOf
<1>3. ASSUME Maintains PROVE \E lost \in SUBSET Granted : Service!End({}, lost)
  <2> PICK o \in Owner, i \in BOOLEAN : Maintain(o, i) /\ Granted' = Granted
    BY <1>3 DEF Maintains
  <2> DEFINE lost == {c \in lease : OwnerOf[c] \in StaleOwners(o, i)}
  <2>1. lost \in SUBSET Granted
    BY <1>0
  <2>2. Service!End({}, lost)
    BY DEF Maintain, Service!End, Service!PhysicalKeysOf, Service!KeysOf, PhysicalKeysOf, KeysOf
  <2> QED
    BY <2>1, <2>2
<1>4. ASSUME Settles, Granted' = Granted
      PROVE  \E clean, lost \in SUBSET Granted : Service!End(clean, lost)
  <2> PICK c \in Call, b \in BOOLEAN : phase[c] = "holding" /\ SettleRows(c, b)
    BY <1>4 DEF Settles
  <2>0. c \in Granted /\ {} \in SUBSET Granted /\ {c} \in SUBSET Granted
    BY DEF Granted
  <2>1. CASE b
    <3>1. Service!End({}, {c})
      <4>1. unclean' = [k \in Key |-> unclean[k] \cup {d \in {c} : k \in PhysicalKeysOf(d)}]
        <5>1. \A k \in Key : unclean'[k] = unclean[k] \cup {d \in {c} : k \in PhysicalKeysOf(d)}
          BY <2>1 DEF SettleRows, TypeOK
        <5>2. unclean' = [k \in Key |-> unclean'[k]]
          BY DEF SettleRows
        <5> QED
          BY <5>1, <5>2
      <4> QED
        BY <4>1, <1>4 DEF SettleRows, grantVars, Service!End, Service!PhysicalKeysOf,
           Service!KeysOf, PhysicalKeysOf, KeysOf
    <3> QED
      BY <2>0, <3>1
  <2>2. CASE ~b
    <3>1. Service!End({c}, {})
      <4>1. unclean' = [k \in Key |-> unclean[k] \cup {d \in {} : k \in PhysicalKeysOf(d)}]
        BY <2>2 DEF SettleRows, TypeOK
      <4> QED
        BY <4>1, <1>4 DEF SettleRows, grantVars, Service!End
    <3> QED
      BY <2>0, <3>1
  <2> QED
    BY <2>1, <2>2
<1>5. ASSUME NEW c \in Call, ConfirmCleanup(c), Granted' = Granted PROVE Service!Confirm(c)
  <2>1. c \in Granted \ lease
    BY <1>5 DEF ConfirmCleanup, Granted, BookInv, LeaseHasHolder
  <2> QED
    BY <1>5, <2>1 DEF ConfirmCleanup, Service!Confirm, grantVars
<1>6. ASSUME NEW o \in Owner, NEW K \in SUBSET Key, ClearQuarantine(o, K), Granted' = Granted
      PROVE  Service!OperatorClear(K)
  BY <1>6 DEF ClearQuarantine, Service!OperatorClear, grantVars
<1>7. CASE DropsRequests
  BY <1>7 DEF DropsRequests, Service!serviceVars
<1>8. {} \in SUBSET Granted
  OBVIOUS
<1> QED
  BY <1>1, <1>2, <1>3, <1>4, <1>5, <1>6, <1>7, StepKinds, GrantedSteps DEF Service!Next

-----------------------------------------------------------------------------
(***************************************************************************)
(* The inductive invariant, and the theorems that follow from it.          *)
(***************************************************************************)
IndInv ==
    /\ TypeOK /\ BookInv
    /\ RequestInv /\ ArrivalInv /\ QuarantineInv /\ OwnerRowInv /\ CapacityInv

\* The invariant holds at first and every step keeps it.
LEMMA Inductive == Spec => []IndInv
<1>1. Init => IndInv
  <2> SUFFICES ASSUME Init PROVE IndInv
    OBVIOUS
  <2>1. TypeOK
    BY DEF Init, TypeOK, Phase, Step
  <2>2. BookInv /\ Granted = {}
    BY DEF Init, BookInv, HandlerInv, LeaseHasHolder, Granted
  <2>3. RequestInv /\ ArrivalInv /\ QuarantineInv /\ OwnerRowInv
    BY <2>2 DEF Init, RequestInv, ArrivalInv, TokensFollowArrival, QuarantineInv, OwnerRowInv,
       LeaseHasOwnerRow
  <2>4. CapacityInv
    <3>1. \A k \in Key : UnitsOf(lease, k) = {} /\ ClaimantsOf(lease, k) = {}
      BY DEF Init, UnitsOf, ClaimantsOf
    <3> QED
      BY <3>1, FS_EmptySet DEF CapacityInv, CapacityRespected
  <2> QED
    BY <2>1, <2>2, <2>3, <2>4 DEF IndInv
<1>2. IndInv /\ [Next]_vars => TypeOK'
  BY TypeStep DEF IndInv
<1>3. IndInv /\ [Next]_vars => IndInv'
  BY <1>2, BookStep, QueueStep, ArrivalStep, QuarantineStep, OwnerRowStep,
     CapacityStep DEF IndInv
<1> QED
  BY <1>1, <1>3, PTL DEF Spec

\* No interleaving of reclaims, releases, retries and grants of any number of
\* windows lets the leases of a key exceed a capacity one of them declared
\* (effectiveCapacity, resourceBroker.ts).
THEOREM CapacityHolds == Spec => []CapacityRespected
<1>1. IndInv => CapacityRespected
  BY DEF IndInv, CapacityInv
<1> QED
  BY <1>1, Inductive, PTL

\* Fencing tokens follow the order of the request queue, for every pair of
\* calls ever granted a common key (the FIFO test and resource_fence upsert).
THEOREM TokensInOrder == Spec => []TokensFollowArrival
<1>1. IndInv => TokensFollowArrival
  BY DEF IndInv, ArrivalInv
<1> QED
  BY <1>1, Inductive, PTL

\* A key whose work nobody confirmed stopped stays quarantined, whichever
\* leases are settled, reclaimed or confirmed meanwhile (settleLease,
\* cleanupStaleOwners, confirmCleanup).
THEOREM QuarantineHolds == Spec => []UncleanIsQuarantined
<1>1. IndInv => UncleanIsQuarantined
  BY DEF IndInv, QuarantineInv, UncleanIsQuarantined
<1> QED
  BY <1>1, Inductive, PTL

\* Every lease row can be found by a peer through its owner row, also after a
\* failed disposal and when a paused window commits its grant late.
THEOREM LeaseIsReclaimable == Spec => []LeaseHasOwnerRow
<1>1. IndInv => LeaseHasOwnerRow
  BY DEF IndInv, OwnerRowInv
<1> QED
  BY <1>1, Inductive, PTL

\* No lease row is left behind by a settlement, a rejection or a cancellation.
THEOREM NoOrphanLease == Spec => []LeaseHasHolder
<1>1. IndInv => LeaseHasHolder
  BY DEF IndInv, BookInv
<1> QED
  BY <1>1, Inductive, PTL

\* The broker's database, handlers, heartbeats and crashes together implement
\* the atomic lease service that its callers are written against.
THEOREM Refinement == Spec => ImplementsLeaseService
<1>1. Init => Service!Init
  BY DEF Init, Service!Init, Granted
<1>2. IndInv /\ [Next]_vars => [Service!Next]_(Service!serviceVars)
  BY ServiceStep DEF IndInv
<1> QED
  BY <1>1, <1>2, Inductive, PTL DEF Spec, Service!Spec, ImplementsLeaseService
=============================================================================
