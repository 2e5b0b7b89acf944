------------------------- MODULE BrowserBridgeProofs ------------------------
EXTENDS BrowserBridge, TLAPS

(***************************************************************************)
(* The inductive invariant.                                                *)
(***************************************************************************)

ClaimsType ==
    [ownerOf : [Key -> Owner \cup {None}],
     boundTo : [Owner -> Key \cup {None}],
     changing : [Owner -> [open : BOOLEAN, previous : Key \cup {None},
                           target : Key \cup {None}]],
     promotion : [Owner -> [previous : Key \cup {None}, to : Key \cup {None}]],
     deferred : SUBSET Owner]

\* A pending request: its participant, the page it was sent to, and the address
\* it moved to, which only a request sent to an initial page has.
OperationsOK ==
    \A r \in Request : IsPending(r) =>
        LET op == pending[r]
        IN  /\ op.owner \in Owner
            /\ op.tab \in Tab
            /\ op.page \in known \cup {Home}
            /\ op.transition \in known \cup {None}
            /\ op.transition # None => op.page = Home
            /\ op.promoted => op.transition # None
            /\ op.reserved \subseteq {op.transition} \ {None}

\* A participant has one request at a time.
OnePerOwner ==
    \A q, r \in Request :
        IsPending(q) /\ pending[q].owner = pending[r].owner => q = r

\* A request that was not sent is not pending.
UnsentIsNew == \A r \in Request : told[r] = "unsent" => ~IsPending(r)

\* The sessions of the bridge name the requests that reserved them, and those
\* alone.
SessionsAgree ==
    /\ \A s \in Tab \X Page : \A r \in {pendingBySession[s]} \ {None} :
         IsPending(r) /\ s \in BoundSessions(r)
    /\ \A r \in Request : IsPending(r) =>
         \A s \in BoundSessions(r) : pendingBySession[s] = r

\* A request keeps the claim of its participant on the page it was sent to,
\* and, once it has moved, on its address.
RequestsKeepClaims ==
    \A r \in Request : IsPending(r) =>
        LET op == pending[r]
        IN  /\ claims.boundTo[op.owner] =
                 IF op.promoted THEN op.transition ELSE KeyOf(op.tab, op.page)
            /\ op.transition # None => claims.ownerOf[op.transition] = op.owner
            /\ op.transition # None /\ ~op.promoted => op.reserved = {op.transition}

\* A change of binding is open only while its participant has no request; both
\* of its ends are claimed.
ChangesOK ==
    \A o \in Owner :
        LET change == claims.changing[o]
        IN  IF change.open
            THEN /\ ~HasPending(o)
                 /\ claims.boundTo[o] = change.target
                 /\ change.previous # None => claims.ownerOf[change.previous] = o
            ELSE change = NoChange

PromotionsOK ==
    \A o \in Owner :
        claims.promotion[o].previous # None => claims.promotion[o].to # None

\* A release that waits for a request is remembered.
ReleasesOK ==
    \A o \in released :
        /\ ~claims.changing[o].open
        /\ HasPending(o) => o \in claims.deferred
        /\ ~HasPending(o) => \A k \in Key : claims.ownerOf[k] # o

\* What a participant can have heard of exists.
PagesExist ==
    /\ \A t \in Tab : page[t] \in exists \cup {Home}
    /\ \A t \in Tab : sessions[t].page \in known \cup {Home, None}
    /\ \A t \in Tab : sessions[t].ready => sessions[t].page # None

\* A request at work is pending, in its tab, on the page it was sent to or on one
\* that it created.
RunsOK ==
    \A r \in Request : AtWork(r) =>
        /\ IsPending(r)
        /\ run[r].tab = pending[r].tab
        /\ run[r].page \in exists \cup {Home}
        /\ run[r].page # pending[r].page
             => pending[r].page = Home /\ run[r].phase = "running"
        /\ run[r].phase = "running" => page[run[r].tab] = run[r].page

MovedTo(r, c) == AtWork(r) /\ run[r].page = c /\ pending[r].page # c

\* An address is created once. As soon as a participant may have heard of it, the
\* request that created it holds it or has strayed.
MovesOK ==
    \A r \in Request, c \in Conversation : MovedTo(r, c) =>
        /\ \A q \in Request : MovedTo(q, c) => q = r
        /\ c \in known => pending[r].transition = c \/ told[r] # "waiting"

\* A caller waits only for a request that is pending, over a connection that lives.
WaitingOK == \A r \in Request : told[r] = "waiting" => IsPending(r) /\ connected

\* The claims, with what relies on them and what they rely on.
ClaimsOK ==
    ClaimsAgree /\ RequestsKeepClaims /\ ChangesOK /\ PromotionsOK /\ ReleasesOK

\* Requests: what the bridge knows of them.
RequestsOK == OperationsOK /\ OnePerOwner /\ UnsentIsNew /\ SessionsAgree /\ WaitingOK

\* The browser, and what the bridge knows of it.
BrowserOK == PagesExist /\ RunsOK /\ MovesOK

IInv == TypeOK /\ RequestsOK /\ ClaimsOK /\ BrowserOK

-----------------------------------------------------------------------------
(***************************************************************************)
(* What the initial state and the operators of claims give.                *)
(***************************************************************************)

\* A page of a tab is claimed by a key, an initial page by that of its tab alone.
LEMMA KeysOfPages ==
    ASSUME NEW t \in Tab, NEW p \in Page
    PROVE  /\ KeyOf(t, p) \in Key
           /\ p = Home => KeyOf(t, p) = t
           /\ p # Home => KeyOf(t, p) = p /\ p \in Conversation /\ p \notin Tab
  BY BridgeAssumption DEF KeyOf, Key, Page

\* Nothing is claimed, sent or open at first.
LEMMA Initially == Init => IInv
<1> SUFFICES ASSUME Init PROVE IInv
  OBVIOUS
<1> USE BridgeAssumption
<1>1. TypeOK
  BY DEF Init, TypeOK, NoSession, NoOperation, NoClaims, NoChange, NoPromotion, NoRun, Page
<1>2. \A r \in Request : ~IsPending(r) /\ ~AtWork(r) /\ told[r] = "unsent"
  BY DEF Init, IsPending, AtWork, NoRun
<1>3. RequestsOK
  BY <1>2 DEF RequestsOK, OperationsOK, OnePerOwner, UnsentIsNew, SessionsAgree,
              WaitingOK, Init
<1>4. ClaimsOK
  BY <1>2 DEF ClaimsOK, ClaimsAgree, RequestsKeepClaims, ChangesOK, PromotionsOK,
              ReleasesOK, Init, NoClaims, NoChange, NoPromotion
<1>5. BrowserOK
  BY <1>2 DEF BrowserOK, PagesExist, RunsOK, MovesOK, MovedTo, Init, NoSession
<1> QED
  BY <1>1, <1>3, <1>4, <1>5 DEF IInv

\* A participant that has a request is not changing its binding.
LEMMA BusyIsSteady ==
    ASSUME IInv, NEW r \in Request, IsPending(r)
    PROVE  /\ pending[r].owner \in Owner
           /\ HasPending(pending[r].owner)
           /\ ~claims.changing[pending[r].owner].open
           /\ claims.changing[pending[r].owner] = NoChange
  BY DEF IInv, RequestsOK, OperationsOK, ClaimsOK, ChangesOK, HasPending

\* A participant has a request exactly when one of them names it.
LEMMA OwnersArePending ==
    ASSUME IInv, NEW r \in Request
    PROVE  pending[r].owner # None <=> IsPending(r)
<1>1. CASE IsPending(r)
  BY <1>1, BridgeAssumption DEF IInv, RequestsOK, OperationsOK
<1>2. CASE ~IsPending(r)
  BY <1>2 DEF IsPending, NoOperation
<1> QED
  BY <1>1, <1>2

-----------------------------------------------------------------------------
(***************************************************************************)
(* Participants bind, release and change their bindings.                   *)
(***************************************************************************)

\* A step on claims alone leaves the rest of the invariant as it was.
LEMMA ClaimStep ==
    ASSUME IInv, claims' \in ClaimsType, released' \subseteq Owner, ClaimsOK',
           UNCHANGED <<connected, sessions, pending, pendingBySession, told,
                       browserVars, known>>
    PROVE  IInv'
<1>1. TypeOK'
  BY DEF IInv, TypeOK, ClaimsType, browserVars
<1>2. RequestsOK'
  BY DEF IInv, RequestsOK, OperationsOK, OnePerOwner, UnsentIsNew, SessionsAgree,
         WaitingOK, IsPending, BoundSessions
<1>3. BrowserOK'
  BY DEF IInv, BrowserOK, PagesExist, RunsOK, MovesOK, MovedTo, AtWork, IsPending, browserVars
<1> QED
  BY <1>1, <1>2, <1>3 DEF IInv

\* What binding a key that is not occupied does to each part of the claims.
LEMMA BoundParts ==
    ASSUME NEW c \in ClaimsType, NEW o \in Owner, NEW k \in Key, ~c.changing[o].open
    PROVE  /\ Bound(c, o, k) \in ClaimsType
           /\ Bound(c, o, k).ownerOf =
                [x \in Key |-> IF x = k THEN o
                               ELSE IF x = c.boundTo[o] /\ c.ownerOf[x] = o THEN None
                               ELSE c.ownerOf[x]]
           /\ Bound(c, o, k).boundTo = [c.boundTo EXCEPT ![o] = k]
           /\ Bound(c, o, k).changing = c.changing
           /\ Bound(c, o, k).promotion = c.promotion
           /\ Bound(c, o, k).deferred = c.deferred \ {o}
  BY BridgeAssumption DEF Bound, Granted, Without, ClaimsType, Key

\* A participant without an open change holds its binding and what its request
\* has reserved, nothing else.
LEMMA HeldKeys ==
    ASSUME IInv, NEW o \in Owner, NEW k \in Key, claims.ownerOf[k] = o,
           ~claims.changing[o].open
    PROVE  \/ k = claims.boundTo[o]
           \/ \E r \in Request : pending[r].owner = o /\ k \in pending[r].reserved
<1>1. claims.changing[o].previous = None
  BY DEF IInv, ClaimsOK, ChangesOK, NoChange
<1> QED
  BY <1>1, BridgeAssumption DEF IInv, ClaimsOK, ClaimsAgree, Key

\* A step after which participant o holds the key b it is bound to and no other
\* (or nothing, if b is None), has no open change, and has either no request or a
\* new one at b.
LEMMA HoldsOnly ==
    ASSUME IInv, NEW o \in Owner, NEW b \in Key \cup {None},
           b # None => claims.ownerOf[b] \in {None, o},
           claims' \in ClaimsType,
           claims'.ownerOf = [x \in Key |-> IF x = b THEN o
                                            ELSE IF claims.ownerOf[x] = o THEN None
                                            ELSE claims.ownerOf[x]],
           claims'.boundTo = [claims.boundTo EXCEPT ![o] = b],
           claims'.changing = [claims.changing EXCEPT ![o] = NoChange],
           \A q \in Owner \ {o} : /\ claims'.promotion[q] = claims.promotion[q]
                                  /\ q \in claims.deferred => q \in claims'.deferred
                                  /\ q \in released' => q \in released,
           claims'.promotion[o].previous # None => claims'.promotion[o].to # None,
           o \in released' => b = None /\ ~HasPending(o)', released' \subseteq Owner,
           \A r \in Request :
             \/ pending'[r] = pending[r] /\ pending[r].owner # o
             \/ pending'[r] = NoOperation /\ pending[r].owner \in {o, None}
             \/ /\ pending'[r].owner = o /\ pending[r].owner \in {o, None}
                /\ pending'[r].transition = None /\ ~pending'[r].promoted
                /\ pending'[r].reserved = {}
                /\ KeyOf(pending'[r].tab, pending'[r].page) = b
    PROVE  ClaimsOK'
<1> USE BridgeAssumption
<1>1. claims \in ClaimsType
  BY DEF IInv, TypeOK, ClaimsType
<1>2. NoOperation.owner = None /\ NoChange.open = FALSE /\ NoChange.previous = None
  BY DEF NoOperation, NoChange
<1>3. \A q \in Owner \ {o} : HasPending(q)' = HasPending(q)
  BY <1>2 DEF HasPending
<1>4. ClaimsAgree'
  <2>1. ASSUME NEW q \in Owner, claims'.boundTo[q] # None
        PROVE  claims'.ownerOf[claims'.boundTo[q]] = q
    BY <1>1, <2>1 DEF IInv, ClaimsOK, ClaimsAgree, ClaimsType
  <2>2. ASSUME NEW x \in Key, NEW q \in {claims'.ownerOf[x]} \ {None}
        PROVE  \/ x \in {claims'.boundTo[q], claims'.changing[q].previous}
               \/ \E r \in Request : pending'[r].owner = q /\ x \in pending'[r].reserved
    <3>1. CASE x = b
      BY <1>1, <2>2, <3>1 DEF ClaimsType
    <3>2. CASE x # b
      <4>1. q \in Owner \ {o} /\ claims.ownerOf[x] = q
        BY <1>1, <2>2, <3>2 DEF ClaimsType
      <4>2. \/ x \in {claims.boundTo[q], claims.changing[q].previous}
            \/ \E r \in Request : pending[r].owner = q /\ x \in pending[r].reserved
        BY <4>1 DEF IInv, ClaimsOK, ClaimsAgree
      <4> QED
        BY <1>1, <1>2, <4>1, <4>2 DEF ClaimsType
    <3> QED
      BY <3>1, <3>2
  <2> QED
    BY <2>1, <2>2 DEF ClaimsAgree
<1>5. RequestsKeepClaims'
  <2> SUFFICES ASSUME NEW r \in Request, IsPending(r)'
               PROVE  LET op == pending'[r]
                      IN  /\ claims'.boundTo[op.owner] =
                               IF op.promoted THEN op.transition ELSE KeyOf(op.tab, op.page)
                          /\ op.transition # None => claims'.ownerOf[op.transition] = op.owner
                          /\ op.transition # None /\ ~op.promoted
                               => op.reserved = {op.transition}
    BY DEF RequestsKeepClaims
  <2>1. CASE pending'[r] = pending[r] /\ pending[r].owner # o
    <3>1. IsPending(r)
      BY <2>1 DEF IsPending
    <3>2. pending[r].owner \in Owner \ {o} /\ pending[r].transition \in Key \cup {None}
      BY <2>1, <3>1 DEF IInv, RequestsOK, OperationsOK, TypeOK, Key
    <3> QED
      BY <1>1, <2>1, <3>1, <3>2 DEF IInv, ClaimsOK, RequestsKeepClaims, ClaimsType
  <2>2. CASE pending'[r].owner = o /\ pending'[r].transition = None /\ ~pending'[r].promoted
             /\ KeyOf(pending'[r].tab, pending'[r].page) = b
    BY <1>1, <2>2 DEF ClaimsType
  <2> QED
    BY <2>1, <2>2 DEF IsPending
<1>6. ChangesOK'
  <2>1. claims'.changing[o] = NoChange
    BY <1>1 DEF ClaimsType
  <2>2. ASSUME NEW q \in Owner \ {o}, claims.changing[q].open
        PROVE  /\ ~HasPending(q)' /\ claims'.changing[q] = claims.changing[q]
               /\ claims'.boundTo[q] = claims.changing[q].target
               /\ claims.changing[q].previous # None
                    => claims'.ownerOf[claims.changing[q].previous] = q
    BY <1>1, <1>3, <2>2 DEF IInv, ClaimsOK, ChangesOK, ClaimsType
  <2>3. ASSUME NEW q \in Owner \ {o}, ~claims.changing[q].open
        PROVE  claims'.changing[q] = NoChange
    BY <1>1, <2>3 DEF IInv, ClaimsOK, ChangesOK, ClaimsType
  <2> QED
    BY <1>2, <2>1, <2>2, <2>3 DEF ChangesOK
<1>7. PromotionsOK'
  BY DEF IInv, ClaimsOK, PromotionsOK
<1>8. ReleasesOK'
  <2>1. ~claims'.changing[o].open /\ None \notin Key
    BY <1>1, <1>2 DEF ClaimsType, Key
  <2>2. o \in released' => \A k \in Key : claims'.ownerOf[k] # o
    BY <2>1
  <2>3. \A q \in released' \ {o} :
          /\ ~claims'.changing[q].open
          /\ HasPending(q)' => q \in claims'.deferred
          /\ ~HasPending(q)' => \A k \in Key : claims'.ownerOf[k] # q
    BY <1>1, <1>3 DEF IInv, ClaimsOK, ReleasesOK, ClaimsType
  <2> QED
    BY <2>1, <2>2, <2>3 DEF ReleasesOK
<1> QED
  BY <1>4, <1>5, <1>6, <1>7, <1>8 DEF ClaimsOK

\* A binding names a key whose owner is nobody else, and leaves other owners' claims alone.
LEMMA BindStep ==
    ASSUME IInv, NEW o \in Owner, NEW k \in Tab \cup known, Bind(o, k)
    PROVE  IInv'
<1> DEFINE e == Effective(o, k)
<1>1. e \in Key /\ MayBind(o, e) /\ claims' = Bound(claims, o, e)
      /\ released' = released \ {o}
      /\ UNCHANGED <<connected, sessions, pending, pendingBySession, told,
                     browserVars, known>>
  <2>1. k \in Key
    BY DEF IInv, TypeOK, Key
  <2>2. claims.promotion[o].previous = k => claims.promotion[o].to \in Key
    BY <2>1, BridgeAssumption DEF IInv, ClaimsOK, PromotionsOK, TypeOK, Key
  <2> QED
    BY <2>1, <2>2 DEF Bind, Effective
<1> HIDE DEF e
<1>2. claims \in ClaimsType /\ released \subseteq Owner
  BY DEF IInv, TypeOK, ClaimsType
<1>3. CASE claims.changing[o].open
  <2>1. claims' = claims
    BY <1>1, <1>3 DEF Bound
  <2>2. ClaimsOK'
    BY <1>1, <2>1 DEF IInv, ClaimsOK, ClaimsAgree, RequestsKeepClaims, ChangesOK,
                      PromotionsOK, ReleasesOK, HasPending, IsPending
  <2> QED
    BY <1>1, <1>2, <2>1, <2>2, ClaimStep
<1>4. CASE ~claims.changing[o].open
  <2>1. /\ claims' \in ClaimsType
        /\ claims'.ownerOf =
             [x \in Key |-> IF x = e THEN o
                            ELSE IF x = claims.boundTo[o] /\ claims.ownerOf[x] = o THEN None
                            ELSE claims.ownerOf[x]]
        /\ claims'.boundTo = [claims.boundTo EXCEPT ![o] = e]
        /\ claims'.changing = claims.changing
        /\ claims'.promotion = claims.promotion
        /\ claims'.deferred = claims.deferred \ {o}
    BY <1>1, <1>2, <1>4, BoundParts
  <2>2. claims.ownerOf[e] \in {None, o} /\ (claims.boundTo[o] = e \/ ~HasPending(o))
    BY <1>1, <1>4 DEF MayBind, Occupied
  <2>3. ClaimsAgree'
    <3>1. ASSUME NEW q \in Owner, claims.boundTo'[q] # None
          PROVE  claims.ownerOf'[claims.boundTo'[q]] = q
      BY <1>1, <1>2, <2>1, <2>2, <3>1, BridgeAssumption DEF IInv, ClaimsOK, ClaimsAgree, ClaimsType
    <3>2. ASSUME NEW x \in Key, NEW q \in {claims.ownerOf[x]}' \ {None}
          PROVE  \/ x \in {claims.boundTo'[q], claims.changing'[q].previous}
                 \/ \E r \in Request : pending'[r].owner = q /\ x \in pending'[r].reserved
      <4>1. claims.changing[o].previous = None /\ x # None
        BY <1>4, BridgeAssumption DEF IInv, ClaimsOK, ChangesOK, NoChange, Key
      <4>2. CASE x = e
        BY <1>2, <2>1, <3>2, <4>2 DEF ClaimsType
      <4>3. CASE x # e
        <5>1. q = claims.ownerOf[x] /\ q \in Owner /\ (q = o => x # claims.boundTo[o])
          BY <1>2, <2>1, <3>2, <4>3 DEF ClaimsType
        <5> QED
          BY <1>1, <1>2, <2>1, <4>1, <5>1 DEF IInv, ClaimsOK, ClaimsAgree, ClaimsType
      <4> QED
        BY <4>2, <4>3
    <3> QED
      BY <3>1, <3>2 DEF ClaimsAgree
  <2>4. RequestsKeepClaims'
    <3> SUFFICES ASSUME NEW r \in Request, IsPending(r)
                 PROVE  LET op == pending[r]
                        IN  /\ claims'.boundTo[op.owner] =
                                 IF op.promoted THEN op.transition ELSE KeyOf(op.tab, op.page)
                            /\ op.transition # None => claims'.ownerOf[op.transition] = op.owner
                            /\ op.transition # None /\ ~op.promoted
                                 => op.reserved = {op.transition}
      BY <1>1 DEF RequestsKeepClaims, IsPending
    <3>1. pending[r].owner \in Owner /\ HasPending(pending[r].owner)
      BY BusyIsSteady
    <3>2. pending[r].transition \in Key \cup {None}
      BY DEF IInv, RequestsOK, OperationsOK, TypeOK, Key
    <3> QED
      BY <1>2, <2>1, <2>2, <3>1, <3>2, BridgeAssumption
         DEF IInv, ClaimsOK, RequestsKeepClaims, ClaimsType
  <2>5. ChangesOK'
    <3>1. \A q \in Owner : HasPending(q)' = HasPending(q)
      BY <1>1 DEF HasPending
    <3>2. \A q \in Owner : claims.changing[q].open => q # o
      BY <1>4
    <3> QED
      BY <1>1, <1>2, <2>1, <2>2, <3>1, <3>2, BridgeAssumption
         DEF IInv, ClaimsOK, ChangesOK, ClaimsType
  <2>6. PromotionsOK'
    BY <2>1 DEF IInv, ClaimsOK, PromotionsOK
  <2>7. ReleasesOK'
    <3>1. \A q \in Owner : HasPending(q)' = HasPending(q)
      BY <1>1 DEF HasPending
    <3> QED
      BY <1>1, <1>2, <2>1, <2>2, <3>1, BridgeAssumption
         DEF IInv, ClaimsOK, ReleasesOK, ClaimsType
  <2> QED
    BY <1>1, <1>2, <2>1, <2>3, <2>4, <2>5, <2>6, <2>7, ClaimStep DEF ClaimsOK
<1> QED
  BY <1>3, <1>4

\* What a release without a request leaves.
LEMMA ReleasedParts ==
    ASSUME NEW c \in ClaimsType, NEW o \in Owner, ~c.changing[o].open
    PROVE  /\ Released(c, o) \in ClaimsType
           /\ Released(c, o).ownerOf =
                [x \in Key |-> IF x = c.boundTo[o] /\ c.ownerOf[x] = o THEN None
                               ELSE c.ownerOf[x]]
           /\ Released(c, o).boundTo = [c.boundTo EXCEPT ![o] = None]
           /\ Released(c, o).changing = c.changing
           /\ Released(c, o).promotion = [c.promotion EXCEPT ![o] = NoPromotion]
           /\ Released(c, o).deferred = c.deferred \ {o}
  BY BridgeAssumption DEF Released, Without, ClaimsType, NoPromotion

\* A release gives up what the owner holds, or waits for its pending request to be over.
LEMMA ReleaseStep ==
    ASSUME IInv, NEW o \in Owner, Release(o)
    PROVE  IInv'
<1>1. /\ ~claims.changing[o].open /\ released' = released \cup {o}
      /\ UNCHANGED <<connected, sessions, pending, pendingBySession, told,
                     browserVars, known>>
  BY DEF Release
<1>2. claims \in ClaimsType /\ released' \subseteq Owner
  BY <1>1 DEF IInv, TypeOK, ClaimsType
<1>3. \A q \in Owner : HasPending(q)' = HasPending(q)
  BY <1>1 DEF HasPending
<1>4. CASE HasPending(o)
  <2>1. claims' = [claims EXCEPT !.deferred = @ \cup {o}]
    BY <1>4 DEF Release
  <2>2. /\ claims' \in ClaimsType
        /\ claims'.ownerOf = claims.ownerOf /\ claims'.boundTo = claims.boundTo
        /\ claims'.changing = claims.changing /\ claims'.promotion = claims.promotion
        /\ claims'.deferred = claims.deferred \cup {o}
    BY <1>2, <2>1 DEF ClaimsType
  <2>3. ClaimsAgree' /\ RequestsKeepClaims' /\ PromotionsOK'
    BY <1>1, <2>2 DEF IInv, ClaimsOK, ClaimsAgree, RequestsKeepClaims, PromotionsOK, IsPending
  <2>4. ChangesOK' /\ ReleasesOK'
    BY <1>1, <1>2, <1>3, <1>4, <2>2 DEF IInv, ClaimsOK, ChangesOK, ReleasesOK
  <2> QED
    BY <1>1, <1>2, <2>2, <2>3, <2>4, ClaimStep DEF ClaimsOK
<1>5. CASE ~HasPending(o)
  <2>1. claims' = Released(claims, o)
    BY <1>5 DEF Release
  <2>2. \A x \in Key : claims.ownerOf[x] = o => x = claims.boundTo[o]
    BY <1>1, <1>5, HeldKeys DEF HasPending
  <2>3. claims.changing[o] = NoChange
    BY <1>1 DEF IInv, ClaimsOK, ChangesOK
  <2>4. ClaimsOK'
    <3>1. /\ claims' \in ClaimsType
          /\ claims'.ownerOf = [x \in Key |-> IF x = None THEN o
                                              ELSE IF claims.ownerOf[x] = o THEN None
                                              ELSE claims.ownerOf[x]]
          /\ claims'.boundTo = [claims.boundTo EXCEPT ![o] = None]
          /\ claims'.changing = [claims.changing EXCEPT ![o] = NoChange]
          /\ claims'.promotion = [claims.promotion EXCEPT ![o] = NoPromotion]
          /\ claims'.deferred = claims.deferred \ {o}
      <4>1. /\ claims' \in ClaimsType
            /\ claims'.ownerOf = [x \in Key |-> IF x = claims.boundTo[o] /\ claims.ownerOf[x] = o
                                                THEN None ELSE claims.ownerOf[x]]
            /\ claims'.boundTo = [claims.boundTo EXCEPT ![o] = None]
            /\ claims'.changing = claims.changing
            /\ claims'.promotion = [claims.promotion EXCEPT ![o] = NoPromotion]
            /\ claims'.deferred = claims.deferred \ {o}
        BY <1>1, <1>2, <2>1, ReleasedParts
      <4>2. claims'.changing = [claims.changing EXCEPT ![o] = NoChange]
        BY <1>2, <2>3, <4>1 DEF ClaimsType
      <4>3. None \notin Key
        BY BridgeAssumption DEF Key
      <4> QED
        BY <2>2, <4>1, <4>2, <4>3
    <3>2. claims'.promotion[o].previous = None
      BY <1>2, <3>1 DEF ClaimsType, NoPromotion
    <3>3. \A r \in Request : pending'[r] = pending[r] /\ pending[r].owner # o
      BY <1>1, <1>5 DEF HasPending
    <3>4. \A q \in Owner \ {o} : /\ claims'.promotion[q] = claims.promotion[q]
                                 /\ q \in claims.deferred => q \in claims'.deferred
                                 /\ q \in released' => q \in released
      BY <1>1, <1>2, <3>1 DEF ClaimsType
    <3> QED
      BY <1>2, <1>3, <1>5, <3>1, <3>2, <3>3, <3>4, HoldsOnly
  <2> QED
    BY <1>1, <1>2, <2>1, <2>4, ClaimStep, ReleasedParts
<1> QED
  BY <1>4, <1>5

\* A change of binding claims the new key before the old one is given up.
LEMMA BeginBindingChangeStep ==
    ASSUME IInv, NEW o \in Owner, NEW k \in Key \cup {None}, BeginBindingChange(o, k)
    PROVE  IInv'
<1> USE BridgeAssumption
<1> DEFINE change == [open |-> TRUE, previous |-> claims.boundTo[o], target |-> k]
<1>1. /\ ~claims.changing[o].open /\ ~HasPending(o) /\ released' = released \ {o}
      /\ k # None => claims.ownerOf[k] \in {None, o}
      /\ UNCHANGED <<connected, sessions, pending, pendingBySession, told,
                     browserVars, known>>
  BY DEF BeginBindingChange, Occupied
<1>2. claims \in ClaimsType /\ released' \subseteq Owner
  BY <1>1 DEF IInv, TypeOK, ClaimsType
<1>3. /\ claims' \in ClaimsType
      /\ claims'.ownerOf = [x \in Key |-> IF x = k THEN o ELSE claims.ownerOf[x]]
      /\ claims'.boundTo = [claims.boundTo EXCEPT ![o] = k]
      /\ claims'.changing = [claims.changing EXCEPT ![o] = change]
      /\ claims'.promotion = claims.promotion /\ claims'.deferred = claims.deferred
  <2>1. Granted(claims.ownerOf, o, k) =
          [x \in Key |-> IF x = k THEN o ELSE claims.ownerOf[x]]
    BY <1>2 DEF Granted, ClaimsType, Key
  <2>2. claims.boundTo[o] \in Key \cup {None}
    BY <1>2 DEF ClaimsType
  <2>3. claims' = [claims EXCEPT !.changing[o] = change,
                                 !.ownerOf = Granted(@, o, k), !.boundTo[o] = k]
    BY DEF BeginBindingChange
  <2>4. change \in [open : BOOLEAN, previous : Key \cup {None}, target : Key \cup {None}]
    BY <2>2
  <2> HIDE DEF change
  <2>5. Granted(claims.ownerOf, o, k) \in [Key -> Owner \cup {None}]
    BY <1>2, <2>1 DEF ClaimsType
  <2>6. /\ claims'.ownerOf = Granted(claims.ownerOf, o, k)
        /\ claims'.boundTo = [claims.boundTo EXCEPT ![o] = k]
        /\ claims'.changing = [claims.changing EXCEPT ![o] = change]
        /\ claims'.promotion = claims.promotion /\ claims'.deferred = claims.deferred
        /\ DOMAIN claims' = DOMAIN claims
    BY <1>2, <2>3 DEF ClaimsType
  <2>7. claims' \in ClaimsType
    BY <1>2, <2>3, <2>4, <2>5 DEF ClaimsType
  <2> QED
    BY <2>1, <2>6, <2>7
<1> HIDE DEF change
<1>4. \A q \in Owner : HasPending(q)' = HasPending(q)
  BY <1>1 DEF HasPending
<1>5. change.open /\ change.previous = claims.boundTo[o] /\ change.target = k
  BY DEF change
<1>6. ClaimsAgree'
  <2>1. ASSUME NEW q \in Owner, claims'.boundTo[q] # None
        PROVE  claims'.ownerOf[claims'.boundTo[q]] = q
    BY <1>1, <1>2, <1>3, <2>1 DEF IInv, ClaimsOK, ClaimsAgree, ClaimsType
  <2>2. ASSUME NEW x \in Key, NEW q \in {claims'.ownerOf[x]} \ {None}
        PROVE  \/ x \in {claims'.boundTo[q], claims'.changing[q].previous}
               \/ \E r \in Request : pending'[r].owner = q /\ x \in pending'[r].reserved
    <3>1. CASE x = k
      BY <1>2, <1>3, <2>2, <3>1 DEF ClaimsType
    <3>2. CASE x # k
      <4>1. q \in Owner /\ claims.ownerOf[x] = q
        BY <1>2, <1>3, <2>2, <3>2 DEF ClaimsType
      <4>2. CASE q = o
        BY <1>1, <1>2, <1>3, <1>5, <4>1, <4>2, HeldKeys DEF HasPending, ClaimsType
      <4>3. CASE q # o
        BY <1>1, <1>2, <1>3, <4>1, <4>3 DEF IInv, ClaimsOK, ClaimsAgree, ClaimsType
      <4> QED
        BY <4>2, <4>3
    <3> QED
      BY <3>1, <3>2
  <2> QED
    BY <2>1, <2>2 DEF ClaimsAgree
<1>7. RequestsKeepClaims'
  <2> SUFFICES ASSUME NEW r \in Request, IsPending(r)
               PROVE  LET op == pending[r]
                      IN  /\ claims'.boundTo[op.owner] =
                               IF op.promoted THEN op.transition ELSE KeyOf(op.tab, op.page)
                          /\ op.transition # None => claims'.ownerOf[op.transition] = op.owner
                          /\ op.transition # None /\ ~op.promoted
                               => op.reserved = {op.transition}
    BY <1>1 DEF RequestsKeepClaims, IsPending
  <2>1. pending[r].owner \in Owner \ {o}
    BY <1>1, BusyIsSteady
  <2>2. pending[r].transition \in Key \cup {None}
    BY DEF IInv, RequestsOK, OperationsOK, TypeOK, Key
  <2> QED
    BY <1>1, <1>2, <1>3, <2>1, <2>2 DEF IInv, ClaimsOK, RequestsKeepClaims, ClaimsType
<1>8. ChangesOK'
  <2>1. claims'.changing[o] = change /\ claims'.boundTo[o] = k
    BY <1>2, <1>3 DEF ClaimsType
  <2>2. claims.boundTo[o] # None => claims'.ownerOf[claims.boundTo[o]] = o
    BY <1>2, <1>3 DEF IInv, ClaimsOK, ClaimsAgree, ClaimsType
  <2>3. ASSUME NEW q \in Owner \ {o}, claims.changing[q].open
        PROVE  /\ ~HasPending(q) /\ claims'.changing[q] = claims.changing[q]
               /\ claims'.boundTo[q] = claims.changing[q].target
               /\ claims.changing[q].previous # None
                    => claims'.ownerOf[claims.changing[q].previous] = q
    BY <1>1, <1>2, <1>3, <2>3 DEF IInv, ClaimsOK, ChangesOK, ClaimsType
  <2>4. ASSUME NEW q \in Owner \ {o}, ~claims.changing[q].open
        PROVE  claims'.changing[q] = NoChange /\ ~claims'.changing[q].open
    BY <1>2, <1>3, <2>4 DEF IInv, ClaimsOK, ChangesOK, ClaimsType
  <2> QED
    BY <1>1, <1>4, <1>5, <2>1, <2>2, <2>3, <2>4 DEF ChangesOK
<1>9. PromotionsOK' /\ ReleasesOK'
  BY <1>1, <1>2, <1>3, <1>4 DEF IInv, ClaimsOK, PromotionsOK, ReleasesOK, ClaimsType
<1> QED
  BY <1>1, <1>2, <1>3, <1>6, <1>7, <1>8, <1>9, ClaimStep DEF ClaimsOK

\* A commit keeps the new key of a change, a rollback the one before it.
LEMMA FinishBindingChangeStep ==
    ASSUME IInv, NEW o \in Owner, NEW commit \in BOOLEAN, FinishBindingChange(o, commit)
    PROVE  IInv'
<1> USE BridgeAssumption
<1> DEFINE change == claims.changing[o]
           keep == IF commit THEN change.target ELSE change.previous
           discard == IF commit THEN change.previous ELSE change.target
<1>1. /\ change.open /\ claims.boundTo[o] = change.target /\ ~HasPending(o)
      /\ UNCHANGED <<connected, sessions, pending, pendingBySession, told,
                     browserVars, known, released>>
  BY DEF FinishBindingChange, IInv, ClaimsOK, ChangesOK
<1>2. claims \in ClaimsType /\ released \subseteq Owner
  BY DEF IInv, TypeOK, ClaimsType
<1>3. keep \in Key \cup {None} /\ discard \in Key \cup {None}
  BY <1>2 DEF ClaimsType
<1>4. keep # None => claims.ownerOf[keep] = o
  BY <1>1, <1>2 DEF IInv, ClaimsOK, ChangesOK, ClaimsAgree
<1>5. \A x \in Key : claims.ownerOf[x] = o => x \in {keep, discard}
  BY <1>1 DEF IInv, ClaimsOK, ClaimsAgree, HasPending
<1> HIDE DEF keep, discard
<1>6. /\ claims' \in ClaimsType
      /\ claims'.ownerOf = Granted(Without(claims.ownerOf, o, {discard} \ {keep}), o, keep)
      /\ claims'.boundTo = [claims.boundTo EXCEPT ![o] = keep]
      /\ claims'.changing = [claims.changing EXCEPT ![o] = NoChange]
      /\ claims'.promotion = [claims.promotion EXCEPT
                                ![o] = IF commit THEN NoPromotion ELSE @]
      /\ claims'.deferred = claims.deferred \ {o}
  <2>1. Granted(Without(claims.ownerOf, o, {discard} \ {keep}), o, keep)
          \in [Key -> Owner \cup {None}]
    BY <1>2, <1>3 DEF Granted, Without, ClaimsType
  <2>2. claims' = [claims EXCEPT
             !.ownerOf = Granted(Without(@, o, {discard} \ {keep}), o, keep),
             !.boundTo[o] = keep,
             !.deferred = @ \ {o},
             !.changing[o] = NoChange,
             !.promotion[o] = IF commit THEN NoPromotion ELSE @]
    BY DEF FinishBindingChange, keep, discard
  <2> QED
    BY <1>2, <1>3, <2>1, <2>2 DEF ClaimsType, NoChange, NoPromotion
<1>7. claims'.ownerOf = [x \in Key |-> IF x = keep THEN o
                                       ELSE IF claims.ownerOf[x] = o THEN None
                                       ELSE claims.ownerOf[x]]
  <2>1. None \notin Key
    BY DEF Key
  <2>2. Without(claims.ownerOf, o, {discard} \ {keep}) =
          [x \in Key |-> IF x = discard /\ x # keep /\ claims.ownerOf[x] = o THEN None
                         ELSE claims.ownerOf[x]]
    BY DEF Without
  <2>3. claims'.ownerOf = [x \in Key |-> IF x = keep THEN o
                                   ELSE IF x = discard /\ claims.ownerOf[x] = o THEN None
                                   ELSE claims.ownerOf[x]]
    <3>1. CASE keep = None
      BY <1>6, <2>1, <2>2, <3>1 DEF Granted
    <3>2. CASE keep # None
      BY <1>6, <2>2, <3>2 DEF Granted
    <3> QED
      BY <3>1, <3>2
  <2> QED
    BY <1>5, <2>3
<1>8. ClaimsOK'
  <2>1. claims'.promotion[o].previous # None => claims'.promotion[o].to # None
    BY <1>2, <1>6 DEF IInv, ClaimsOK, PromotionsOK, NoPromotion, ClaimsType
  <2>2. \A q \in Owner \ {o} : /\ claims'.promotion[q] = claims.promotion[q]
                               /\ q \in claims.deferred => q \in claims'.deferred
                               /\ q \in released' => q \in released
    BY <1>1, <1>2, <1>6 DEF ClaimsType
  <2>3. o \notin released'
    BY <1>1 DEF IInv, ClaimsOK, ReleasesOK
  <2>4. \A r \in Request : pending'[r] = pending[r] /\ pending[r].owner # o
    BY <1>1 DEF HasPending
  <2>5. released' \subseteq Owner /\ (keep # None => claims.ownerOf[keep] \in {None, o})
    BY <1>1, <1>2, <1>4
  <2> QED
    BY <1>3, <1>6, <1>7, <2>1, <2>2, <2>3, <2>4, <2>5, HoldsOnly
<1> QED
  BY <1>1, <1>2, <1>6, <1>8, ClaimStep

-----------------------------------------------------------------------------
(***************************************************************************)
(* A participant sends.                                                    *)
(***************************************************************************)

\* A request is sent only to a page its owner claims and no other request holds.
LEMMA SendStep ==
    ASSUME IInv, NEW o \in Owner, NEW t \in Tab, NEW r \in Request, Send(o, t, r)
    PROVE  IInv'
<1> USE BridgeAssumption
<1> DEFINE p == sessions[t].page
           k == KeyOf(t, p)
           op == [NoOperation EXCEPT !.owner = o, !.tab = t, !.page = p]
<1>1. /\ told[r] = "unsent" /\ connected /\ pendingBySession[<<t, p>>] = None
      /\ ~claims.changing[o].open /\ ~HasPending(o) /\ MayBind(o, k)
      /\ claims' = Bound(claims, o, k)
      /\ pending' = [pending EXCEPT ![r] = op]
      /\ pendingBySession' = [pendingBySession EXCEPT ![<<t, p>>] = r]
      /\ told' = [told EXCEPT ![r] = "waiting"]
      /\ run' = [run EXCEPT ![r] = [phase |-> "sent", tab |-> t, page |-> p]]
      /\ released' = released \ {o}
      /\ UNCHANGED <<connected, sessions, page, exists, known>>
  BY DEF Send, IsNext
<1>2. p \in known \cup {Home} /\ p \in Page /\ p # None
  <2>1. p \in known \cup {Home}
    BY DEF Send, IInv, BrowserOK, PagesExist
  <2> QED
    BY <2>1 DEF IInv, TypeOK, Page
<1>3. k \in Key
  BY <1>2, KeysOfPages
<1>4. /\ op.owner = o /\ op.tab = t /\ op.page = p /\ op.transition = None
      /\ op.promoted = FALSE /\ op.reserved = {}
      /\ op \in [owner : Owner \cup {None}, tab : Tab \cup {None},
                 page : Page \cup {None}, transition : Conversation \cup {None},
                 promoted : BOOLEAN, reserved : SUBSET Conversation]
  BY <1>2 DEF NoOperation
<1>5. op # NoOperation
  BY <1>4 DEF NoOperation
<1> HIDE DEF op, k, p
<1>6. ~IsPending(r) /\ pending[r].owner = None
  BY <1>1, OwnersArePending DEF IInv, RequestsOK, UnsentIsNew
<1>7. /\ \A q \in Request \ {r} : /\ pending'[q] = pending[q] /\ run'[q] = run[q]
                                  /\ told'[q] = told[q]
                                  /\ IsPending(q)' = IsPending(q)
                                  /\ BoundSessions(q)' = BoundSessions(q)
      /\ pending'[r] = op /\ told'[r] = "waiting" /\ IsPending(r)'
      /\ run'[r] = [phase |-> "sent", tab |-> t, page |-> p]
  BY <1>1, <1>5 DEF IInv, TypeOK, IsPending, BoundSessions
<1>8. claims \in ClaimsType
  BY DEF IInv, TypeOK, ClaimsType
<1>9. /\ claims' \in ClaimsType
      /\ claims'.ownerOf =
           [x \in Key |-> IF x = k THEN o
                          ELSE IF x = claims.boundTo[o] /\ claims.ownerOf[x] = o THEN None
                          ELSE claims.ownerOf[x]]
      /\ claims'.boundTo = [claims.boundTo EXCEPT ![o] = k]
      /\ claims'.changing = claims.changing
      /\ claims'.promotion = claims.promotion
      /\ claims'.deferred = claims.deferred \ {o}
  BY <1>1, <1>3, <1>8, BoundParts
<1>10. TypeOK'
  BY <1>1, <1>2, <1>4, <1>9 DEF IInv, TypeOK, ClaimsType
<1>11. RequestsOK'
  <2>1. OperationsOK'
    BY <1>1, <1>2, <1>4, <1>7 DEF IInv, RequestsOK, OperationsOK
  <2>2. OnePerOwner'
    BY <1>1, <1>4, <1>6, <1>7 DEF IInv, RequestsOK, OnePerOwner, HasPending
  <2>3. UnsentIsNew' /\ WaitingOK'
    BY <1>1, <1>7 DEF IInv, RequestsOK, UnsentIsNew, WaitingOK
  <2>4. BoundSessions(r)' = {<<t, p>>}
    BY <1>2, <1>4, <1>7 DEF BoundSessions
  <2>5. \A q \in Request \ {r} : IsPending(q) => <<t, p>> \notin BoundSessions(q)
    BY <1>1 DEF IInv, RequestsOK, SessionsAgree, Request
  <2>6. <<t, p>> \in Tab \X Page /\ pendingBySession'[<<t, p>>] = r
        /\ \A s \in Tab \X Page : s # <<t, p>> => pendingBySession'[s] = pendingBySession[s]
    BY <1>1, <1>2 DEF IInv, TypeOK
  <2>7. SessionsAgree'
    <3>1. ASSUME NEW s \in Tab \X Page, NEW q \in {pendingBySession'[s]} \ {None}
          PROVE  IsPending(q)' /\ s \in BoundSessions(q)'
      <4>1. CASE s = <<t, p>>
        BY <1>7, <2>4, <2>6, <3>1, <4>1
      <4>2. CASE s # <<t, p>>
        <5>1. q \in Request /\ IsPending(q) /\ s \in BoundSessions(q)
          BY <2>6, <3>1, <4>2 DEF IInv, RequestsOK, SessionsAgree, TypeOK
        <5> QED
          BY <1>6, <1>7, <5>1
      <4> QED
        BY <4>1, <4>2
    <3>2. ASSUME NEW q \in Request, IsPending(q)', NEW s \in BoundSessions(q)'
          PROVE  pendingBySession'[s] = q
      <4>1. CASE q = r
        BY <2>4, <2>6, <3>2, <4>1
      <4>2. CASE q # r
        <5>1. IsPending(q) /\ s \in BoundSessions(q) /\ s # <<t, p>>
          BY <1>7, <2>5, <3>2, <4>2
        <5>2. s \in Tab \X Page
          BY <5>1 DEF BoundSessions, IInv, RequestsOK, OperationsOK, TypeOK, Page
        <5> QED
          BY <2>6, <5>1, <5>2 DEF IInv, RequestsOK, SessionsAgree
      <4> QED
        BY <4>1, <4>2
    <3> QED
      BY <3>1, <3>2 DEF SessionsAgree
  <2> QED
    BY <2>1, <2>2, <2>3, <2>7 DEF RequestsOK
<1>12. ClaimsOK'
  <2>1. \A x \in Key : claims.ownerOf[x] = o => x = claims.boundTo[o]
    BY <1>1, HeldKeys DEF HasPending
  <2>2. claims.ownerOf[k] \in {None, o}
    BY <1>1 DEF MayBind, Occupied
  <2>3. claims'.ownerOf = [x \in Key |-> IF x = k THEN o
                                         ELSE IF claims.ownerOf[x] = o THEN None
                                         ELSE claims.ownerOf[x]]
    BY <1>9, <2>1
  <2>4. claims'.changing = [claims.changing EXCEPT ![o] = NoChange]
    BY <1>1, <1>8, <1>9 DEF IInv, ClaimsOK, ChangesOK, ClaimsType
  <2>5. claims'.promotion[o].previous # None => claims'.promotion[o].to # None
    BY <1>9 DEF IInv, ClaimsOK, PromotionsOK
  <2>6. \A q \in Request \ {r} : pending'[q] = pending[q] /\ pending[q].owner # o
    BY <1>1, <1>7 DEF HasPending
  <2>7. KeyOf(pending'[r].tab, pending'[r].page) = k
    BY <1>4, <1>7 DEF k
  <2>8. /\ released' \subseteq Owner /\ o \notin released'
        /\ \A q \in Owner \ {o} : /\ claims'.promotion[q] = claims.promotion[q]
                                  /\ q \in claims.deferred => q \in claims'.deferred
                                  /\ q \in released' => q \in released
    BY <1>1, <1>9 DEF IInv, TypeOK
  <2>9. \A q \in Request :
             \/ pending'[q] = pending[q] /\ pending[q].owner # o
             \/ pending'[q] = NoOperation /\ pending[q].owner \in {o, None}
             \/ /\ pending'[q].owner = o /\ pending[q].owner \in {o, None}
                /\ pending'[q].transition = None /\ ~pending'[q].promoted
                /\ pending'[q].reserved = {}
                /\ KeyOf(pending'[q].tab, pending'[q].page) = k
    BY <1>4, <1>6, <1>7, <2>6, <2>7
  <2> QED
    BY <1>3, <1>9, <2>2, <2>3, <2>4, <2>5, <2>8, <2>9, HoldsOnly
<1>13. BrowserOK'
  <2>1. PagesExist'
    BY <1>1 DEF IInv, BrowserOK, PagesExist
  <2>2. RunsOK'
    BY <1>1, <1>2, <1>4, <1>7 DEF IInv, BrowserOK, RunsOK, AtWork, TypeOK
  <2>3. MovesOK'
    BY <1>1, <1>4, <1>7 DEF IInv, BrowserOK, MovesOK, MovedTo, AtWork
  <2> QED
    BY <2>1, <2>2, <2>3 DEF BrowserOK
<1> QED
  BY <1>10, <1>11, <1>12, <1>13 DEF IInv

-----------------------------------------------------------------------------
(***************************************************************************)
(* The connection, deadlines, and the browser.                             *)
(***************************************************************************)

\* A step that tells callers: it may lose or regain the connection, end the runs
\* of some requests, and hear of addresses that only the callers it tells moved to.
LEMMA TellStep ==
    ASSUME IInv, NEW rs \in SUBSET Request, Tell(rs, "unconfirmed"),
           connected' \in BOOLEAN,
           connected /\ ~connected' => \A r \in Request : IsPending(r) => r \in rs,
           \/ UNCHANGED sessions
           \/ sessions' = [t \in Tab |-> NoSession],
           known \subseteq known', known' \subseteq exists,
           \A r \in Request : \A c \in known' \ known : MovedTo(r, c) => r \in rs,
           run' \in [Request -> [phase : {"unsent", "sent", "running", "over"},
                                 tab : Tab \cup {None}, page : Page \cup {None}]],
           \A r \in Request : run'[r] = run[r] \/ ~AtWork(r)',
           UNCHANGED <<pending, pendingBySession, claims, page, exists, released>>
    PROVE  IInv'
<1> USE BridgeAssumption
<1>1. told' = [r \in Request |-> IF r \in rs /\ told[r] = "waiting" THEN "unconfirmed"
                                 ELSE told[r]]
  BY DEF Tell
<1>2. TypeOK'
  <2>1. sessions' \in [Tab -> [page : Page \cup {None}, ready : BOOLEAN]]
    <3>1. CASE UNCHANGED sessions
      BY <3>1 DEF IInv, TypeOK
    <3>2. CASE sessions' = [t \in Tab |-> NoSession]
      BY <3>2 DEF NoSession
    <3> QED
      BY <3>1, <3>2
  <2>2. told' \in [Request -> {"unsent", "waiting", "unconfirmed", "ended"}]
    BY <1>1 DEF IInv, TypeOK
  <2> QED
    BY <2>1, <2>2 DEF IInv, TypeOK
<1>3. RequestsOK'
  <2>1. OperationsOK' /\ OnePerOwner' /\ SessionsAgree'
    BY DEF IInv, RequestsOK, OperationsOK, OnePerOwner, SessionsAgree, IsPending, BoundSessions
  <2>2. UnsentIsNew' /\ WaitingOK'
    BY <1>1 DEF IInv, RequestsOK, UnsentIsNew, WaitingOK, IsPending
  <2> QED
    BY <2>1, <2>2 DEF RequestsOK
<1>4. ClaimsOK'
  BY DEF IInv, ClaimsOK, ClaimsAgree, RequestsKeepClaims, ChangesOK, PromotionsOK,
         ReleasesOK, HasPending, IsPending
<1>5. BrowserOK'
  <2>1. PagesExist'
    BY DEF IInv, BrowserOK, PagesExist, NoSession
  <2>2. RunsOK'
    BY DEF IInv, BrowserOK, RunsOK, AtWork, IsPending
  <2>3. \A q \in Request, c \in Conversation : MovedTo(q, c)' => MovedTo(q, c)
    BY DEF MovedTo, AtWork
  <2>4. \A q \in Request : told'[q] = "waiting" => told[q] = "waiting" /\ q \notin rs
    BY <1>1
  <2>5. MovesOK'
    BY <2>3, <2>4 DEF IInv, BrowserOK, MovesOK
  <2> QED
    BY <2>1, <2>2, <2>5 DEF BrowserOK
<1> QED
  BY <1>2, <1>3, <1>4, <1>5 DEF IInv

\* A lost connection tells every caller, and leaves claims and pages alone.
LEMMA DisconnectStep == ASSUME IInv, Disconnect PROVE IInv'
  BY TellStep DEF Disconnect, SettleUnconfirmed, browserVars, IInv, TypeOK

\* A deadline tells one caller, and leaves claims and pages alone.
LEMMA ExpireStep == ASSUME IInv, NEW r \in Request, Expire(r) PROVE IInv'
  BY TellStep DEF Expire, SettleUnconfirmed, browserVars, IInv, TypeOK

\* A connection comes back with no session announced yet.
LEMMA ConnectStep == ASSUME IInv, Connect PROVE IInv'
<1>1. Tell({}, "unconfirmed")
  BY DEF Connect, Tell, IInv, TypeOK
<1> QED
  BY <1>1, TellStep DEF Connect, browserVars, IInv, TypeOK

\* A step of the browser alone leaves the bridge as it was.
LEMMA BrowserStep ==
    ASSUME IInv, UNCHANGED <<bridgeVars, known, released>>, BrowserOK',
           page' \in [Tab -> Page], exists \subseteq exists', exists' \subseteq Conversation,
           run' \in [Request -> [phase : {"unsent", "sent", "running", "over"},
                                 tab : Tab \cup {None}, page : Page \cup {None}]]
    PROVE  IInv'
<1>1. TypeOK'
  BY DEF IInv, TypeOK, bridgeVars
<1>2. RequestsOK'
  BY DEF IInv, RequestsOK, OperationsOK, OnePerOwner, UnsentIsNew, SessionsAgree,
         WaitingOK, IsPending, BoundSessions, bridgeVars
<1>3. ClaimsOK'
  BY DEF IInv, ClaimsOK, ClaimsAgree, RequestsKeepClaims, ChangesOK, PromotionsOK,
         ReleasesOK, HasPending, IsPending, bridgeVars
<1> QED
  BY <1>1, <1>2, <1>3 DEF IInv

\* The end of a run takes it out of the browser.
LEMMA EndedRun ==
    ASSUME IInv, NEW r \in Request, RunEnds(r)
    PROVE  /\ ~AtWork(r)' /\ \A q \in Request \ {r} : run'[q] = run[q]
           /\ run' \in [Request -> [phase : {"unsent", "sent", "running", "over"},
                                    tab : Tab \cup {None}, page : Page \cup {None}]]
  BY DEF RunEnds, AtWork, IInv, TypeOK, NoRun

\* A run starts on the page its request was sent to.
LEMMA RunStartsStep == ASSUME IInv, NEW r \in Request, RunStarts(r) PROVE IInv'
<1>1. /\ run[r].phase = "sent" /\ page[run[r].tab] = run[r].page
      /\ run' = [run EXCEPT ![r].phase = "running"]
      /\ UNCHANGED <<bridgeVars, page, exists, known, released>>
  BY DEF RunStarts
<1>2. /\ run' \in [Request -> [phase : {"unsent", "sent", "running", "over"},
                               tab : Tab \cup {None}, page : Page \cup {None}]]
      /\ run'[r].tab = run[r].tab /\ run'[r].page = run[r].page
      /\ AtWork(r)' /\ AtWork(r)
      /\ \A q \in Request \ {r} : run'[q] = run[q] /\ AtWork(q)' = AtWork(q)
  BY <1>1 DEF AtWork, IInv, TypeOK
<1>3. BrowserOK'
  <2>1. PagesExist' /\ RunsOK'
    BY <1>1, <1>2 DEF IInv, BrowserOK, PagesExist, RunsOK, IsPending, bridgeVars
  <2>2. MovesOK'
    BY <1>1, <1>2 DEF IInv, BrowserOK, MovesOK, MovedTo, bridgeVars
  <2> QED
    BY <2>1, <2>2 DEF BrowserOK
<1> QED
  BY <1>1, <1>2, <1>3, BrowserStep DEF IInv, TypeOK

\* A run's first turn moves its tab to a conversation nobody knew before.
LEMMA RunMovesStep ==
    ASSUME IInv, NEW r \in Request, NEW c \in Conversation, RunMoves(r, c)
    PROVE  IInv'
<1> USE BridgeAssumption
<1>1. /\ run[r].phase = "running" /\ run[r].page = Home /\ c \notin exists
      /\ run' = [run EXCEPT ![r].page = c]
      /\ page' = [page EXCEPT ![run[r].tab] = c] /\ exists' = exists \cup {c}
      /\ UNCHANGED <<bridgeVars, known, released>>
  BY DEF RunMoves
<1>2. /\ run' \in [Request -> [phase : {"unsent", "sent", "running", "over"},
                               tab : Tab \cup {None}, page : Page \cup {None}]]
      /\ run'[r].tab = run[r].tab /\ run'[r].page = c
      /\ AtWork(r)' /\ AtWork(r) /\ run'[r].phase = run[r].phase
      /\ \A q \in Request \ {r} : run'[q] = run[q] /\ AtWork(q)' = AtWork(q)
  BY <1>1 DEF AtWork, IInv, TypeOK, Page
<1>3. /\ IsPending(r) /\ run[r].tab = pending[r].tab /\ run[r].tab \in Tab
      /\ pending[r].page = Home /\ page[run[r].tab] = Home
  <2>1. IsPending(r) /\ run[r].tab = pending[r].tab /\ page[run[r].tab] = Home
    BY <1>1, <1>2 DEF IInv, BrowserOK, RunsOK
  <2>2. pending[r].page = Home
    BY <1>1, <1>2 DEF IInv, BrowserOK, RunsOK
  <2> QED
    BY <2>1, <2>2 DEF IInv, RequestsOK, OperationsOK
<1>4. \* nothing else runs in the tab
      \A q \in Request \ {r} : AtWork(q) /\ run[q].phase = "running" => run[q].tab # run[r].tab
  <2> SUFFICES ASSUME NEW q \in Request \ {r}, AtWork(q), run[q].phase = "running",
                      run[q].tab = run[r].tab
               PROVE  FALSE
    OBVIOUS
  <2>1. IsPending(q) /\ pending[q].tab = run[r].tab /\ pending[q].page = Home
    BY <1>3 DEF IInv, BrowserOK, RunsOK
  <2>2. <<run[r].tab, Home>> \in BoundSessions(q) /\ <<run[r].tab, Home>> \in BoundSessions(r)
    BY <1>3, <2>1 DEF BoundSessions
  <2> QED
    BY <1>3, <2>1, <2>2 DEF IInv, RequestsOK, SessionsAgree
<1>5. page' \in [Tab -> Page] /\ exists' \subseteq Conversation
  BY <1>1 DEF IInv, TypeOK, Page
<1>6. BrowserOK'
  <2>1. PagesExist'
    BY <1>1, <1>3 DEF IInv, BrowserOK, PagesExist, bridgeVars, TypeOK
  <2>2. RunsOK'
    <3>1. ASSUME NEW q \in Request \ {r}, AtWork(q), run[q].phase = "running"
          PROVE  page'[run[q].tab] = run[q].page
      <4>1. run[q].tab \in Tab
        BY <3>1 DEF IInv, BrowserOK, RunsOK, RequestsOK, OperationsOK
      <4> QED
        BY <1>1, <1>3, <1>4, <3>1, <4>1 DEF IInv, BrowserOK, RunsOK, TypeOK
    <3>2. page'[run'[r].tab] = run'[r].page
      BY <1>1, <1>2, <1>3 DEF IInv, TypeOK
    <3> QED
      BY <1>1, <1>2, <1>3, <3>1, <3>2 DEF IInv, BrowserOK, RunsOK, IsPending, bridgeVars
  <2>3. \A q \in Request : ~MovedTo(q, c)
    BY <1>1 DEF MovedTo, IInv, BrowserOK, RunsOK
  <2>4. \A q \in Request \ {r}, d \in Conversation : MovedTo(q, d)' = MovedTo(q, d)
    BY <1>1, <1>2 DEF MovedTo, bridgeVars
  <2>5. \A d \in Conversation : MovedTo(r, d)' => d = c
    BY <1>2 DEF MovedTo
  <2>6. c \notin known
    BY <1>1 DEF IInv, TypeOK
  <2>7. MovesOK'
    BY <1>1, <2>3, <2>4, <2>5, <2>6 DEF IInv, BrowserOK, MovesOK, bridgeVars
  <2> QED
    BY <2>1, <2>2, <2>7 DEF BrowserOK
<1> QED
  BY <1>1, <1>2, <1>5, <1>6, BrowserStep

\* A run that is lost works nowhere.
LEMMA RunIsLostStep == ASSUME IInv, NEW r \in Request, RunIsLost(r) PROVE IInv'
<1>1. RunEnds(r) /\ UNCHANGED <<bridgeVars, page, exists, known, released>>
  BY DEF RunIsLost
<1>2. /\ ~AtWork(r)' /\ \A q \in Request \ {r} : run'[q] = run[q]
      /\ run' \in [Request -> [phase : {"unsent", "sent", "running", "over"},
                               tab : Tab \cup {None}, page : Page \cup {None}]]
  BY <1>1, EndedRun
<1>3. BrowserOK'
  <2>1. PagesExist'
    BY <1>1 DEF IInv, BrowserOK, PagesExist, bridgeVars
  <2>2. RunsOK'
    BY <1>1, <1>2 DEF IInv, BrowserOK, RunsOK, AtWork, IsPending, bridgeVars
  <2>3. MovesOK'
    BY <1>1, <1>2 DEF IInv, BrowserOK, MovesOK, MovedTo, AtWork, bridgeVars
  <2> QED
    BY <2>1, <2>2, <2>3 DEF BrowserOK
<1> QED
  BY <1>1, <1>2, <1>3, BrowserStep DEF IInv, TypeOK

\* A person opens a page in a tab: the tab moves, the claims do not.
LEMMA OpenStep == ASSUME IInv, NEW t \in Tab, NEW p \in Page, Open(t, p) PROVE IInv'
<1>1. /\ p \in exists \cup {Home} /\ ~Running(t, page[t])
      /\ page' = [page EXCEPT ![t] = p]
      /\ UNCHANGED <<bridgeVars, run, exists, known, released>>
  BY DEF Open
<1>2. BrowserOK'
  <2>1. PagesExist'
    BY <1>1 DEF IInv, BrowserOK, PagesExist, TypeOK, bridgeVars
  <2>2. RunsOK'
    <3> SUFFICES ASSUME NEW r \in Request, AtWork(r), run[r].phase = "running"
                 PROVE  page'[run[r].tab] = run[r].page
      BY <1>1 DEF IInv, BrowserOK, RunsOK, AtWork, IsPending, bridgeVars
    <3>1. run[r].tab \in Tab /\ page[run[r].tab] = run[r].page
      BY DEF IInv, BrowserOK, RunsOK, RequestsOK, OperationsOK
    <3>2. run[r] = [phase |-> run[r].phase, tab |-> run[r].tab, page |-> run[r].page]
      BY DEF IInv, TypeOK
    <3>3. run[r].tab # t
      BY <1>1, <3>1, <3>2 DEF Running
    <3> QED
      BY <1>1, <3>1, <3>3 DEF IInv, TypeOK
  <2>3. MovesOK'
    BY <1>1 DEF IInv, BrowserOK, MovesOK, MovedTo, AtWork, bridgeVars
  <2> QED
    BY <2>1, <2>2, <2>3 DEF BrowserOK
<1> QED
  BY <1>1, <1>2, BrowserStep DEF IInv, TypeOK

-----------------------------------------------------------------------------
(***************************************************************************)
(* The browser publishes its sessions.                                     *)
(***************************************************************************)

Winners == {r \in Request : Reserves(r)}
NewPage(r) == page[pending[r].tab]

\* A request that reserves an address: the address is new to it, and neither it
\* nor the session is another's.
LEMMA WinnersReserve ==
    ASSUME IInv, NEW r \in Winners
    PROVE  /\ r \in Request /\ IsPending(r) /\ pending[r].page = Home
           /\ pending[r].owner \in Owner /\ pending[r].tab \in Tab
           /\ NewPage(r) \in Conversation /\ NewPage(r) \in Page /\ NewPage(r) \in Key
           /\ NewPage(r) \in exists
           /\ KeyOf(pending[r].tab, NewPage(r)) = NewPage(r)
           /\ pendingBySession[<<pending[r].tab, NewPage(r)>>] \in {None, r}
           /\ claims.ownerOf[NewPage(r)] \in {None, pending[r].owner}
           /\ pending[r].transition \in {None, NewPage(r)}
<1> USE BridgeAssumption
<1>1. r \in Request /\ Moved(r) /\ ~Refused(r)
  BY DEF Winners, Reserves
<1>2. IsPending(r) /\ pending[r].page = Home /\ NewPage(r) # Home
  BY <1>1 DEF Moved, Follows, NewPage
<1>3. pending[r].owner \in Owner /\ pending[r].tab \in Tab
  BY <1>1, <1>2 DEF IInv, RequestsOK, OperationsOK
<1>4. NewPage(r) \in Page /\ NewPage(r) \in exists
  BY <1>2, <1>3 DEF IInv, TypeOK, BrowserOK, PagesExist, NewPage
<1>5. /\ KeyOf(pending[r].tab, NewPage(r)) = NewPage(r)
      /\ NewPage(r) \in Conversation /\ NewPage(r) \in Key
  BY <1>2, <1>3, <1>4 DEF KeyOf, Page, Key
<1>6. /\ pendingBySession[<<pending[r].tab, NewPage(r)>>] \in {None, r}
      /\ claims.ownerOf[NewPage(r)] \in {None, pending[r].owner}
      /\ pending[r].transition \in {None, NewPage(r)}
  BY <1>1, <1>5 DEF Refused, Occupied, NewPage
<1> QED
  BY <1>1, <1>2, <1>3, <1>4, <1>5, <1>6

\* Only the first request that shows an address reserves it.
LEMMA OneWinnerPerPage ==
    ASSUME IInv, NEW q \in Winners, NEW r \in Winners, NewPage(q) = NewPage(r)
    PROVE  q = r
<1>1. q \in Nat /\ r \in Nat /\ q >= 1 /\ r >= 1 /\ q \in Request /\ r \in Request
  BY BridgeAssumption DEF Winners, Request
<1>2. ASSUME NEW x \in Winners, NEW y \in Winners, NewPage(x) = NewPage(y),
             x \in Nat, y \in Nat, x >= 1
      PROVE  ~(x < y)
  <2>1. x < y => x \in 1 .. y - 1
    BY <1>2
  <2> QED
    BY <1>2, <2>1 DEF Winners, Reserves, NewPage
<1> QED
  BY <1>1, <1>2

\* What the message changes, request by request, session by session, key by key.
LEMMA StatusParts ==
    ASSUME IInv, Status
    PROVE  /\ \A r \in Request :
                /\ pending'[r] # NoOperation <=> pending[r] # NoOperation
                /\ pending'[r].owner = pending[r].owner /\ pending'[r].tab = pending[r].tab
                /\ pending'[r].page = pending[r].page
                /\ pending'[r].promoted = pending[r].promoted
                /\ pending[r].transition # None => pending'[r].transition = pending[r].transition
           /\ \A r \in Winners :
                /\ pending'[r].transition = NewPage(r)
                /\ pending'[r].reserved = pending[r].reserved \cup {NewPage(r)}
           /\ \A r \in Request \ Winners :
                /\ pending'[r].transition = pending[r].transition
                /\ pending'[r].reserved = pending[r].reserved
           /\ \A s \in Tab \X Page :
                \/ \E r \in Winners : /\ s = <<pending[r].tab, NewPage(r)>>
                                      /\ pendingBySession'[s] = r
                                      /\ pendingBySession[s] \in {None, r}
                \/ /\ \A r \in Winners : s # <<pending[r].tab, NewPage(r)>>
                   /\ pendingBySession'[s] = pendingBySession[s]
           /\ \A k \in Key :
                \/ \E r \in Winners : /\ k = NewPage(r)
                                      /\ claims'.ownerOf[k] = pending[r].owner
                                      /\ claims.ownerOf[k] \in {None, pending[r].owner}
                \/ /\ \A r \in Winners : k # NewPage(r)
                   /\ claims'.ownerOf[k] = claims.ownerOf[k]
           /\ claims' \in ClaimsType /\ claims'.boundTo = claims.boundTo
           /\ claims'.changing = claims.changing /\ claims'.promotion = claims.promotion
           /\ claims'.deferred = claims.deferred
           /\ pending' \in [Request -> [owner : Owner \cup {None}, tab : Tab \cup {None},
                                        page : Page \cup {None},
                                        transition : Conversation \cup {None},
                                        promoted : BOOLEAN, reserved : SUBSET Conversation]]
           /\ pendingBySession' \in [Tab \X Page -> Request \cup {None}]
<1> USE BridgeAssumption
<1> DEFINE to == [r \in Winners |-> NewPage(r)]
           key == [r \in Winners |-> KeyOf(pending[r].tab, to[r])]
<1>1. /\ pending' = [r \in Request |->
             IF r \in Winners
             THEN [pending[r] EXCEPT !.transition = to[r], !.reserved = @ \cup {key[r]}]
             ELSE pending[r]]
      /\ pendingBySession' = [s \in Tab \X Page |->
             IF \E r \in Winners : s = <<pending[r].tab, to[r]>>
             THEN CHOOSE r \in Winners : s = <<pending[r].tab, to[r]>>
             ELSE pendingBySession[s]]
      /\ claims' = [claims EXCEPT !.ownerOf = [k \in Key |->
             IF \E r \in Winners : key[r] = k
             THEN pending[CHOOSE r \in Winners : key[r] = k].owner
             ELSE @[k]]]
  BY DEF Status, Winners, NewPage
<1>2. \A r \in Winners : to[r] = NewPage(r) /\ key[r] = NewPage(r)
  BY WinnersReserve
<1> HIDE DEF to, key
<1>3. \A r \in Request :
           pending[r] \in [owner : Owner \cup {None}, tab : Tab \cup {None},
                           page : Page \cup {None}, transition : Conversation \cup {None},
                           promoted : BOOLEAN, reserved : SUBSET Conversation]
  BY DEF IInv, TypeOK
<1>4. ASSUME NEW r \in Winners
      PROVE  /\ pending'[r] # NoOperation /\ pending[r] # NoOperation
             /\ pending'[r].owner = pending[r].owner /\ pending'[r].tab = pending[r].tab
             /\ pending'[r].page = pending[r].page
             /\ pending'[r].promoted = pending[r].promoted
             /\ pending[r].transition # None => pending'[r].transition = pending[r].transition
             /\ pending'[r].transition = NewPage(r)
             /\ pending'[r].reserved = pending[r].reserved \cup {NewPage(r)}
             /\ pending'[r] \in [owner : Owner \cup {None}, tab : Tab \cup {None},
                           page : Page \cup {None}, transition : Conversation \cup {None},
                           promoted : BOOLEAN, reserved : SUBSET Conversation]
  <2>1. /\ r \in Request /\ IsPending(r) /\ pending[r].owner \in Owner
        /\ NewPage(r) \in Conversation /\ pending[r].transition \in {None, NewPage(r)}
    BY WinnersReserve
  <2>2. pending'[r] = [pending[r] EXCEPT !.transition = NewPage(r),
                                         !.reserved = pending[r].reserved \cup {NewPage(r)}]
    BY <1>1, <1>2, <2>1
  <2> DEFINE op == pending[r]
             c == NewPage(r)
             next == pending'[r]
  <2>3. op \in [owner : Owner \cup {None}, tab : Tab \cup {None},
                page : Page \cup {None}, transition : Conversation \cup {None},
                promoted : BOOLEAN, reserved : SUBSET Conversation]
    BY <1>3, <2>1
  <2>4. next = [op EXCEPT !.transition = c, !.reserved = op.reserved \cup {c}]
        /\ c \in Conversation
    BY <2>1, <2>2
  <2> HIDE DEF op, c, next
  <2>5. /\ next.owner = op.owner /\ next.tab = op.tab /\ next.page = op.page
        /\ next.promoted = op.promoted /\ next.transition = c
        /\ next.reserved = op.reserved \cup {c}
        /\ next \in [owner : Owner \cup {None}, tab : Tab \cup {None},
                     page : Page \cup {None}, transition : Conversation \cup {None},
                     promoted : BOOLEAN, reserved : SUBSET Conversation]
    BY <2>3, <2>4
  <2>6. next # NoOperation /\ op # NoOperation
    BY <2>1, <2>5 DEF NoOperation, IsPending, op
  <2> QED
    BY <2>1, <2>5, <2>6 DEF op, c, next
<1>5. ASSUME NEW r \in Request \ Winners
      PROVE  pending'[r] = pending[r]
  BY <1>1
<1>6. ASSUME NEW s \in Tab \X Page
      PROVE  \/ \E r \in Winners : /\ s = <<pending[r].tab, NewPage(r)>>
                                   /\ pendingBySession'[s] = r
                                   /\ pendingBySession[s] \in {None, r}
             \/ /\ \A r \in Winners : s # <<pending[r].tab, NewPage(r)>>
                /\ pendingBySession'[s] = pendingBySession[s]
  <2>1. CASE \E r \in Winners : s = <<pending[r].tab, to[r]>>
    <3> DEFINE q == CHOOSE r \in Winners : s = <<pending[r].tab, to[r]>>
    <3>1. q \in Winners /\ s = <<pending[q].tab, to[q]>>
      BY <2>1
    <3>2. pendingBySession'[s] = q
      BY <1>1, <2>1
    <3> HIDE DEF q
    <3>3. s = <<pending[q].tab, NewPage(q)>> /\ pendingBySession[s] \in {None, q}
      BY <1>2, <3>1, WinnersReserve
    <3> QED
      BY <3>1, <3>2, <3>3
  <2>2. CASE ~ \E r \in Winners : s = <<pending[r].tab, to[r]>>
    BY <1>1, <1>2, <2>2
  <2> QED
    BY <2>1, <2>2
<1>7. ASSUME NEW k \in Key
      PROVE  \/ \E r \in Winners : /\ k = NewPage(r)
                                   /\ claims'.ownerOf[k] = pending[r].owner
                                   /\ claims.ownerOf[k] \in {None, pending[r].owner}
             \/ /\ \A r \in Winners : k # NewPage(r)
                /\ claims'.ownerOf[k] = claims.ownerOf[k]
  <2>1. claims'.ownerOf[k] = IF \E r \in Winners : key[r] = k
                             THEN pending[CHOOSE r \in Winners : key[r] = k].owner
                             ELSE claims.ownerOf[k]
    BY <1>1 DEF IInv, TypeOK
  <2>2. CASE \E r \in Winners : key[r] = k
    <3> DEFINE q == CHOOSE r \in Winners : key[r] = k
    <3>1. q \in Winners /\ key[q] = k
      BY <2>2
    <3>2. claims'.ownerOf[k] = pending[q].owner
      BY <2>1, <2>2
    <3> HIDE DEF q
    <3> QED
      BY <1>2, <3>1, <3>2, WinnersReserve
  <2>3. CASE ~ \E r \in Winners : key[r] = k
    BY <1>2, <2>1, <2>3
  <2> QED
    BY <2>2, <2>3
<1>8. /\ claims'.boundTo = claims.boundTo
      /\ claims'.changing = claims.changing /\ claims'.promotion = claims.promotion
      /\ claims'.deferred = claims.deferred /\ claims' \in ClaimsType
  <2>1. claims \in ClaimsType
    BY DEF IInv, TypeOK, ClaimsType
  <2>2. \A k \in Key : claims'.ownerOf[k] \in Owner \cup {None}
    BY <1>7, <2>1, WinnersReserve DEF ClaimsType
  <2>3. claims'.ownerOf = [k \in Key |-> claims'.ownerOf[k]]
    BY <1>1, <2>1 DEF ClaimsType
  <2> QED
    BY <1>1, <2>1, <2>2, <2>3 DEF ClaimsType
<1>9. pendingBySession' \in [Tab \X Page -> Request \cup {None}]
  <2>1. \A s \in Tab \X Page : pendingBySession'[s] \in Request \cup {None}
    BY <1>6 DEF IInv, TypeOK, Winners
  <2> QED
    BY <1>1, <2>1
<1>10. pending' \in [Request -> [owner : Owner \cup {None}, tab : Tab \cup {None},
                                 page : Page \cup {None},
                                 transition : Conversation \cup {None},
                                 promoted : BOOLEAN, reserved : SUBSET Conversation]]
  BY <1>1, <1>3, <1>4, <1>5
<1>11. /\ \A r \in Request :
            /\ pending'[r] # NoOperation <=> pending[r] # NoOperation
            /\ pending'[r].owner = pending[r].owner /\ pending'[r].tab = pending[r].tab
            /\ pending'[r].page = pending[r].page
            /\ pending'[r].promoted = pending[r].promoted
            /\ pending[r].transition # None => pending'[r].transition = pending[r].transition
       /\ \A r \in Winners :
            /\ pending'[r].transition = NewPage(r)
            /\ pending'[r].reserved = pending[r].reserved \cup {NewPage(r)}
       /\ \A r \in Request \ Winners :
            /\ pending'[r].transition = pending[r].transition
            /\ pending'[r].reserved = pending[r].reserved
  BY <1>4, <1>5
<1> QED
  BY <1>6, <1>7, <1>8, <1>9, <1>10, <1>11

\* A status announces the pages, and reserves the page that a request has moved to.
LEMMA StatusStep == ASSUME IInv, Status PROVE IInv'
<1> USE BridgeAssumption
<1>1. /\ connected /\ UNCHANGED <<connected, page, run, exists, released>>
      /\ sessions' = [t \in Tab |-> [page |-> page[t], ready |-> ~Running(t, page[t])]]
      /\ told' = [r \in Request |-> IF Unfollowed(r) /\ told[r] = "waiting" THEN "unconfirmed"
                                    ELSE told[r]]
      /\ known' = known \cup ({page[t] : t \in Tab} \ {Home})
  BY DEF Status, Tell, browserVars
<1>2. /\ \A t \in Tab : page[t] \in known' \cup {Home}
      /\ known \subseteq known' /\ known' \subseteq exists
  BY <1>1 DEF IInv, TypeOK, BrowserOK, PagesExist
<1>3. \A r \in Request :
         /\ pending'[r] # NoOperation <=> pending[r] # NoOperation
         /\ pending'[r].owner = pending[r].owner /\ pending'[r].tab = pending[r].tab
         /\ pending'[r].page = pending[r].page
         /\ pending'[r].promoted = pending[r].promoted
         /\ pending[r].transition # None => pending'[r].transition = pending[r].transition
  BY StatusParts
<1>4. \A r \in Winners :
        /\ pending'[r].transition = NewPage(r)
        /\ pending'[r].reserved = pending[r].reserved \cup {NewPage(r)}
  BY StatusParts
<1>5. \A r \in Request \ Winners :
        /\ pending'[r].transition = pending[r].transition
        /\ pending'[r].reserved = pending[r].reserved
  BY StatusParts
<1>6. \A r \in Winners :
        /\ r \in Request /\ pending[r] # NoOperation /\ pending[r].page = Home
        /\ pending[r].owner \in Owner /\ pending[r].tab \in Tab
        /\ NewPage(r) \in Page /\ NewPage(r) \in Key /\ NewPage(r) # None
  BY WinnersReserve DEF IsPending
<1>7. \A s \in Tab \X Page :
         \/ \E r \in Winners : /\ s = <<pending[r].tab, NewPage(r)>>
                               /\ pendingBySession'[s] = r
                               /\ pendingBySession[s] \in {None, r}
         \/ /\ \A r \in Winners : s # <<pending[r].tab, NewPage(r)>>
            /\ pendingBySession'[s] = pendingBySession[s]
  BY StatusParts
<1>8. \A k \in Key :
         \/ \E r \in Winners : /\ k = NewPage(r)
                               /\ claims'.ownerOf[k] = pending[r].owner
                               /\ claims.ownerOf[k] \in {None, pending[r].owner}
         \/ /\ \A r \in Winners : k # NewPage(r)
            /\ claims'.ownerOf[k] = claims.ownerOf[k]
  BY StatusParts
<1>9. /\ claims' \in ClaimsType /\ claims'.boundTo = claims.boundTo
      /\ claims'.changing = claims.changing /\ claims'.promotion = claims.promotion
      /\ claims'.deferred = claims.deferred
  BY StatusParts
<1>10. TypeOK'
  <2>1. sessions' \in [Tab -> [page : Page \cup {None}, ready : BOOLEAN]]
    BY <1>1 DEF IInv, TypeOK, Running
  <2>2. told' \in [Request -> {"unsent", "waiting", "unconfirmed", "ended"}]
    BY <1>1 DEF IInv, TypeOK
  <2> QED
    BY <1>1, <1>2, <1>9, <2>1, <2>2, StatusParts DEF IInv, TypeOK, ClaimsType
<1>11. \A q \in Owner : HasPending(q)' = HasPending(q)
  BY <1>3, <1>4, <1>5 DEF HasPending
\* A claim that is not new stays.
<1>12. \A k \in Key, q \in Owner : claims.ownerOf[k] = q => claims'.ownerOf[k] = q
  BY <1>8
<1>13. RequestsOK'
  <2>1. OperationsOK'
    <3> SUFFICES ASSUME NEW r \in Request, IsPending(r)
                 PROVE  /\ pending'[r].owner \in Owner /\ pending'[r].tab \in Tab
                        /\ pending'[r].page \in known' \cup {Home}
                        /\ pending'[r].transition \in known' \cup {None}
                        /\ pending'[r].transition # None => pending'[r].page = Home
                        /\ pending'[r].promoted => pending'[r].transition # None
                        /\ pending'[r].reserved \subseteq {pending'[r].transition} \ {None}
      BY <1>3 DEF OperationsOK, IsPending
    <3>1. /\ pending[r].owner \in Owner /\ pending[r].tab \in Tab
          /\ pending[r].page \in known \cup {Home}
          /\ pending[r].transition \in known \cup {None}
          /\ pending[r].transition # None => pending[r].page = Home
          /\ pending[r].promoted => pending[r].transition # None
          /\ pending[r].reserved \subseteq {pending[r].transition} \ {None}
      BY DEF IInv, RequestsOK, OperationsOK
    <3>2. CASE r \in Winners
      <4>1. NewPage(r) \in Conversation /\ NewPage(r) # None
        BY <1>6, <3>2, WinnersReserve
      <4>2. NewPage(r) \in known' \cup {Home}
        BY <1>2, <3>1 DEF NewPage
      <4>3. NewPage(r) \in known'
        BY <4>1, <4>2
      <4> QED
        BY <1>2, <1>3, <1>4, <1>6, <3>1, <3>2, <4>1, <4>3
    <3>3. CASE r \notin Winners
      BY <1>2, <1>3, <1>4, <1>5, <3>1, <3>3
    <3> QED
      BY <3>2, <3>3
  <2>2. OnePerOwner'
    BY <1>3 DEF IInv, RequestsOK, OnePerOwner, IsPending
  <2>3. UnsentIsNew' /\ WaitingOK'
    BY <1>1, <1>3 DEF IInv, RequestsOK, UnsentIsNew, WaitingOK, IsPending
  <2>4. ASSUME NEW r \in Request, NEW s \in BoundSessions(r)
        PROVE  s \in BoundSessions(r)'
    <3>1. pending'[r].tab = pending[r].tab /\ pending'[r].page = pending[r].page
      BY <1>3, <1>4, <1>5
    <3>2. pending[r].transition # None => pending'[r].transition = pending[r].transition
      BY <1>3, <1>4, <1>5
    <3> QED
      BY <2>4, <3>1, <3>2 DEF BoundSessions
  <2>5. ASSUME NEW r \in Winners
        PROVE  <<pending[r].tab, NewPage(r)>> \in BoundSessions(r)'
    <3>1. /\ pending'[r].tab = pending[r].tab /\ pending'[r].transition = NewPage(r)
          /\ NewPage(r) # None
      BY <1>3, <1>4, <1>6
    <3> QED
      BY <3>1 DEF BoundSessions
  <2>6. ASSUME NEW r \in Request, NEW s \in BoundSessions(r)'
        PROVE  s \in BoundSessions(r) \/ (r \in Winners /\ s = <<pending[r].tab, NewPage(r)>>)
    BY <1>3, <1>4, <1>5, <2>6 DEF BoundSessions
  <2>7. ASSUME NEW s \in Tab \X Page, NEW q \in {pendingBySession'[s]} \ {None}
        PROVE  IsPending(q)' /\ s \in BoundSessions(q)'
    <3>1. CASE pendingBySession'[s] = pendingBySession[s]
      <4>1. q \in Request /\ IsPending(q) /\ s \in BoundSessions(q)
        BY <2>7, <3>1 DEF IInv, TypeOK, RequestsOK, SessionsAgree
      <4> QED
        BY <1>3, <2>4, <4>1 DEF IsPending
    <3>2. CASE q \in Winners /\ s = <<pending[q].tab, NewPage(q)>>
      BY <1>3, <1>6, <2>5, <3>2 DEF IsPending
    <3> QED
      BY <1>7, <2>7, <3>1, <3>2
  <2>8. ASSUME NEW q \in Request, IsPending(q)', NEW s \in BoundSessions(q)'
        PROVE  pendingBySession'[s] = q
    <3>1. CASE s \in BoundSessions(q)
      <4>1. s \in Tab \X Page /\ pendingBySession[s] = q /\ q # None
        <5>1. IsPending(q) /\ pending[q].tab \in Tab /\ q # None
          BY <1>3, <2>8 DEF IsPending, IInv, RequestsOK, OperationsOK, Request
        <5>2. s \in Tab \X Page
          BY <3>1, <5>1 DEF BoundSessions, IInv, TypeOK, Page
        <5> QED
          BY <3>1, <5>1, <5>2 DEF IInv, RequestsOK, SessionsAgree
      <4> QED
        BY <1>7, <4>1
    <3>2. CASE q \in Winners /\ s = <<pending[q].tab, NewPage(q)>>
      <4>1. s \in Tab \X Page
        BY <3>2, WinnersReserve
      <4>2. PICK r \in Winners : s = <<pending[r].tab, NewPage(r)>> /\ pendingBySession'[s] = r
        BY <1>7, <3>2, <4>1
      <4>3. NewPage(q) = NewPage(r)
        BY <3>2, <4>2
      <4> QED
        BY <3>2, <4>2, <4>3, OneWinnerPerPage
    <3> QED
      BY <2>6, <2>8, <3>1, <3>2
  <2> QED
    BY <2>1, <2>2, <2>3, <2>7, <2>8 DEF RequestsOK, SessionsAgree
<1>14. ClaimsOK'
  <2>1. claims \in ClaimsType
    BY DEF IInv, TypeOK, ClaimsType
  <2>2. ClaimsAgree'
    <3>1. ASSUME NEW q \in Owner, claims.boundTo[q] # None
          PROVE  claims'.ownerOf[claims.boundTo[q]] = q
      BY <1>12, <2>1, <3>1 DEF IInv, ClaimsOK, ClaimsAgree, ClaimsType
    <3>2. ASSUME NEW x \in Key, NEW q \in {claims'.ownerOf[x]} \ {None}
          PROVE  \/ x \in {claims.boundTo[q], claims.changing[q].previous}
                 \/ \E r \in Request : pending'[r].owner = q /\ x \in pending'[r].reserved
      <4>1. CASE claims'.ownerOf[x] = claims.ownerOf[x]
        BY <1>3, <1>4, <1>5, <3>2, <4>1 DEF IInv, ClaimsOK, ClaimsAgree
      <4>2. CASE \E r \in Winners : x = NewPage(r) /\ q = pending[r].owner
        BY <1>3, <1>4, <1>6, <4>2
      <4> QED
        BY <1>8, <3>2, <4>1, <4>2
    <3> QED
      BY <1>9, <3>1, <3>2 DEF ClaimsAgree
  <2>3. RequestsKeepClaims'
    <3> SUFFICES ASSUME NEW r \in Request, IsPending(r)
                 PROVE  /\ claims.boundTo[pending[r].owner] =
                             IF pending[r].promoted THEN pending'[r].transition
                             ELSE KeyOf(pending[r].tab, pending[r].page)
                        /\ pending'[r].transition # None
                             => claims'.ownerOf[pending'[r].transition] = pending[r].owner
                        /\ pending'[r].transition # None /\ ~pending[r].promoted
                             => pending'[r].reserved = {pending'[r].transition}
      BY <1>3, <1>9 DEF RequestsKeepClaims, IsPending
    <3>1. /\ pending[r].owner \in Owner /\ pending[r].transition \in Key \cup {None}
          /\ pending[r].promoted => pending[r].transition # None
          /\ pending[r].reserved \subseteq {pending[r].transition} \ {None}
      BY DEF IInv, RequestsOK, OperationsOK, TypeOK, Key
    <3>2. /\ claims.boundTo[pending[r].owner] =
               IF pending[r].promoted THEN pending[r].transition
               ELSE KeyOf(pending[r].tab, pending[r].page)
          /\ pending[r].transition # None => claims.ownerOf[pending[r].transition] = pending[r].owner
          /\ pending[r].transition # None /\ ~pending[r].promoted
               => pending[r].reserved = {pending[r].transition}
      BY DEF IInv, ClaimsOK, RequestsKeepClaims
    <3>3. CASE r \in Winners
      <4>1. PICK q \in Winners : /\ NewPage(r) = NewPage(q)
                                 /\ claims'.ownerOf[NewPage(r)] = pending[q].owner
        BY <1>8, <3>3, WinnersReserve
      <4>2. q = r
        BY <3>3, <4>1, OneWinnerPerPage
      <4> QED
        BY <1>3, <1>4, <1>5, <3>1, <3>2, <3>3, <4>1, <4>2, WinnersReserve
    <3>4. CASE r \notin Winners
      BY <1>3, <1>4, <1>5, <1>12, <3>1, <3>2, <3>4
    <3> QED
      BY <3>3, <3>4
  <2>4. ChangesOK'
    <3>1. \A q \in Owner : claims.changing[q].previous \in Key \cup {None}
      BY <2>1 DEF ClaimsType
    <3> QED
      BY <1>9, <1>11, <1>12, <3>1 DEF IInv, ClaimsOK, ChangesOK
  <2>5. PromotionsOK'
    BY <1>9 DEF IInv, ClaimsOK, PromotionsOK
  <2>6. ReleasesOK'
    <3> SUFFICES ASSUME NEW q \in released, ~HasPending(q), NEW k \in Key
                 PROVE  claims'.ownerOf[k] # q
      BY <1>1, <1>9, <1>11 DEF IInv, ClaimsOK, ReleasesOK, TypeOK
    <3>1. claims.ownerOf[k] # q
      BY DEF IInv, ClaimsOK, ReleasesOK
    <3>2. \A r \in Winners : pending[r].owner # q
      BY WinnersReserve DEF HasPending
    <3> QED
      BY <1>8, <3>1, <3>2
  <2> QED
    BY <2>2, <2>3, <2>4, <2>5, <2>6 DEF ClaimsOK
<1>15. BrowserOK'
  <2>1. PagesExist'
    BY <1>1, <1>2 DEF IInv, TypeOK, PagesExist, BrowserOK, Running, Page
  <2>2. \A r \in Request : AtWork(r)' = AtWork(r)
    BY <1>1 DEF AtWork
  <2>3. RunsOK'
    BY <1>1, <1>3, <2>2 DEF IInv, BrowserOK, RunsOK, IsPending
  <2>4. MovesOK'
    <3> SUFFICES ASSUME NEW r \in Request, NEW c \in Conversation, MovedTo(r, c), c \in known',
                        pending'[r].transition # c
                 PROVE  told'[r] # "waiting"
      BY <1>1, <1>3, <1>4, <1>5, <2>2 DEF IInv, BrowserOK, MovesOK, MovedTo
    <3>1. CASE c \in known
      <4>1. pending[r].transition = c \/ told[r] # "waiting"
        BY <3>1 DEF IInv, BrowserOK, MovesOK
      <4>2. told[r] # "waiting"
        BY <1>3, <1>4, <1>5, <4>1
      <4> QED
        BY <1>1, <4>2
    <3>2. CASE c \notin known
      <4>1. /\ IsPending(r) /\ run[r].page = c /\ pending[r].page = Home
            /\ page[pending[r].tab] = c /\ c # Home
        BY DEF IInv, BrowserOK, RunsOK, MovedTo
      <4>2. Moved(r) /\ (Reserves(r) => r \in Winners)
        BY <4>1 DEF Moved, Follows, Winners
      <4>3. ~Reserves(r)
        BY <1>3, <1>4, <1>5, <4>1, <4>2 DEF NewPage
      <4>4. Unfollowed(r)
        BY <4>1, <4>2, <4>3 DEF Unfollowed
      <4> QED
        BY <1>1, <4>4
    <3> QED
      BY <3>1, <3>2
  <2> QED
    BY <2>1, <2>3, <2>4 DEF BrowserOK
<1> QED
  BY <1>10, <1>13, <1>14, <1>15 DEF IInv

-----------------------------------------------------------------------------
(***************************************************************************)
(* The messages of one request.                                            *)
(***************************************************************************)

\* What the browser does for a request that runs, and what it shows.
LEMMA RunningIsPending ==
    ASSUME IInv, NEW r \in Request, run[r].phase = "running"
    PROVE  /\ AtWork(r) /\ IsPending(r)
           /\ pending[r].owner \in Owner /\ pending[r].tab \in Tab
           /\ run[r].page \in exists \cup {Home} /\ run[r].page \in Page
           /\ run[r].page # pending[r].page => pending[r].page = Home
           /\ page[pending[r].tab] = run[r].page
           /\ KeyOf(pending[r].tab, run[r].page) \in Key
<1>1. AtWork(r) /\ IsPending(r)
  BY DEF AtWork, IInv, BrowserOK, RunsOK
<1>2. pending[r].owner \in Owner /\ pending[r].tab \in Tab
  BY <1>1 DEF IInv, RequestsOK, OperationsOK
<1>3. /\ run[r].page \in exists \cup {Home}
      /\ run[r].page # pending[r].page => pending[r].page = Home
      /\ page[pending[r].tab] = run[r].page
  BY <1>1 DEF IInv, BrowserOK, RunsOK
<1>4. run[r].page \in Page
  BY <1>3 DEF IInv, TypeOK, Page
<1>5. KeyOf(pending[r].tab, run[r].page) \in Key
  BY <1>2, <1>4, KeysOfPages
<1> QED
  BY <1>1, <1>2, <1>3, <1>4, <1>5

\* An address that is heard of with a message was created by its request.
LEMMA HeardAddress ==
    ASSUME IInv, NEW r \in Request, run[r].phase = "running",
           known' = known \cup ({run[r].page} \ {Home})
    PROVE  /\ known \subseteq known' /\ known' \subseteq exists
           /\ \A q \in Request : \A c \in known' \ known : MovedTo(q, c) => q = r
           /\ run[r].page \in known' \cup {Home}
<1>1. known \subseteq known' /\ known' \subseteq exists /\ run[r].page \in known' \cup {Home}
  BY RunningIsPending DEF IInv, TypeOK
<1>2. ASSUME NEW q \in Request, NEW c \in known' \ known, MovedTo(q, c)
      PROVE  q = r
  <2>1. c = run[r].page /\ c # Home /\ c \in Conversation
    BY <1>1, <1>2 DEF IInv, TypeOK
  <2>2. pending[r].page # c
    BY <1>2, <2>1, RunningIsPending DEF IInv, RequestsOK, OperationsOK
  <2>3. MovedTo(r, c)
    BY <2>1, <2>2, RunningIsPending DEF MovedTo
  <2> QED
    BY <1>2, <2>1, <2>3 DEF IInv, BrowserOK, MovesOK
<1> QED
  BY <1>1, <1>2

\* What promoting a binding to a key that is not occupied does to the claims.
LEMMA PromotedParts ==
    ASSUME NEW c \in ClaimsType, NEW o \in Owner, NEW k \in Key
    PROVE  /\ Promoted(c, o, k) \in ClaimsType
           /\ Promoted(c, o, k).ownerOf =
                [x \in Key |-> IF x = k THEN o
                               ELSE IF x = c.boundTo[o] /\ c.ownerOf[x] = o THEN None
                               ELSE c.ownerOf[x]]
           /\ Promoted(c, o, k).boundTo = [c.boundTo EXCEPT ![o] = k]
           /\ Promoted(c, o, k).changing = c.changing
           /\ Promoted(c, o, k).deferred = c.deferred
           /\ \A q \in Owner \ {o} : Promoted(c, o, k).promotion[q] = c.promotion[q]
           /\ Promoted(c, o, k).promotion[o] = c.promotion[o]
                \/ Promoted(c, o, k).promotion[o].to = k
<1> USE BridgeAssumption
<1> DEFINE moved == c.boundTo[o] \notin {None, k}
           promotion == IF moved THEN [previous |-> c.boundTo[o], to |-> k] ELSE c.promotion[o]
           ownerOf == Granted(Without(c.ownerOf, o, {c.boundTo[o]} \ {k}), o, k)
<1>1. ownerOf = [x \in Key |-> IF x = k THEN o
                               ELSE IF x = c.boundTo[o] /\ c.ownerOf[x] = o THEN None
                               ELSE c.ownerOf[x]]
  <2>1. k # None
    BY DEF Key
  <2>2. Without(c.ownerOf, o, {c.boundTo[o]} \ {k}) =
          [x \in Key |-> IF x = c.boundTo[o] /\ x # k /\ c.ownerOf[x] = o THEN None
                         ELSE c.ownerOf[x]]
    BY DEF Without
  <2> QED
    BY <2>1, <2>2 DEF Granted
<1>2. ownerOf \in [Key -> Owner \cup {None}]
  BY <1>1 DEF ClaimsType
<1>3. /\ promotion \in [previous : Key \cup {None}, to : Key \cup {None}]
      /\ promotion = c.promotion[o] \/ promotion.to = k
  BY DEF ClaimsType
<1>4. Promoted(c, o, k) = [c EXCEPT !.ownerOf = ownerOf, !.boundTo[o] = k,
                                    !.promotion[o] = promotion]
  BY DEF Promoted
<1> HIDE DEF ownerOf, promotion, moved
<1>5. /\ Promoted(c, o, k).ownerOf = ownerOf
      /\ Promoted(c, o, k).boundTo = [c.boundTo EXCEPT ![o] = k]
      /\ Promoted(c, o, k).changing = c.changing
      /\ Promoted(c, o, k).deferred = c.deferred
      /\ Promoted(c, o, k).promotion = [c.promotion EXCEPT ![o] = promotion]
  BY <1>4 DEF ClaimsType
<1>6. Promoted(c, o, k) \in ClaimsType
  <2>1. [c.boundTo EXCEPT ![o] = k] \in [Owner -> Key \cup {None}]
    BY DEF ClaimsType
  <2>2. [c.promotion EXCEPT ![o] = promotion]
          \in [Owner -> [previous : Key \cup {None}, to : Key \cup {None}]]
    BY <1>3 DEF ClaimsType
  <2>3. Promoted(c, o, k) = [c EXCEPT !.ownerOf = ownerOf,
                                      !.boundTo = [c.boundTo EXCEPT ![o] = k],
                                      !.promotion = [c.promotion EXCEPT ![o] = promotion]]
    BY <1>4 DEF ClaimsType
  <2> QED
    BY <1>2, <2>1, <2>2, <2>3 DEF ClaimsType
<1>7. /\ \A q \in Owner \ {o} : Promoted(c, o, k).promotion[q] = c.promotion[q]
      /\ Promoted(c, o, k).promotion[o] = promotion
  BY <1>5 DEF ClaimsType
<1> QED
  BY <1>1, <1>3, <1>5, <1>6, <1>7

\* Removing a request leaves its participant what it is bound to, or nothing if a
\* release was waiting.
LEMMA ForgottenParts ==
    ASSUME NEW c \in ClaimsType, NEW r, NEW o \in Owner, pending[r].owner = o,
           ~c.changing[o].open,
           \A x \in Key : c.ownerOf[x] = o => x = c.boundTo[o] \/ x \in pending[r].reserved,
           c.boundTo[o] # None => c.ownerOf[c.boundTo[o]] = o,
           NEW b, b = IF o \in c.deferred THEN None ELSE c.boundTo[o]
    PROVE  /\ Forgotten(c, r) \in ClaimsType
           /\ Forgotten(c, r).ownerOf =
                [x \in Key |-> IF x = b THEN o
                               ELSE IF c.ownerOf[x] = o THEN None ELSE c.ownerOf[x]]
           /\ Forgotten(c, r).boundTo = [c.boundTo EXCEPT ![o] = b]
           /\ Forgotten(c, r).changing = c.changing
           /\ Forgotten(c, r).deferred = c.deferred \ {o}
           /\ \A q \in Owner \ {o} : Forgotten(c, r).promotion[q] = c.promotion[q]
           /\ \/ Forgotten(c, r).promotion[o] = c.promotion[o]
              \/ Forgotten(c, r).promotion[o] = NoPromotion
<1> USE BridgeAssumption
<1> DEFINE ownerOf == Without(c.ownerOf, o, pending[r].reserved \ {c.boundTo[o]})
           kept == [c EXCEPT !.ownerOf = ownerOf]
<1>1. ownerOf = [x \in Key |-> IF x = c.boundTo[o] THEN o
                               ELSE IF c.ownerOf[x] = o THEN None ELSE c.ownerOf[x]]
  <2>1. None \notin Key
    BY DEF Key
  <2> QED
    BY <2>1 DEF Without
<1>2. ownerOf \in [Key -> Owner \cup {None}]
  BY <1>1 DEF ClaimsType
<1>3. Forgotten(c, r) = IF o \in kept.deferred THEN Released(kept, o) ELSE kept
  BY DEF Forgotten
<1> HIDE DEF ownerOf
<1>4. /\ kept \in ClaimsType /\ kept.ownerOf = ownerOf /\ kept.boundTo = c.boundTo
      /\ kept.changing = c.changing /\ kept.deferred = c.deferred
      /\ kept.promotion = c.promotion
  BY <1>2 DEF ClaimsType
<1> HIDE DEF kept
<1>5. CASE o \in c.deferred
  <2>1. /\ Forgotten(c, r) \in ClaimsType
        /\ Forgotten(c, r).ownerOf =
             [x \in Key |-> IF x = kept.boundTo[o] /\ kept.ownerOf[x] = o THEN None
                            ELSE kept.ownerOf[x]]
        /\ Forgotten(c, r).boundTo = [c.boundTo EXCEPT ![o] = None]
        /\ Forgotten(c, r).changing = c.changing
        /\ Forgotten(c, r).promotion = [c.promotion EXCEPT ![o] = NoPromotion]
        /\ Forgotten(c, r).deferred = c.deferred \ {o}
    <3>1. kept \in ClaimsType /\ ~kept.changing[o].open
      BY <1>4
    <3>2. /\ Released(kept, o) \in ClaimsType
          /\ Released(kept, o).ownerOf =
               [x \in Key |-> IF x = kept.boundTo[o] /\ kept.ownerOf[x] = o THEN None
                              ELSE kept.ownerOf[x]]
          /\ Released(kept, o).boundTo = [kept.boundTo EXCEPT ![o] = None]
          /\ Released(kept, o).changing = kept.changing
          /\ Released(kept, o).promotion = [kept.promotion EXCEPT ![o] = NoPromotion]
          /\ Released(kept, o).deferred = kept.deferred \ {o}
      BY <3>1, ReleasedParts
    <3>3. Forgotten(c, r) = Released(kept, o)
      BY <1>3, <1>4, <1>5
    <3> QED
      BY <1>4, <3>2, <3>3
  <2>2. None \notin Key
    BY DEF Key
  <2>3. Forgotten(c, r).ownerOf =
          [x \in Key |-> IF x = None THEN o
                         ELSE IF c.ownerOf[x] = o THEN None ELSE c.ownerOf[x]]
    BY <1>1, <1>4, <2>1, <2>2
  <2>4. /\ Forgotten(c, r).promotion[o] = NoPromotion
        /\ \A q \in Owner \ {o} : Forgotten(c, r).promotion[q] = c.promotion[q]
    BY <2>1 DEF ClaimsType
  <2>5. b = None
    BY <1>5
  <2>6. Forgotten(c, r).ownerOf =
          [x \in Key |-> IF x = b THEN o
                         ELSE IF c.ownerOf[x] = o THEN None ELSE c.ownerOf[x]]
    BY <2>3, <2>5
  <2>7. Forgotten(c, r).boundTo = [c.boundTo EXCEPT ![o] = b]
    BY <2>1, <2>5
  <2> QED
    BY <2>1, <2>4, <2>6, <2>7
<1>6. CASE o \notin c.deferred
  <2>1. Forgotten(c, r) = kept
    BY <1>3, <1>4, <1>6
  <2>2. c.boundTo = [c.boundTo EXCEPT ![o] = c.boundTo[o]] /\ c.deferred = c.deferred \ {o}
    BY <1>6 DEF ClaimsType
  <2> QED
    BY <1>1, <1>4, <1>6, <2>1, <2>2
<1> QED
  BY <1>5, <1>6

\* A request is over: its participant holds b, or nothing, and nobody waits for it.
LEMMA RemovalStep ==
    ASSUME IInv, NEW r \in Request, IsPending(r), RemovePending(r), Tell({r}, "ended"),
           RunEnds(r), UNCHANGED <<connected, sessions, page, exists, released>>,
           known \subseteq known', known' \subseteq exists,
           \A q \in Request : \A c \in known' \ known : MovedTo(q, c) => q = r,
           NEW o \in Owner, pending[r].owner = o, NEW b \in Key \cup {None},
           b # None => claims.ownerOf[b] \in {None, o},
           o \in claims.deferred => b = None,
           claims' \in ClaimsType,
           claims'.ownerOf = [x \in Key |-> IF x = b THEN o
                                            ELSE IF claims.ownerOf[x] = o THEN None
                                            ELSE claims.ownerOf[x]],
           claims'.boundTo = [claims.boundTo EXCEPT ![o] = b],
           claims'.changing = claims.changing,
           claims'.deferred = claims.deferred \ {o},
           \A q \in Owner \ {o} : claims'.promotion[q] = claims.promotion[q],
           claims'.promotion[o].previous # None => claims'.promotion[o].to # None
    PROVE  IInv'
<1> USE BridgeAssumption
<1>1. /\ pending' = [pending EXCEPT ![r] = NoOperation]
      /\ pendingBySession' = [s \in Tab \X Page |->
           IF s \in BoundSessions(r) /\ pendingBySession[s] = r THEN None
           ELSE pendingBySession[s]]
      /\ told' = [q \in Request |-> IF q = r /\ told[q] = "waiting" THEN "ended" ELSE told[q]]
  BY DEF RemovePending, Tell
<1>2. /\ ~AtWork(r)' /\ \A q \in Request \ {r} : run'[q] = run[q]
      /\ run' \in [Request -> [phase : {"unsent", "sent", "running", "over"},
                               tab : Tab \cup {None}, page : Page \cup {None}]]
  BY EndedRun
<1>3. NoOperation \in [owner : Owner \cup {None}, tab : Tab \cup {None},
                       page : Page \cup {None}, transition : Conversation \cup {None},
                       promoted : BOOLEAN, reserved : SUBSET Conversation]
  BY DEF NoOperation
<1>4. pending'[r] = NoOperation /\ \A q \in Request \ {r} : pending'[q] = pending[q]
  BY <1>1 DEF IInv, TypeOK
<1>5. TypeOK'
  <2>1. pending' \in [Request -> [owner : Owner \cup {None}, tab : Tab \cup {None},
                                page : Page \cup {None}, transition : Conversation \cup {None},
                                promoted : BOOLEAN, reserved : SUBSET Conversation]]
    BY <1>1, <1>3 DEF IInv, TypeOK
  <2>2. /\ pendingBySession' \in [Tab \X Page -> Request \cup {None}]
        /\ told' \in [Request -> {"unsent", "waiting", "unconfirmed", "ended"}]
    BY <1>1 DEF IInv, TypeOK
  <2> QED
    BY <1>2, <2>1, <2>2 DEF IInv, TypeOK, ClaimsType
<1>6. RequestsOK'
  <2>1. OperationsOK'
    BY <1>4 DEF IInv, RequestsOK, OperationsOK, IsPending
  <2>2. OnePerOwner'
    <3>1. ASSUME NEW x \in Request, IsPending(x)'
          PROVE  x # r /\ IsPending(x) /\ pending'[x].owner # None
      BY <1>4, <3>1, OwnersArePending DEF IsPending
    <3>2. pending'[r].owner = None
      BY <1>4 DEF NoOperation
    <3> QED
      BY <1>4, <3>1, <3>2 DEF IInv, RequestsOK, OnePerOwner
  <2>3. UnsentIsNew'
    BY <1>1, <1>4 DEF IInv, RequestsOK, UnsentIsNew, IsPending
  <2>4. told'[r] # "waiting" /\ \A q \in Request \ {r} : told'[q] = told[q]
    BY <1>1
  <2>5. WaitingOK'
    BY <1>4, <2>4 DEF IInv, RequestsOK, WaitingOK, IsPending
  <2>6. ASSUME NEW s \in Tab \X Page, NEW q \in {pendingBySession'[s]} \ {None}
        PROVE  IsPending(q)' /\ s \in BoundSessions(q)'
    <3>1. pendingBySession[s] = q /\ IsPending(q) /\ s \in BoundSessions(q) /\ q \in Request
      BY <1>1, <2>6 DEF IInv, TypeOK, RequestsOK, SessionsAgree
    <3>2. q # r
      BY <1>1, <2>6, <3>1
    <3>3. pending'[q] = pending[q]
      BY <1>4, <3>1, <3>2
    <3> QED
      BY <3>1, <3>3 DEF IsPending, BoundSessions
  <2>7. ASSUME NEW q \in Request, IsPending(q)', NEW s \in BoundSessions(q)'
        PROVE  pendingBySession'[s] = q
    <3>1. q # r
      BY <1>4, <2>7 DEF IsPending
    <3>2. pending'[q] = pending[q]
      BY <1>4, <3>1
    <3>3. IsPending(q) /\ s \in BoundSessions(q)
      BY <2>7, <3>2 DEF IsPending, BoundSessions
    <3>4. pendingBySession[s] = q
      BY <3>3 DEF IInv, RequestsOK, SessionsAgree
    <3>5. s \in Tab \X Page
      <4>1. pending[q].tab \in Tab
        BY <3>3 DEF IInv, RequestsOK, OperationsOK
      <4> QED
        BY <3>3, <4>1 DEF BoundSessions, IInv, TypeOK, Page
    <3> QED
      BY <1>1, <3>1, <3>4, <3>5
  <2> QED
    BY <2>1, <2>3, <2>5, <2>6, <2>7, <2>2 DEF RequestsOK, SessionsAgree
<1>7. ~HasPending(o)' /\ HasPending(o)
  <2>1. \A q \in Request \ {r} : pending[q].owner # o
    BY DEF IInv, RequestsOK, OnePerOwner
  <2> QED
    BY <1>4, <2>1 DEF HasPending, NoOperation
<1>8. ClaimsOK'
  <2>1. claims'.changing = [claims.changing EXCEPT ![o] = NoChange]
    <3>1. claims.changing[o] = NoChange
      BY BusyIsSteady
    <3> QED
      BY <3>1 DEF IInv, TypeOK
  <2>2. o \in released' => b = None /\ ~HasPending(o)'
    BY <1>7 DEF IInv, ClaimsOK, ReleasesOK
  <2>3. \A q \in Request :
             \/ pending'[q] = pending[q] /\ pending[q].owner # o
             \/ pending'[q] = NoOperation /\ pending[q].owner \in {o, None}
    BY <1>4 DEF IInv, RequestsOK, OnePerOwner
  <2>4. /\ released' \subseteq Owner
        /\ \A q \in Owner \ {o} : /\ claims'.promotion[q] = claims.promotion[q]
                                  /\ q \in claims.deferred => q \in claims'.deferred
                                  /\ q \in released' => q \in released
    BY DEF IInv, TypeOK
  <2> QED
    BY <2>1, <2>2, <2>3, <2>4, HoldsOnly
<1>9. BrowserOK'
  <2>1. PagesExist'
    BY DEF IInv, BrowserOK, PagesExist
  <2>2. RunsOK'
    BY <1>2, <1>4 DEF IInv, BrowserOK, RunsOK, AtWork, IsPending
  <2>3. \A q \in Request, c \in Conversation : MovedTo(q, c)' => MovedTo(q, c) /\ q # r
    BY <1>2, <1>4 DEF MovedTo, AtWork
  <2>4. \A q \in Request \ {r} : told'[q] = told[q]
    BY <1>1
  <2>5. MovesOK'
    BY <1>4, <2>3, <2>4 DEF IInv, BrowserOK, MovesOK
  <2> QED
    BY <2>1, <2>2, <2>5 DEF BrowserOK
<1> QED
  BY <1>5, <1>6, <1>8, <1>9 DEF IInv

\* What the participant of a request holds.
LEMMA HeldByRequest ==
    ASSUME IInv, NEW r \in Request, IsPending(r), NEW o \in Owner, pending[r].owner = o
    PROVE  /\ ~claims.changing[o].open
           /\ \A x \in Key : claims.ownerOf[x] = o
                => x = claims.boundTo[o] \/ x \in pending[r].reserved
           /\ claims.boundTo[o] # None => claims.ownerOf[claims.boundTo[o]] = o
           /\ claims.boundTo[o] \in Key \cup {None}
           /\ claims.promotion[o].previous # None => claims.promotion[o].to # None
<1>1. ~claims.changing[o].open
  BY BusyIsSteady
<1>2. \A q \in Request : pending[q].owner = o => q = r
  BY DEF IInv, RequestsOK, OnePerOwner
<1>3. ASSUME NEW x \in Key, claims.ownerOf[x] = o
      PROVE  x = claims.boundTo[o] \/ x \in pending[r].reserved
  BY <1>1, <1>2, <1>3, HeldKeys
<1> QED
  BY <1>1, <1>3 DEF IInv, TypeOK, ClaimsOK, ClaimsAgree, PromotionsOK

\* A request that ends where it was, or nowhere.
LEMMA ForgetStep ==
    ASSUME IInv, NEW r \in Request, IsPending(r), RemovePending(r), Tell({r}, "ended"),
           RunEnds(r), UNCHANGED <<connected, sessions, page, exists, released>>,
           known \subseteq known', known' \subseteq exists,
           \A q \in Request : \A c \in known' \ known : MovedTo(q, c) => q = r,
           claims' = Forgotten(claims, r)
    PROVE  IInv'
<1> USE BridgeAssumption
<1> DEFINE o == pending[r].owner
           b == IF o \in claims.deferred THEN None ELSE claims.boundTo[o]
<1>1. o \in Owner
  BY BusyIsSteady
<1>2. /\ ~claims.changing[o].open
      /\ \A x \in Key : claims.ownerOf[x] = o
           => x = claims.boundTo[o] \/ x \in pending[r].reserved
      /\ claims.boundTo[o] # None => claims.ownerOf[claims.boundTo[o]] = o
      /\ claims.boundTo[o] \in Key \cup {None}
      /\ claims.promotion[o].previous # None => claims.promotion[o].to # None
  BY <1>1, HeldByRequest
<1>3. claims \in ClaimsType
  BY DEF IInv, TypeOK, ClaimsType
<1>4. /\ b \in Key \cup {None} /\ (o \in claims.deferred => b = None)
      /\ b # None => claims.ownerOf[b] \in {None, o}
      /\ b = IF o \in claims.deferred THEN None ELSE claims.boundTo[o]
  BY <1>2
<1>5. pending[r].owner = o
  OBVIOUS
<1> HIDE DEF o, b
<1>6. /\ claims' \in ClaimsType
      /\ claims'.ownerOf = [x \in Key |-> IF x = b THEN o
                                          ELSE IF claims.ownerOf[x] = o THEN None
                                          ELSE claims.ownerOf[x]]
      /\ claims'.boundTo = [claims.boundTo EXCEPT ![o] = b]
      /\ claims'.changing = claims.changing
      /\ claims'.deferred = claims.deferred \ {o}
      /\ \A q \in Owner \ {o} : claims'.promotion[q] = claims.promotion[q]
      /\ \/ claims'.promotion[o] = claims.promotion[o]
         \/ claims'.promotion[o] = NoPromotion
  BY <1>1, <1>2, <1>3, <1>4, <1>5, ForgottenParts
<1>7. claims'.promotion[o].previous # None => claims'.promotion[o].to # None
  BY <1>2, <1>6 DEF NoPromotion
<1> QED
  BY <1>1, <1>4, <1>5, <1>6, <1>7, RemovalStep

\* A request that ends in a conversation that is its participant's, or nobody's.
LEMMA ConcludeStep ==
    ASSUME IInv, NEW r \in Request, IsPending(r), RemovePending(r), Tell({r}, "ended"),
           RunEnds(r), UNCHANGED <<connected, sessions, page, exists, released>>,
           known \subseteq known', known' \subseteq exists,
           \A q \in Request : \A c \in known' \ known : MovedTo(q, c) => q = r,
           NEW k \in Key, ~Occupied(claims, pending[r].owner, k),
           claims' = Concluded(claims, r, k)
    PROVE  IInv'
<1> USE BridgeAssumption
<1> DEFINE o == pending[r].owner
           c == Promoted(claims, o, k)
           b == IF o \in claims.deferred THEN None ELSE k
<1>1. o \in Owner /\ claims.ownerOf[k] \in {None, o} /\ k # None
  BY BusyIsSteady DEF Occupied, Key
<1>2. /\ ~claims.changing[o].open
      /\ \A x \in Key : claims.ownerOf[x] = o
           => x = claims.boundTo[o] \/ x \in pending[r].reserved
      /\ claims.boundTo[o] # None => claims.ownerOf[claims.boundTo[o]] = o
      /\ claims.promotion[o].previous # None => claims.promotion[o].to # None
  BY <1>1, HeldByRequest
<1>3. claims \in ClaimsType
  BY DEF IInv, TypeOK, ClaimsType
<1>4. /\ b \in Key \cup {None} /\ (o \in claims.deferred => b = None)
      /\ b # None => claims.ownerOf[b] \in {None, o}
      /\ b \in {k, None}
      /\ b = IF o \in claims.deferred THEN None ELSE k
  BY <1>1
<1>5. pending[r].owner = o /\ claims' = Forgotten(c, r)
  BY DEF Concluded
<1>6. /\ c \in ClaimsType
      /\ c.ownerOf = [x \in Key |-> IF x = k THEN o
                                    ELSE IF x = claims.boundTo[o] /\ claims.ownerOf[x] = o
                                    THEN None ELSE claims.ownerOf[x]]
      /\ c.boundTo = [claims.boundTo EXCEPT ![o] = k]
      /\ c.changing = claims.changing /\ c.deferred = claims.deferred
      /\ \A q \in Owner \ {o} : c.promotion[q] = claims.promotion[q]
      /\ c.promotion[o] = claims.promotion[o] \/ c.promotion[o].to = k
  BY <1>1, <1>3, PromotedParts
<1> HIDE DEF o, b, c
<1>7. /\ ~c.changing[o].open /\ c.boundTo[o] = k /\ c.ownerOf[k] = o
      /\ \A x \in Key : c.ownerOf[x] = o => x = c.boundTo[o] \/ x \in pending[r].reserved
      /\ c.boundTo[o] # None => c.ownerOf[c.boundTo[o]] = o
      /\ b = IF o \in c.deferred THEN None ELSE c.boundTo[o]
  <2>1. c.boundTo[o] = k /\ c.ownerOf[k] = o
    BY <1>1, <1>3, <1>6 DEF ClaimsType
  <2> QED
    BY <1>1, <1>2, <1>4, <1>6, <2>1
<1>8. /\ claims' \in ClaimsType
      /\ claims'.ownerOf = [x \in Key |-> IF x = b THEN o
                                          ELSE IF c.ownerOf[x] = o THEN None
                                          ELSE c.ownerOf[x]]
      /\ claims'.boundTo = [c.boundTo EXCEPT ![o] = b]
      /\ claims'.changing = c.changing
      /\ claims'.deferred = c.deferred \ {o}
      /\ \A q \in Owner \ {o} : claims'.promotion[q] = c.promotion[q]
      /\ \/ claims'.promotion[o] = c.promotion[o]
         \/ claims'.promotion[o] = NoPromotion
  <2>1. /\ Forgotten(c, r) \in ClaimsType
        /\ Forgotten(c, r).ownerOf = [x \in Key |-> IF x = b THEN o
                                                   ELSE IF c.ownerOf[x] = o THEN None
                                                   ELSE c.ownerOf[x]]
        /\ Forgotten(c, r).boundTo = [c.boundTo EXCEPT ![o] = b]
        /\ Forgotten(c, r).changing = c.changing
        /\ Forgotten(c, r).deferred = c.deferred \ {o}
        /\ \A q \in Owner \ {o} : Forgotten(c, r).promotion[q] = c.promotion[q]
        /\ \/ Forgotten(c, r).promotion[o] = c.promotion[o]
           \/ Forgotten(c, r).promotion[o] = NoPromotion
    <3>1. c \in ClaimsType /\ pending[r].owner = o
      BY <1>5, <1>6
    <3> QED
      BY <1>1, <1>7, <3>1, ForgottenParts
  <2> QED
    BY <1>5, <2>1
<1>9. claims'.promotion[o].previous # None => claims'.promotion[o].to # None
  BY <1>1, <1>2, <1>6, <1>8 DEF NoPromotion
<1>10. /\ claims'.ownerOf = [x \in Key |-> IF x = b THEN o
                                           ELSE IF claims.ownerOf[x] = o THEN None
                                           ELSE claims.ownerOf[x]]
       /\ claims'.boundTo = [claims.boundTo EXCEPT ![o] = b]
       /\ claims'.changing = claims.changing
       /\ claims'.deferred = claims.deferred \ {o}
       /\ \A q \in Owner \ {o} : claims'.promotion[q] = claims.promotion[q]
  <2>1. \A x \in Key : claims'.ownerOf[x] = IF x = b THEN o
                                            ELSE IF claims.ownerOf[x] = o THEN None
                                            ELSE claims.ownerOf[x]
    BY <1>1, <1>6, <1>8
  <2>2. claims'.ownerOf = [x \in Key |-> IF x = b THEN o
                                         ELSE IF claims.ownerOf[x] = o THEN None
                                         ELSE claims.ownerOf[x]]
    BY <1>8, <2>1
  <2>3. claims'.boundTo = [claims.boundTo EXCEPT ![o] = b]
    BY <1>3, <1>6, <1>8 DEF ClaimsType
  <2> QED
    BY <1>6, <1>8, <2>2, <2>3
<1> QED
  BY <1>1, <1>4, <1>5, <1>8, <1>9, <1>10, RemovalStep

\* An error settles the request; its keys are free because its run is over.
LEMMA ErrorStep == ASSUME IInv, NEW r \in Request, Error(r) PROVE IInv'
<1>1. known \subseteq exists
  BY DEF IInv, TypeOK
<1> QED
  BY <1>1, ForgetStep DEF Error, Hears

\* An interruption settles the request and concludes its claims, as its run is over.
LEMMA InterruptedStep == ASSUME IInv, NEW r \in Request, Interrupted(r) PROVE IInv'
<1> USE BridgeAssumption
<1>1. /\ IsPending(r) /\ connected /\ RunEnds(r)
      /\ UNCHANGED <<connected, sessions, page, exists, known, released>>
      /\ known \subseteq exists /\ connected \in BOOLEAN
  BY DEF Interrupted, Hears, IInv, TypeOK
<1>2. CASE pending[r].transition = None
  BY <1>1, <1>2, ForgetStep DEF Interrupted
<1>3. CASE /\ pending[r].transition # None
           /\ Occupied(claims, pending[r].owner, pending[r].transition)
  <2>1. Tell({r}, "unconfirmed") /\ UNCHANGED <<pending, pendingBySession, claims>>
    BY <1>3 DEF Interrupted, SettleUnconfirmed
  <2>2. /\ ~AtWork(r)' /\ \A q \in Request \ {r} : run'[q] = run[q]
        /\ run' \in [Request -> [phase : {"unsent", "sent", "running", "over"},
                                 tab : Tab \cup {None}, page : Page \cup {None}]]
    BY <1>1, EndedRun
  <2> QED
    BY <1>1, <2>1, <2>2, TellStep
<1>4. CASE /\ pending[r].transition # None
           /\ ~Occupied(claims, pending[r].owner, pending[r].transition)
  <2>1. /\ claims' = Concluded(claims, r, pending[r].transition)
        /\ RemovePending(r) /\ Tell({r}, "ended")
    BY <1>4 DEF Interrupted
  <2>2. pending[r].transition \in Key
    BY <1>4 DEF IInv, TypeOK, Key
  <2> QED
    BY <1>1, <1>4, <2>1, <2>2, ConcludeStep
<1> QED
  BY <1>2, <1>3, <1>4

\* A response settles the request, and binds its owner to where the run ended.
LEMMA ResponseStep == ASSUME IInv, NEW r \in Request, Response(r) PROVE IInv'
<1> USE BridgeAssumption
<1> DEFINE k == KeyOf(pending[r].tab, run[r].page)
           valid == ValidFinal(pending[r], run[r].page)
           occupied == Occupied(claims, pending[r].owner, k)
<1>1. /\ IsPending(r) /\ connected /\ run[r].phase = "running" /\ RunEnds(r)
      /\ UNCHANGED <<connected, sessions, page, exists, released>>
      /\ known' = known \cup ({run[r].page} \ {Home}) /\ connected \in BOOLEAN
  BY DEF Response, Hears, IInv, TypeOK
<1>2. /\ known \subseteq known' /\ known' \subseteq exists
      /\ \A q \in Request : \A c \in known' \ known : MovedTo(q, c) => q = r
  BY <1>1, HeardAddress
<1>3. k \in Key
  BY <1>1, RunningIsPending
<1>4. CASE ~valid
  <2>1. Tell({r}, "unconfirmed") /\ UNCHANGED <<pending, pendingBySession, claims>>
    BY <1>4 DEF Response, SettleUnconfirmed
  <2>2. /\ ~AtWork(r)' /\ \A q \in Request \ {r} : run'[q] = run[q]
        /\ run' \in [Request -> [phase : {"unsent", "sent", "running", "over"},
                                 tab : Tab \cup {None}, page : Page \cup {None}]]
    BY <1>1, EndedRun
  <2> QED
    BY <1>1, <1>2, <2>1, <2>2, TellStep
<1>5. CASE valid /\ occupied
  <2>1. claims' = Forgotten(claims, r) /\ RemovePending(r) /\ Tell({r}, "ended")
    BY <1>5 DEF Response
  <2> QED
    BY <1>1, <1>2, <2>1, ForgetStep
<1>6. CASE valid /\ ~occupied
  <2>1. claims' = Concluded(claims, r, k) /\ RemovePending(r) /\ Tell({r}, "ended")
    BY <1>6 DEF Response
  <2> HIDE DEF k
  <2> QED
    BY <1>1, <1>2, <1>3, <1>6, <2>1, ConcludeStep
<1> QED
  BY <1>4, <1>5, <1>6

\* A binding message promotes its request, and its owner, to the reported conversation.
LEMMA BindingStep == ASSUME IInv, NEW r \in Request, Binding(r) PROVE IInv'
<1> USE BridgeAssumption
<1> DEFINE op == pending[r]
           o == op.owner
           p == run[r].page
           s == <<op.tab, p>>
           k == KeyOf(op.tab, p)
           misplaced == \/ ~Follows(op.page, p)
                        \/ op.transition \notin {None, p}
                        \/ pendingBySession[s] \notin {None, r}
                        \/ Occupied(claims, o, k)
<1>1. /\ IsPending(r) /\ connected /\ run[r].phase = "running" /\ ~op.promoted
      /\ UNCHANGED <<connected, page, run, exists, released>>
      /\ known' = known \cup ({p} \ {Home}) /\ connected \in BOOLEAN
  BY DEF Binding, Hears, IInv, TypeOK, browserVars
<1>2. /\ known \subseteq known' /\ known' \subseteq exists
      /\ \A q \in Request : \A c \in known' \ known : MovedTo(q, c) => q = r
      /\ p \in known' \cup {Home}
  BY <1>1, HeardAddress
<1>3. CASE misplaced
  <2>1. /\ Tell({r}, "unconfirmed")
        /\ UNCHANGED <<pending, pendingBySession, claims, sessions>>
    BY <1>3 DEF Binding, SettleUnconfirmed
  <2>2. run' \in [Request -> [phase : {"unsent", "sent", "running", "over"},
                              tab : Tab \cup {None}, page : Page \cup {None}]]
    BY <1>1 DEF IInv, TypeOK
  <2> QED
    BY <1>1, <1>2, <2>1, <2>2, TellStep
<1>4. CASE ~misplaced
  <2>1. /\ claims' = Promoted(claims, o, k)
        /\ pending' = [pending EXCEPT ![r].transition = p, ![r].promoted = TRUE]
        /\ pendingBySession' = [pendingBySession EXCEPT ![s] = r]
        /\ sessions' = [sessions EXCEPT ![op.tab] = [page |-> p, ready |-> FALSE]]
        /\ UNCHANGED told
    BY <1>4 DEF Binding
  <2>2. /\ op.page = Home /\ p # Home /\ op.transition \in {None, p}
        /\ pendingBySession[s] \in {None, r} /\ claims.ownerOf[k] \in {None, o}
    BY <1>4 DEF Follows, Occupied
  <2>3. /\ o \in Owner /\ op.tab \in Tab /\ p \in Page /\ p \in Conversation /\ p # None
        /\ k = p /\ k \in Key /\ s \in Tab \X Page /\ p \in known' /\ AtWork(r)
    <3>1. o \in Owner /\ op.tab \in Tab /\ p \in Page /\ k \in Key /\ AtWork(r)
      BY <1>1, RunningIsPending
    <3> QED
      BY <1>2, <2>2, <3>1 DEF Page, KeyOf
  <2>4. pending[r] \in [owner : Owner \cup {None}, tab : Tab \cup {None},
                        page : Page \cup {None}, transition : Conversation \cup {None},
                        promoted : BOOLEAN, reserved : SUBSET Conversation]
    BY DEF IInv, TypeOK
  <2>5. /\ claims.boundTo[o] = KeyOf(op.tab, op.page)
        /\ op.transition # None => op.reserved = {op.transition}
        /\ op.reserved \subseteq {p}
    BY <1>1, <2>2 DEF IInv, ClaimsOK, RequestsKeepClaims, RequestsOK, OperationsOK
  <2>6. claims.boundTo[o] = op.tab /\ op.tab # k /\ op.tab # None
    BY <2>2, <2>3, <2>5 DEF KeyOf
  <2>7. claims \in ClaimsType
    BY DEF IInv, TypeOK, ClaimsType
  <2>8. /\ op = pending[r] /\ o = op.owner /\ p = run[r].page /\ s = <<op.tab, p>>
    OBVIOUS
  <2> HIDE DEF op, o, p, s, k, misplaced
  <2>9. /\ claims' \in ClaimsType
        /\ claims'.ownerOf = [x \in Key |-> IF x = k THEN o
                                ELSE IF x = claims.boundTo[o] /\ claims.ownerOf[x] = o
                                THEN None ELSE claims.ownerOf[x]]
        /\ claims'.boundTo = [claims.boundTo EXCEPT ![o] = k]
        /\ claims'.changing = claims.changing /\ claims'.deferred = claims.deferred
        /\ \A q \in Owner \ {o} : claims'.promotion[q] = claims.promotion[q]
        /\ claims'.promotion[o] = claims.promotion[o] \/ claims'.promotion[o].to = k
    BY <2>1, <2>3, <2>7, PromotedParts
  <2>10. /\ pending'[r].owner = o /\ pending'[r].tab = op.tab /\ pending'[r].page = Home
         /\ pending'[r].transition = p /\ pending'[r].promoted
         /\ pending'[r].reserved = op.reserved
         /\ \A q \in Request \ {r} : pending'[q] = pending[q]
         /\ pending' \in [Request -> [owner : Owner \cup {None}, tab : Tab \cup {None},
                               page : Page \cup {None}, transition : Conversation \cup {None},
                               promoted : BOOLEAN, reserved : SUBSET Conversation]]
    BY <2>1, <2>2, <2>3, <2>4, <2>8 DEF IInv, TypeOK
  <2>11. TypeOK'
    <3>1. sessions' \in [Tab -> [page : Page \cup {None}, ready : BOOLEAN]]
      BY <2>1, <2>3 DEF IInv, TypeOK
    <3>2. pendingBySession' \in [Tab \X Page -> Request \cup {None}]
      BY <2>1, <2>3 DEF IInv, TypeOK
    <3> QED
      BY <1>1, <1>2, <2>1, <2>9, <2>10, <3>1, <3>2 DEF IInv, TypeOK, ClaimsType
  <2>12. \A q \in Request : IsPending(q) <=> pending'[q] # NoOperation
    <3>1. pending'[r] # NoOperation
      BY <2>3, <2>10 DEF NoOperation
    <3> QED
      BY <1>1, <2>10, <3>1 DEF IsPending
  <2>13. \A q \in Request : /\ pending'[q].owner = pending[q].owner
                            /\ pending'[q].tab = pending[q].tab
                            /\ pending'[q].page = pending[q].page
                            /\ pending'[q].reserved = pending[q].reserved
    BY <2>2, <2>10, <2>8
  <2>14. \A q \in Request \ {r} : pending'[q].owner # None => pending'[q].owner # o
    BY <1>1, <2>8, <2>13 DEF IInv, RequestsOK, OnePerOwner
  <2>15. RequestsOK'
    <3>1. OperationsOK'
      <4>1. ASSUME NEW q \in Request \ {r}, pending'[q] # NoOperation
            PROVE  /\ pending'[q].owner \in Owner /\ pending'[q].tab \in Tab
                   /\ pending'[q].page \in known' \cup {Home}
                   /\ pending'[q].transition \in known' \cup {None}
                   /\ pending'[q].transition # None => pending'[q].page = Home
                   /\ pending'[q].promoted => pending'[q].transition # None
                   /\ pending'[q].reserved \subseteq {pending'[q].transition} \ {None}
        BY <1>2, <2>10, <2>12, <4>1 DEF IInv, RequestsOK, OperationsOK
      <4>2. /\ pending'[r].owner \in Owner /\ pending'[r].tab \in Tab
            /\ pending'[r].page \in known' \cup {Home}
            /\ pending'[r].transition \in known' \cup {None}
            /\ pending'[r].transition # None => pending'[r].page = Home
            /\ pending'[r].promoted => pending'[r].transition # None
            /\ pending'[r].reserved \subseteq {pending'[r].transition} \ {None}
        BY <2>3, <2>5, <2>10
      <4> QED
        BY <4>1, <4>2 DEF OperationsOK, IsPending
    <3>2. OnePerOwner'
      BY <2>12, <2>13 DEF IInv, RequestsOK, OnePerOwner, IsPending
    <3>3. UnsentIsNew' /\ WaitingOK'
      BY <1>1, <2>1, <2>12 DEF IInv, RequestsOK, UnsentIsNew, WaitingOK, IsPending
    <3>4. s \in BoundSessions(r)'
      BY <2>3, <2>10, <2>8 DEF BoundSessions
    <3>5. ASSUME NEW q \in Request, NEW x \in BoundSessions(q)
          PROVE  x \in BoundSessions(q)'
      <4>1. pending[q].transition # None => pending'[q].transition = pending[q].transition
        BY <2>2, <2>10, <2>8
      <4>2. pending'[q].tab = pending[q].tab /\ pending'[q].page = pending[q].page
        BY <2>13
      <4> QED
        BY <3>5, <4>1, <4>2 DEF BoundSessions
    <3>6. ASSUME NEW q \in Request, NEW x \in BoundSessions(q)'
          PROVE  x \in BoundSessions(q) \/ (q = r /\ x = s)
      <4>1. CASE q = r
        BY <2>2, <2>10, <2>8, <3>6, <4>1 DEF BoundSessions
      <4>2. CASE q # r
        BY <2>10, <3>6, <4>2 DEF BoundSessions
      <4> QED
        BY <4>1, <4>2
    <3>7. /\ pendingBySession'[s] = r
          /\ \A x \in (Tab \X Page) \ {s} : pendingBySession'[x] = pendingBySession[x]
      BY <2>1, <2>3 DEF IInv, TypeOK
    <3>8. ASSUME NEW x \in Tab \X Page, NEW q \in {pendingBySession'[x]} \ {None}
          PROVE  pending'[q] # NoOperation /\ x \in BoundSessions(q)'
      <4>1. CASE x = s
        BY <1>1, <2>12, <3>4, <3>7, <3>8, <4>1
      <4>2. CASE x # s
        <5>1. q \in Request /\ IsPending(q) /\ x \in BoundSessions(q)
          BY <3>7, <3>8, <4>2 DEF IInv, TypeOK, RequestsOK, SessionsAgree
        <5> QED
          BY <2>12, <3>5, <5>1
      <4> QED
        BY <4>1, <4>2
    <3>9. ASSUME NEW q \in Request, pending'[q] # NoOperation, NEW x \in BoundSessions(q)'
          PROVE  pendingBySession'[x] = q
      <4>1. CASE q = r /\ x = s
        BY <3>7, <4>1
      <4>2. CASE x \in BoundSessions(q)
        <5>1. pendingBySession[x] = q /\ q # None
          BY <2>12, <3>9, <4>2 DEF IInv, RequestsOK, SessionsAgree, Request
        <5>2. x \in Tab \X Page
          <6>1. pending[q].tab \in Tab
            BY <2>12, <3>9 DEF IInv, RequestsOK, OperationsOK
          <6> QED
            BY <4>2, <6>1 DEF BoundSessions, IInv, TypeOK, Page
        <5>3. x = s => q = r
          BY <2>2, <5>1
        <5> QED
          BY <3>7, <5>1, <5>2, <5>3
      <4> QED
        BY <3>6, <3>9, <4>1, <4>2
    <3>10. SessionsAgree'
      BY <3>8, <3>9 DEF SessionsAgree, IsPending
    <3> QED
      BY <3>1, <3>2, <3>10, <3>3 DEF RequestsOK
  <2>16. \A q \in Owner : HasPending(q)' = HasPending(q)
    BY <2>13 DEF HasPending
  <2>17. ~claims.changing[o].open /\ claims.changing[o] = NoChange /\ HasPending(o)
    BY <1>1, <2>8, BusyIsSteady
  <2>18. \A x \in Key, q \in Owner \ {o} : claims'.ownerOf[x] = q <=> claims.ownerOf[x] = q
    BY <2>2, <2>3, <2>7, <2>9 DEF ClaimsType
  <2>19. \A q \in Owner \ {o} : claims'.boundTo[q] = claims.boundTo[q]
    BY <2>7, <2>9 DEF ClaimsType
  <2>20. claims'.ownerOf[k] = o /\ claims'.boundTo[o] = k
    BY <2>3, <2>7, <2>9 DEF ClaimsType
  <2>21. ClaimsAgree'
    <3>1. ASSUME NEW q \in Owner, claims'.boundTo[q] # None
          PROVE  claims'.ownerOf[claims'.boundTo[q]] = q
      <4>1. CASE q = o
        BY <2>20, <4>1
      <4>2. CASE q # o
        BY <2>7, <2>18, <2>19, <3>1, <4>2 DEF IInv, ClaimsOK, ClaimsAgree, ClaimsType
      <4> QED
        BY <4>1, <4>2
    <3>2. ASSUME NEW x \in Key, NEW q \in {claims'.ownerOf[x]} \ {None}
          PROVE  \/ x \in {claims'.boundTo[q], claims'.changing[q].previous}
                 \/ \E y \in Request : pending'[y].owner = q /\ x \in pending'[y].reserved
      <4>1. q \in Owner
        BY <2>9, <3>2 DEF ClaimsType
      <4>2. CASE x = k
        BY <2>20, <3>2, <4>2
      <4>3. CASE x # k
        <5>1. /\ claims.ownerOf[x] = q
              /\ q = o => x # claims.boundTo[o]
          BY <2>9, <3>2, <4>3
        <5>2. \/ x \in {claims.boundTo[q], claims.changing[q].previous}
              \/ \E y \in Request : pending[y].owner = q /\ x \in pending[y].reserved
          BY <3>2, <5>1 DEF IInv, ClaimsOK, ClaimsAgree
        <5>3. q = o => claims.changing[q].previous # x
          BY <2>17 DEF NoChange, Key
        <5> QED
          BY <2>9, <2>13, <2>19, <4>1, <5>1, <5>2, <5>3
      <4> QED
        BY <4>2, <4>3
    <3> QED
      BY <3>1, <3>2 DEF ClaimsAgree
  <2>22. RequestsKeepClaims'
    <3>1. ASSUME NEW q \in Request \ {r}, pending'[q] # NoOperation
          PROVE  /\ claims'.boundTo[pending[q].owner] =
                      IF pending[q].promoted THEN pending[q].transition
                      ELSE KeyOf(pending[q].tab, pending[q].page)
                 /\ pending[q].transition # None
                      => claims'.ownerOf[pending[q].transition] = pending[q].owner
                 /\ pending[q].transition # None /\ ~pending[q].promoted
                      => pending[q].reserved = {pending[q].transition}
      <4>1. IsPending(q) /\ pending[q].owner \in Owner \ {o}
        BY <2>8, <2>12, <2>13, <2>14, <3>1 DEF IInv, RequestsOK, OperationsOK
      <4>2. pending[q].transition \in Key \cup {None}
        BY DEF IInv, TypeOK, Key
      <4> QED
        BY <2>18, <2>19, <4>1, <4>2 DEF IInv, ClaimsOK, RequestsKeepClaims
    <3> QED
      BY <2>3, <2>10, <2>20, <3>1 DEF RequestsKeepClaims, IsPending
  <2>23. ChangesOK'
    <3>1. \A q \in Owner : claims.changing[q].previous \in Key \cup {None}
      BY <2>7 DEF ClaimsType
    <3> QED
      BY <2>9, <2>16, <2>17, <2>18, <2>19, <3>1 DEF IInv, ClaimsOK, ChangesOK
  <2>24. PromotionsOK'
    BY <2>3, <2>9 DEF IInv, ClaimsOK, PromotionsOK, Key
  <2>25. ReleasesOK'
    <3>1. \A q \in released' : q \in released /\ q \in Owner /\ (~HasPending(q) => q # o)
      BY <1>1, <2>17 DEF IInv, TypeOK
    <3> QED
      BY <2>9, <2>16, <2>18, <3>1 DEF IInv, ClaimsOK, ReleasesOK
  <2>26. BrowserOK'
    <3>1. PagesExist'
      BY <1>1, <1>2, <2>1, <2>3 DEF IInv, BrowserOK, PagesExist, TypeOK
    <3>2. \A q \in Request : AtWork(q)' = AtWork(q)
      BY <1>1 DEF AtWork
    <3>3. RunsOK'
      BY <1>1, <2>12, <2>13, <3>2 DEF IInv, BrowserOK, RunsOK, IsPending
    <3>4. ASSUME NEW q \in Request, NEW c \in Conversation
          PROVE  MovedTo(q, c)' = MovedTo(q, c)
      BY <1>1, <2>13 DEF MovedTo, AtWork
    <3>5. MovedTo(r, p)
      BY <2>2, <2>3, <2>8 DEF MovedTo
    <3>6. ASSUME NEW q \in Request, NEW c \in Conversation, MovedTo(q, c), c \in known'
          PROVE  pending'[q].transition = c \/ told'[q] # "waiting"
      <4>1. CASE q = r
        <5>1. c = p
          BY <2>8, <3>6, <4>1 DEF MovedTo
        <5> QED
          BY <2>10, <4>1, <5>1
      <4>2. CASE q # r
        <5>1. c # p
          BY <3>5, <3>6, <4>2 DEF IInv, BrowserOK, MovesOK
        <5>2. c \in known
          BY <1>1, <3>6, <5>1
        <5> QED
          BY <2>1, <2>10, <3>6, <4>2, <5>2 DEF IInv, BrowserOK, MovesOK
      <4> QED
        BY <4>1, <4>2
    <3>7. MovesOK'
      BY <3>4, <3>6 DEF IInv, BrowserOK, MovesOK
    <3> QED
      BY <3>1, <3>3, <3>7 DEF BrowserOK
  <2> QED
    BY <2>11, <2>15, <2>21, <2>22, <2>23, <2>24, <2>25, <2>26 DEF IInv, ClaimsOK
<1> QED
  BY <1>3, <1>4

-----------------------------------------------------------------------------
(***************************************************************************)
(* Every step keeps the invariant.                                         *)
(***************************************************************************)

\* Every step of the bridge, its callers and the browser keeps the invariant.
LEMMA Inductive == IInv /\ [Next]_vars => IInv'
<1> SUFFICES ASSUME IInv, [Next]_vars PROVE IInv'
  OBVIOUS
<1>1. CASE UNCHANGED vars
  BY <1>1 DEF vars, bridgeVars, browserVars, IInv, TypeOK, RequestsOK, OperationsOK,
              OnePerOwner, UnsentIsNew, SessionsAgree, WaitingOK, ClaimsOK, ClaimsAgree,
              RequestsKeepClaims, ChangesOK, PromotionsOK, ReleasesOK, BrowserOK,
              PagesExist, RunsOK, MovesOK, MovedTo, AtWork, IsPending, HasPending,
              BoundSessions
<1>2. CASE Ask
  <2>1. PICK o \in Owner :
          \/ \E k \in Tab \cup known : Bind(o, k)
          \/ Release(o)
          \/ \E k \in Key \cup {None} : BeginBindingChange(o, k)
          \/ \E commit \in BOOLEAN : FinishBindingChange(o, commit)
          \/ \E t \in Tab, r \in Request : Send(o, t, r)
    BY <1>2 DEF Ask
  <2> QED
    BY <2>1, BindStep, ReleaseStep, BeginBindingChangeStep, FinishBindingChangeStep, SendStep
<1>3. CASE Browse
  <2>1. CASE \E r \in Request : RunStarts(r) \/ RunIsLost(r)
    BY <2>1, RunStartsStep, RunIsLostStep
  <2>2. CASE \E r \in Request, c \in Conversation : RunMoves(r, c)
    BY <2>2, RunMovesStep
  <2>3. CASE \E t \in Tab, p \in Page : Open(t, p)
    BY <2>3, OpenStep
  <2> QED
    BY <1>3, <2>1, <2>2, <2>3 DEF Browse
<1>4. CASE Hear
  BY <1>4, StatusStep, BindingStep, ResponseStep, InterruptedStep, ErrorStep DEF Hear
<1>5. CASE Disconnect \/ Connect \/ \E r \in Request : Expire(r)
  BY <1>5, DisconnectStep, ConnectStep, ExpireStep
<1> QED
  BY <1>1, <1>2, <1>3, <1>4, <1>5 DEF Next

\* The inductive invariant holds in every reachable state.
LEMMA Invariant == Spec => []IInv
  BY Initially, Inductive, PTL DEF Spec

-----------------------------------------------------------------------------
(***************************************************************************)
(* What the invariant says of the bridge.                                  *)
(***************************************************************************)

\* A request that is at work and has not strayed is still on its initial page, has
\* created an address that nobody has heard of, or holds its conversation.
LEMMA WorkIsHeld ==
    ASSUME IInv, NEW r \in Request, AtWork(r), ~Strayed(r)
    PROVE  /\ IsPending(r) /\ pending[r].tab \in Tab /\ run[r].tab = pending[r].tab
           /\ run[r].page \in Page
           /\ run[r].page = Home => pending[r].page = Home
           /\ run[r].page # Home =>
                \/ run[r].page \notin known /\ MovedTo(r, run[r].page)
                \/ run[r].page \in known /\ claims.ownerOf[run[r].page] = pending[r].owner
<1> USE BridgeAssumption
<1> DEFINE c == run[r].page
           op == pending[r]
<1>1. /\ IsPending(r) /\ run[r].tab = op.tab /\ c \in exists \cup {Home}
      /\ c # op.page => op.page = Home
  BY DEF IInv, BrowserOK, RunsOK
<1>2. /\ op.owner \in Owner /\ op.tab \in Tab /\ op.page \in known \cup {Home}
      /\ op.transition \in known \cup {None}
      /\ op.transition # None => op.page = Home
      /\ op.promoted => op.transition # None
  BY <1>1 DEF IInv, RequestsOK, OperationsOK
<1>3. c \in Page
  BY <1>1 DEF IInv, TypeOK, Page
<1>4. CASE c # Home /\ op.page = c
  <2>1. claims.boundTo[op.owner] = c
    BY <1>1, <1>2, <1>4 DEF IInv, ClaimsOK, RequestsKeepClaims, KeyOf
  <2>2. claims.ownerOf[c] = op.owner
    BY <1>2, <1>3, <1>4, <2>1 DEF IInv, ClaimsOK, ClaimsAgree, Page
  <2> QED
    BY <1>1, <1>2, <1>3, <1>4, <2>2
<1>5. CASE c # Home /\ op.transition = c
  <2>1. c \in known /\ claims.ownerOf[c] = op.owner
    BY <1>1, <1>2, <1>3, <1>5 DEF IInv, ClaimsOK, RequestsKeepClaims, Page
  <2> QED
    BY <1>1, <1>2, <1>3, <1>5, <2>1
<1>6. CASE c # Home /\ op.page # c /\ op.transition # c
  <2>1. told[r] = "waiting"
    BY <1>1, <1>6 DEF Strayed
  <2>2. MovedTo(r, c) /\ c \in Conversation
    BY <1>3, <1>6 DEF MovedTo, Page
  <2>3. c \notin known
    BY <1>6, <2>1, <2>2 DEF IInv, BrowserOK, MovesOK
  <2> QED
    BY <1>1, <1>2, <1>3, <1>6, <2>2, <2>3
<1> QED
  BY <1>1, <1>2, <1>3, <1>4, <1>5, <1>6

\* What the invariant says of reserved keys keeps two requests off one conversation.
LEMMA InvariantSeparates == IInv => OneRequestPerConversation
<1> SUFFICES ASSUME IInv, NEW q \in Request, NEW r \in Request, AtWork(q), ~Strayed(q),
                    AtWork(r), ~Strayed(r), q # r,
                    KeyOf(run[q].tab, run[q].page) = KeyOf(run[r].tab, run[r].page)
             PROVE  FALSE
  BY DEF OneRequestPerConversation
<1> USE BridgeAssumption
<1>1. \A x \in {q, r} :
        /\ IsPending(x) /\ pending[x].tab \in Tab /\ run[x].tab = pending[x].tab
        /\ run[x].page \in Page
        /\ run[x].page = Home => pending[x].page = Home
        /\ run[x].page # Home =>
             \/ run[x].page \notin known /\ MovedTo(x, run[x].page)
             \/ run[x].page \in known /\ claims.ownerOf[run[x].page] = pending[x].owner
  BY WorkIsHeld
<1>2. \/ run[q].page = Home /\ run[r].page = Home /\ run[q].tab = run[r].tab
      \/ run[q].page # Home /\ run[q].page = run[r].page
  BY <1>1, KeysOfPages
<1>3. CASE run[q].page = Home /\ run[r].page = Home /\ run[q].tab = run[r].tab
  <2>1. /\ <<run[q].tab, Home>> \in BoundSessions(q)
        /\ <<run[q].tab, Home>> \in BoundSessions(r)
    BY <1>1, <1>3 DEF BoundSessions
  <2> QED
    BY <1>1, <2>1 DEF IInv, RequestsOK, SessionsAgree
<1>4. CASE run[q].page # Home /\ run[q].page = run[r].page
  <2>1. CASE run[q].page \in known
    <3>1. pending[q].owner = pending[r].owner
      BY <1>1, <1>4, <2>1
    <3> QED
      BY <1>1, <3>1 DEF IInv, RequestsOK, OnePerOwner
  <2>2. CASE run[q].page \notin known
    <3>1. MovedTo(q, run[q].page) /\ MovedTo(r, run[q].page) /\ run[q].page \in Conversation
      BY <1>1, <1>4, <2>2 DEF Page
    <3> QED
      BY <3>1 DEF IInv, BrowserOK, MovesOK
  <2> QED
    BY <2>1, <2>2
<1> QED
  BY <1>2, <1>3, <1>4

\* The variables of the bridge and of the browser keep their types: a request is
\* bound to an address only if it is one (supportedInitialTransition).
THEOREM BridgeTypeCorrect == Spec => []TypeOK
<1>1. IInv => TypeOK
  BY DEF IInv
<1> QED
  BY <1>1, Invariant, PTL

\* Whatever the participants, tabs and persons do, and however often connections
\* are lost, two requests that may still be at work never work in the same
\* conversation or on the same initial page, unless one has moved to an address
\* the bridge could not reserve for it (sendConversation, settleUnconfirmed,
\* provider.status).
THEOREM OneTurnPerConversation == Spec => []OneRequestPerConversation
  BY Invariant, InvariantSeparates, PTL

\* Both directions of the table of claims agree, and every claim is for a binding,
\* a change that can be undone or a request (bindConversation,
\* promoteOperationBinding, removePending).
THEOREM ClaimsStayConsistent == Spec => []ClaimsAgree
<1>1. IInv => ClaimsAgree
  BY DEF IInv, ClaimsOK
<1> QED
  BY <1>1, Invariant, PTL

\* A release that had to wait for a request is carried out with its end
\* (deferredBindingReleases).
THEOREM ReleasesAreCarriedOut == Spec => []ReleasedOwnersLetGo
<1>1. IInv => ReleasedOwnersLetGo
  BY DEF IInv, ClaimsOK, ReleasesOK, ReleasedOwnersLetGo
<1> QED
  BY <1>1, Invariant, PTL

\* No tab stays reserved for a request that is over, and no caller waits for one,
\* or over a connection that is lost (removePending, disconnect).
THEOREM NobodyIsLeftWaiting == Spec => []NobodyWaitsInVain
<1>1. IInv => NobodyWaitsInVain
  BY DEF IInv, RequestsOK, SessionsAgree, WaitingOK, NobodyWaitsInVain
<1> QED
  BY <1>1, Invariant, PTL
=============================================================================
