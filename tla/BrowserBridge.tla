---------------------------- MODULE BrowserBridge ----------------------------
(***************************************************************************)
(* The browser bridge (src/src/browser/bridgeServer.ts): participants of   *)
(* conversations, of this window or of others, drive chat pages in a       *)
(* browser extension over one socket. A participant (owner) claims a       *)
(* conversation, one at a time, and sends requests to the tab that shows   *)
(* it. A request started on a provider's initial page moves to the address *)
(* of the new conversation while it runs.                                  *)
(*                                                                         *)
(* Handlers run to their end without waiting, so each is one step. What    *)
(* the bridge sends takes its time (a request is "sent", then runs, or is  *)
(* never heard of); what the browser sends is handled at once: a message   *)
(* on its way is a browser that acts later, and one that is lost a run     *)
(* that ends while nobody is connected.                                    *)
(***************************************************************************)
EXTENDS Naturals

CONSTANTS
    Owner,         \* participants
    Tab,           \* browser tabs, each with the document it shows
    Conversation,  \* conversations with an address of their own
    Existing,      \* those that exist from the start
    MaxRequests,   \* bound: requests sent
    MaxLost,       \* bound: connections lost
    MaxMoves,      \* bound: pages a person opens
    Home,          \* the initial page of a provider
    None

ASSUME BridgeAssumption ==
    /\ Existing \subseteq Conversation
    /\ Home \notin Conversation
    /\ None \notin Conversation \cup Owner \cup Tab \cup Nat \cup {Home}
    /\ Tab \cap Conversation = {}
    /\ {MaxRequests, MaxLost, MaxMoves} \subseteq Nat

Request == 1 .. MaxRequests
Page == Conversation \cup {Home}

\* browserConversationClaimKey: an initial page is claimed by its tab
Key == Tab \cup Conversation
KeyOf(t, page) == IF page = Home THEN t ELSE page

VARIABLES
    connected,        \* an authenticated socket
    sessions,         \* tab -> [page, ready] as last published, or page None
    pending,          \* request -> its PendingConversation, or NoOperation
    pendingBySession, \* <<tab, page>> -> the request that reserved it, or None
    claims,           \* who claims which conversation, see NoClaims
    told,             \* request -> what its caller heard
    page,             \* the browser: what a tab shows
    run,              \* the browser: request -> [phase, tab, page]
    exists,           \* the browser: conversations created so far
    known,            \* of those, the ones a participant may have heard of
    released,         \* owners released since they last claimed anything
    spent             \* [lost, moves]

bridgeVars == <<connected, sessions, pending, pendingBySession, claims, told>>
browserVars == <<page, run, exists>>
vars == <<bridgeVars, browserVars, known, released, spent>>

NoSession == [page |-> None, ready |-> FALSE]
NoOperation == [owner |-> None, tab |-> None, page |-> None, transition |-> None,
                promoted |-> FALSE, reserved |-> {}]
NoChange == [open |-> FALSE, previous |-> None, target |-> None]
NoPromotion == [previous |-> None, to |-> None]
NoRun == [phase |-> "unsent", tab |-> None, page |-> None]

\* bindingOwnerByConversation, conversationByBindingOwner, bindingChanges,
\* bindingPromotions and deferredBindingReleases
NoClaims ==
    [ownerOf |-> [k \in Key |-> None], boundTo |-> [o \in Owner |-> None],
     changing |-> [o \in Owner |-> NoChange],
     promotion |-> [o \in Owner |-> NoPromotion], deferred |-> {}]

Init ==
    /\ connected = TRUE
    /\ sessions = [t \in Tab |-> NoSession]
    /\ pending = [r \in Request |-> NoOperation]
    /\ pendingBySession = [s \in Tab \X Page |-> None]
    /\ claims = NoClaims
    /\ told = [r \in Request |-> "unsent"]
    /\ page = [t \in Tab |-> Home]
    /\ run = [r \in Request |-> NoRun]
    /\ exists = Existing
    /\ known = Existing
    /\ released = {}
    /\ spent = [lost |-> 0, moves |-> 0]

IsPending(r) == pending[r] # NoOperation
HasPending(o) == \E r \in Request : pending[r].owner = o
Spend(what, bound) ==
    /\ spent[what] < bound
    /\ spent' = [spent EXCEPT ![what] = @ + 1]

-----------------------------------------------------------------------------
(***************************************************************************)
(* Claims on conversations, as functions of the claims so far.             *)
(***************************************************************************)

Without(ownerOf, o, keys) ==
    [k \in Key |-> IF k \in keys /\ ownerOf[k] = o THEN None ELSE ownerOf[k]]

Granted(ownerOf, o, k) ==
    IF k = None THEN ownerOf ELSE [ownerOf EXCEPT ![k] = o]

Occupied(c, o, k) == c.ownerOf[k] \notin {None, o}

\* a binding from before the page got its address means the address
Effective(o, k) ==
    IF claims.promotion[o].previous = k THEN claims.promotion[o].to ELSE k

\* bindConversation succeeds
MayBind(o, k) ==
    IF claims.changing[o].open
    THEN claims.changing[o].target = k
    ELSE /\ ~Occupied(claims, o, k)
         /\ claims.boundTo[o] = k \/ ~HasPending(o)

Bound(c, o, k) ==
    IF c.changing[o].open
    THEN c
    ELSE [c EXCEPT !.ownerOf = Granted(Without(@, o, {c.boundTo[o]} \ {k}), o, k),
                   !.boundTo[o] = k,
                   !.deferred = @ \ {o}]

\* releaseBinding of an owner without a pending request
Released(c, o) ==
    IF c.changing[o].open
    THEN c
    ELSE [c EXCEPT !.ownerOf = Without(@, o, {c.boundTo[o]}),
                   !.boundTo[o] = None,
                   !.promotion[o] = NoPromotion,
                   !.deferred = @ \ {o}]

\* promoteOperationBinding
Promoted(c, o, k) ==
    LET previous == c.boundTo[o]
        moved == previous \notin {None, k}
    IN  [c EXCEPT !.ownerOf = Granted(Without(@, o, {previous} \ {k}), o, k),
                  !.boundTo[o] = k,
                  !.promotion[o] = IF moved THEN [previous |-> previous, to |-> k] ELSE @]

\* (a plausible bug, for ClaimsAgree) what the request reserved on its way stays
MutantForgotten(c, r) ==
    IF pending[r].owner \in c.deferred THEN Released(c, pending[r].owner) ELSE c

\* the claims after removePending
Forgotten(c, r) ==
    LET o == pending[r].owner
        kept == [c EXCEPT !.ownerOf = Without(@, o, pending[r].reserved \ {c.boundTo[o]})]
    IN  IF o \in kept.deferred THEN Released(kept, o) ELSE kept

\* (a plausible bug, for ReleasedOwnersLetGo) the answer claims the conversation
\* after the request is removed
MutantConcluded(c, r, k) == Promoted(Forgotten(c, r), pending[r].owner, k)

\* the claims after the last message of a request that ends in k
Concluded(c, r, k) == Forgotten(Promoted(c, pending[r].owner, k), r)

\* (a plausible bug, for NobodyWaitsInVain) only the first session is given back
MutantBoundSessions(r) == {<<pending[r].tab, pending[r].page>>}

BoundSessions(r) ==
    {<<pending[r].tab, p>> : p \in {pending[r].page, pending[r].transition} \ {None}}

\* removePending; the claims are the caller's
RemovePending(r) ==
    /\ pending' = [pending EXCEPT ![r] = NoOperation]
    /\ pendingBySession' = [s \in Tab \X Page |->
         IF s \in BoundSessions(r) /\ pendingBySession[s] = r THEN None
         ELSE pendingBySession[s]]

\* the queue of the caller fails or ends; it tells its first end only
Tell(rs, what) ==
    told' = [r \in Request |-> IF r \in rs /\ told[r] = "waiting" THEN what ELSE told[r]]

-----------------------------------------------------------------------------
(***************************************************************************)
(* What participants ask for.                                              *)
(***************************************************************************)

Bind(o, k) ==
    /\ MayBind(o, Effective(o, k))
    /\ claims' = Bound(claims, o, Effective(o, k))
    /\ released' = released \ {o}
    /\ UNCHANGED <<connected, sessions, pending, pendingBySession, told,
                   browserVars, known, spent>>

\* Nor does it release one.
Release(o) ==
    /\ ~claims.changing[o].open
    /\ claims' = IF HasPending(o) THEN [claims EXCEPT !.deferred = @ \cup {o}]
                                  ELSE Released(claims, o)
    /\ released' = released \cup {o}
    /\ UNCHANGED <<connected, sessions, pending, pendingBySession, told,
                   browserVars, known, spent>>

Shown(k) == \E t \in Tab : /\ sessions[t].ready
                           /\ KeyOf(t, sessions[t].page) = k

BeginBindingChange(o, k) ==
    /\ ~claims.changing[o].open
    /\ ~HasPending(o)
    /\ k # None => Shown(k) /\ ~Occupied(claims, o, k)
    /\ claims' = [claims EXCEPT
         !.changing[o] = [open |-> TRUE, previous |-> claims.boundTo[o], target |-> k],
         !.ownerOf = Granted(@, o, k),
         !.boundTo[o] = k]
    /\ released' = released \ {o}
    /\ UNCHANGED <<connected, sessions, pending, pendingBySession, told,
                   browserVars, known, spent>>

FinishBindingChange(o, commit) ==
    LET change == claims.changing[o]
        keep == IF commit THEN change.target ELSE change.previous
        discard == IF commit THEN change.previous ELSE change.target
    IN  /\ change.open
        /\ claims' = [claims EXCEPT
             !.ownerOf = Granted(Without(@, o, {discard} \ {keep}), o, keep),
             !.boundTo[o] = keep,
             !.deferred = @ \ {o},
             !.changing[o] = NoChange,
             !.promotion[o] = IF commit THEN NoPromotion ELSE @]
        /\ UNCHANGED <<connected, sessions, pending, pendingBySession, told,
                       browserVars, known, released, spent>>

IsNext(r) == told[r] = "unsent" /\ \A q \in 1 .. r - 1 : told[q] # "unsent"

\* sendConversation. A runtime does not send for a participant whose change it
\* has not finished, and it sends to the session its binding resolves to
\* (resolveBoundSession), which is never the page that a promotion has left.
Send(o, t, r) ==
    LET p == sessions[t].page
        k == KeyOf(t, p)
    IN  /\ IsNext(r)
        /\ ~claims.changing[o].open
        /\ claims.promotion[o].previous # k
        /\ connected
        /\ sessions[t].ready
        /\ pendingBySession[<<t, p>>] = None
        /\ ~HasPending(o)
        /\ MayBind(o, k)
        /\ claims' = Bound(claims, o, k)
        /\ pending' = [pending EXCEPT ![r] =
             [NoOperation EXCEPT !.owner = o, !.tab = t, !.page = p]]
        /\ pendingBySession' = [pendingBySession EXCEPT ![<<t, p>>] = r]
        /\ told' = [told EXCEPT ![r] = "waiting"]
        /\ run' = [run EXCEPT ![r] = [phase |-> "sent", tab |-> t, page |-> p]]
        /\ released' = released \ {o}
        /\ UNCHANGED <<connected, sessions, page, exists, known, spent>>

-----------------------------------------------------------------------------
(***************************************************************************)
(* The connection, and requests whose end nobody confirms.                 *)
(***************************************************************************)

\* (a plausible bug, for OneRequestPerConversation) a request that nobody
\* confirms is forgotten
MutantSettleUnconfirmed(rs) ==
    /\ Tell(rs, "unconfirmed")
    /\ pending' = [r \in Request |-> IF r \in rs THEN NoOperation ELSE pending[r]]
    /\ pendingBySession' = [s \in Tab \X Page |->
         IF pendingBySession[s] \in rs THEN None ELSE pendingBySession[s]]
    /\ UNCHANGED claims

\* settleUnconfirmed: the caller is told, the conversation stays reserved
SettleUnconfirmed(rs) ==
    /\ Tell(rs, "unconfirmed")
    /\ UNCHANGED <<pending, pendingBySession, claims>>

\* disconnect
Disconnect ==
    /\ connected
    /\ Spend("lost", MaxLost)
    /\ connected' = FALSE
    /\ sessions' = [t \in Tab |-> NoSession]
    /\ SettleUnconfirmed({r \in Request : IsPending(r)})
    /\ UNCHANGED <<browserVars, known, released>>

\* authenticateConnection
Connect ==
    /\ ~connected
    /\ connected' = TRUE
    /\ UNCHANGED <<sessions, pending, pendingBySession, claims, told, browserVars, known,
                   released, spent>>

\* A deadline, an interruption that is not confirmed or cannot be sent, a
\* message that does not match, a page that does not come back.
Expire(r) ==
    /\ IsPending(r)
    /\ told[r] = "waiting"
    /\ SettleUnconfirmed({r})
    /\ UNCHANGED <<connected, sessions, browserVars, known, released, spent>>

-----------------------------------------------------------------------------
(***************************************************************************)
(* The browser.                                                            *)
(***************************************************************************)

Running(t, p) == \E r \in Request : run[r] = [phase |-> "running", tab |-> t, page |-> p]

RunStarts(r) ==
    /\ run[r].phase = "sent"
    /\ page[run[r].tab] = run[r].page
    /\ run' = [run EXCEPT ![r].phase = "running"]
    /\ UNCHANGED <<bridgeVars, page, exists, known, released, spent>>

\* a first turn gives the conversation its address
RunMoves(r, c) ==
    /\ run[r].phase = "running"
    /\ run[r].page = Home
    /\ c \notin exists
    /\ run' = [run EXCEPT ![r].page = c]
    /\ page' = [page EXCEPT ![run[r].tab] = c]
    /\ exists' = exists \cup {c}
    /\ UNCHANGED <<bridgeVars, known, released, spent>>

RunEnds(r) == run' = [run EXCEPT ![r] = [NoRun EXCEPT !.phase = "over"]]

\* nobody hears of it
RunIsLost(r) ==
    /\ ~connected
    /\ run[r].phase \in {"sent", "running"}
    /\ RunEnds(r)
    /\ UNCHANGED <<bridgeVars, page, exists, known, released, spent>>

\* a person opens a conversation, in a tab where nothing runs
Open(t, p) ==
    /\ Spend("moves", MaxMoves)
    /\ p \in exists \cup {Home}
    /\ p # page[t]
    /\ ~Running(t, page[t])
    /\ page' = [page EXCEPT ![t] = p]
    /\ UNCHANGED <<bridgeVars, run, exists, known, released>>

-----------------------------------------------------------------------------
(***************************************************************************)
(* handleAuthenticatedMessage: provider.status.                            *)
(***************************************************************************)

\* (a plausible bug, for TypeOK) any page may be announced as the first
MutantFollows(from, to) == TRUE

\* supportedInitialTransition
Follows(from, to) == from = Home /\ to # Home

\* The page of the request has got an address.
Moved(r) ==
    /\ IsPending(r)
    /\ Follows(pending[r].page, page[pending[r].tab])

\* The address belongs to another request or owner, or is not the first.
Refused(r) ==
    LET p == page[pending[r].tab]
    IN  \/ pendingBySession[<<pending[r].tab, p>>] \notin {None, r}
        \/ Occupied(claims, pending[r].owner, KeyOf(pending[r].tab, p))
        \/ pending[r].transition \notin {None, p}

\* The operations are visited in the order in which they were sent.
Reserves(r) ==
    /\ Moved(r)
    /\ ~Refused(r)
    /\ \A q \in 1 .. r - 1 :
         ~(Moved(q) /\ ~Refused(q) /\ page[pending[q].tab] = page[pending[r].tab])

\* A first page that is gone may come back; every other change is settled.
Unfollowed(r) ==
    /\ IsPending(r)
    /\ page[pending[r].tab] # pending[r].page
    /\ pending[r].page = Home => Moved(r) /\ ~Reserves(r)

Status ==
    LET winner == {r \in Request : Reserves(r)}
        to == [r \in winner |-> page[pending[r].tab]]
        key == [r \in winner |-> KeyOf(pending[r].tab, to[r])]
    IN  /\ connected
        /\ sessions' = [t \in Tab |-> [page |-> page[t], ready |-> ~Running(t, page[t])]]
        /\ pending' = [r \in Request |->
             IF r \in winner
             THEN [pending[r] EXCEPT !.transition = to[r], !.reserved = @ \cup {key[r]}]
             ELSE pending[r]]
        /\ pendingBySession' = [s \in Tab \X Page |->
             IF \E r \in winner : s = <<pending[r].tab, to[r]>>
             THEN CHOOSE r \in winner : s = <<pending[r].tab, to[r]>>
             ELSE pendingBySession[s]]
        /\ claims' = [claims EXCEPT !.ownerOf = [k \in Key |->
             IF \E r \in winner : key[r] = k
             THEN pending[CHOOSE r \in winner : key[r] = k].owner
             ELSE @[k]]]
        /\ Tell({r \in Request : Unfollowed(r)}, "unconfirmed")
        /\ known' = known \cup ({page[t] : t \in Tab} \ {Home})
        /\ UNCHANGED <<connected, browserVars, released, spent>>

-----------------------------------------------------------------------------
(***************************************************************************)
(* handleAuthenticatedMessage: the messages of one request.                *)
(***************************************************************************)

Hears(r) == connected /\ IsPending(r)

\* conversation.binding
Binding(r) ==
    LET op == pending[r]
        p == run[r].page
        s == <<op.tab, p>>
        k == KeyOf(op.tab, p)
        misplaced == \/ ~Follows(op.page, p)
                     \/ op.transition \notin {None, p}
                     \/ pendingBySession[s] \notin {None, r}
                     \/ Occupied(claims, op.owner, k)
    IN  /\ Hears(r)
        /\ run[r].phase = "running"
        /\ ~op.promoted
        /\ IF misplaced
           THEN SettleUnconfirmed({r}) /\ UNCHANGED sessions
           ELSE /\ claims' = Promoted(claims, op.owner, k)
                /\ pending' = [pending EXCEPT ![r].transition = p, ![r].promoted = TRUE]
                /\ pendingBySession' = [pendingBySession EXCEPT ![s] = r]
                /\ sessions' = [sessions EXCEPT ![op.tab] = [page |-> p, ready |-> FALSE]]
                /\ UNCHANGED told
        /\ known' = known \cup ({p} \ {Home})
        /\ UNCHANGED <<connected, browserVars, released, spent>>

\* validFinalResponseBinding
ValidFinal(op, p) ==
    /\ op.promoted => p = op.transition
    /\ p = op.page \/ Follows(op.page, p)

\* conversation.response
Response(r) ==
    LET op == pending[r]
        p == run[r].page
        valid == ValidFinal(op, p)
        k == KeyOf(op.tab, p)
    IN  /\ Hears(r)
        /\ run[r].phase = "running"
        /\ RunEnds(r)
        /\ CASE ~valid -> SettleUnconfirmed({r})
             [] valid /\ Occupied(claims, op.owner, k) ->
                  /\ claims' = Forgotten(claims, r)
                  /\ RemovePending(r)
                  /\ Tell({r}, "ended")
             [] OTHER ->
                  /\ claims' = Concluded(claims, r, k)
                  /\ RemovePending(r)
                  /\ Tell({r}, "ended")
        /\ known' = known \cup ({p} \ {Home})
        /\ UNCHANGED <<connected, sessions, page, exists, released, spent>>

\* conversation.interrupted, asked for or not, early or late
Interrupted(r) ==
    LET op == pending[r]
    IN  /\ Hears(r)
        /\ RunEnds(r)
        /\ IF op.transition = None
           THEN claims' = Forgotten(claims, r) /\ RemovePending(r) /\ Tell({r}, "ended")
           ELSE IF Occupied(claims, op.owner, op.transition)
           THEN SettleUnconfirmed({r})
           ELSE /\ claims' = Concluded(claims, r, op.transition)
                /\ RemovePending(r)
                /\ Tell({r}, "ended")
        /\ UNCHANGED <<connected, sessions, page, exists, known, released, spent>>

\* conversation.error, also of a request the page refuses
Error(r) ==
    /\ Hears(r)
    /\ RunEnds(r)
    /\ claims' = Forgotten(claims, r)
    /\ RemovePending(r)
    /\ Tell({r}, "ended")
    /\ UNCHANGED <<connected, sessions, page, exists, known, released, spent>>

-----------------------------------------------------------------------------
Ask == \E o \in Owner :
    \/ \E k \in Tab \cup known : Bind(o, k)
    \/ Release(o)
    \/ \E k \in Key \cup {None} : BeginBindingChange(o, k)
    \/ \E commit \in BOOLEAN : FinishBindingChange(o, commit)
    \/ \E t \in Tab, r \in Request : Send(o, t, r)
Browse ==
    \/ \E r \in Request :
         RunStarts(r) \/ RunIsLost(r) \/ \E c \in Conversation : RunMoves(r, c)
    \/ \E t \in Tab, p \in Page : Open(t, p)
Hear ==
    \/ Status
    \/ \E r \in Request : Binding(r) \/ Response(r) \/ Interrupted(r) \/ Error(r)

Next == Ask \/ Browse \/ Hear \/ Disconnect \/ Connect \/ \E r \in Request : Expire(r)

Spec == Init /\ [][Next]_vars

-----------------------------------------------------------------------------
(***************************************************************************)
(* Properties.                                                             *)
(***************************************************************************)

\* Types of the variables.
TypeOK ==
    /\ connected \in BOOLEAN
    /\ sessions \in [Tab -> [page : Page \cup {None}, ready : BOOLEAN]]
    /\ pending \in [Request -> [owner : Owner \cup {None}, tab : Tab \cup {None},
                                page : Page \cup {None},
                                transition : Conversation \cup {None},
                                promoted : BOOLEAN, reserved : SUBSET Conversation]]
    /\ pendingBySession \in [Tab \X Page -> Request \cup {None}]
    /\ claims \in [ownerOf : [Key -> Owner \cup {None}],
                   boundTo : [Owner -> Key \cup {None}],
                   changing : [Owner -> [open : BOOLEAN, previous : Key \cup {None},
                                         target : Key \cup {None}]],
                   promotion : [Owner -> [previous : Key \cup {None},
                                          to : Key \cup {None}]],
                   deferred : SUBSET Owner]
    /\ told \in [Request -> {"unsent", "waiting", "unconfirmed", "ended"}]
    /\ page \in [Tab -> Page]
    /\ run \in [Request -> [phase : {"unsent", "sent", "running", "over"},
                            tab : Tab \cup {None}, page : Page \cup {None}]]
    /\ exists \subseteq Conversation
    /\ known \subseteq exists
    /\ released \subseteq Owner

\* the request may still be at work in the browser
AtWork(r) == run[r].phase \in {"sent", "running"}

\* It moved to an address that the bridge did not reserve for it, because that
\* was taken, not the first or not shown by a status before the end, and its
\* caller knows that its end is unconfirmed.
Strayed(r) ==
    /\ told[r] # "waiting"
    /\ pending[r].page = Home
    /\ run[r].page \notin {Home, pending[r].transition}

\* Two requests that may still be at work in the browser never work in the same
\* conversation, nor on the same initial page, unless one of them has strayed: a
\* request whose end was not confirmed keeps its conversation, and one that gets
\* an address keeps that too (settleUnconfirmed, sendConversation, provider.status).
OneRequestPerConversation ==
    \A q, r \in {s \in Request : AtWork(s) /\ ~Strayed(s)} :
        q # r => KeyOf(run[q].tab, run[q].page) # KeyOf(run[r].tab, run[r].page)

\* What a participant is bound to is its own, and every claim is for something:
\* the conversation its owner is bound to, the one it will go back to if a
\* change is undone, or one that its pending request has moved to
\* (bindingOwnerByConversation, conversationByBindingOwner).
ClaimsAgree ==
    /\ \A o \in Owner :
         claims.boundTo[o] # None => claims.ownerOf[claims.boundTo[o]] = o
    /\ \A k \in Key : \A o \in {claims.ownerOf[k]} \ {None} :
         \/ k \in {claims.boundTo[o], claims.changing[o].previous}
         \/ \E r \in Request : pending[r].owner = o /\ k \in pending[r].reserved

\* A participant that was released keeps nothing once its request is over,
\* whatever the request claimed on its way (deferredBindingReleases).
ReleasedOwnersLetGo ==
    \A o \in released :
        HasPending(o) \/ \A k \in Key : claims.ownerOf[k] # o

\* A tab is reserved only for a request that is pending, and a caller waits only
\* for one that is, over a connection that lives (removePending, disconnect).
NobodyWaitsInVain ==
    /\ \A s \in Tab \X Page : \A r \in {pendingBySession[s]} \ {None} :
         IsPending(r)
    /\ \A r \in Request : told[r] = "waiting" => IsPending(r) /\ connected
=============================================================================
