--------------------------- MODULE ResourceBroker ---------------------------
(***************************************************************************)
(* The resource broker (src/src/concurrency/resourceBroker.ts): every      *)
(* window of one VS Code profile opens the same SQLite database and makes  *)
(* its acquire calls through it. A transaction of the database is atomic;  *)
(* the window that runs it is not: between two transactions of one call    *)
(* other windows run theirs, and the window may be paused or die.          *)
(*                                                                         *)
(* An Owner is one broker instance, so a restarted window is another       *)
(* owner. A Call stands for one acquire call with its random ids.          *)
(***************************************************************************)
EXTENDS Claims

CONSTANTS
    Owner,       \* broker instances
    OwnerOf,     \* call -> the owner whose code makes it
    NoRow,       \* no quarantine row
    Unattributed \* a quarantine row whose lease_id is NULL

ASSUME BrokerAssumption ==
    /\ \A c \in Call : OwnerOf[c] \in Owner
    /\ NoRow \notin Call
    /\ Unattributed \notin Call
    /\ NoRow # Unattributed

VARIABLES
    \* each window's memory
    proc,        \* owner -> "off", "live", "disposing", "closed" or "crashed"
    step,        \* owner -> the transaction its running handler makes next
    phase,       \* call -> "new", "starting", "waiting", "holding", "settled", "failed"
    invalid,     \* held calls whose lease object was invalidated and aborted
    unsettled,   \* calls dispose tried to settle and could not
    \* the database
    ownerRow,    \* owner -> "none", "fresh" or "silent" (see GoSilent)
    pending,     \* calls with a row in resource_request
    sequence,    \* call -> the sequence of its request row, 0 before it has one
    lastSequence,
    lease,       \* calls with a row in resource_lease
    fences,      \* call -> key -> fence_token of its lease item, 0 if never granted
    token,       \* key -> resource_fence.token
    quarantine,  \* key -> NoRow, Unattributed or the call in lease_id
    \* history
    unclean      \* key -> lost leases whose physical work nobody confirmed stopped

memoryVars == <<proc, step, phase, invalid, unsettled>>
queueVars == <<pending, sequence, lastSequence>>
grantVars == <<fences, token>>
vars == <<memoryVars, ownerRow, queueVars, lease, grantVars, quarantine, unclean>>

Idle == [at |-> "idle"]
At(stage, c) == [at |-> stage, call |-> c]

Granted == {c \in Call : phase[c] \in {"holding", "settled"}}

Init ==
    /\ proc = [o \in Owner |-> "off"]
    /\ step = [o \in Owner |-> Idle]
    /\ phase = [c \in Call |-> "new"]
    /\ invalid = {}
    /\ unsettled = {}
    /\ ownerRow = [o \in Owner |-> "none"]
    /\ pending = {}
    /\ sequence = [c \in Call |-> 0]
    /\ lastSequence = 0
    /\ lease = {}
    /\ fences = [c \in Call |-> [k \in Key |-> 0]]
    /\ token = [k \in Key |-> 0]
    /\ quarantine = [k \in Key |-> NoRow]
    /\ unclean = [k \in Key |-> {}]

\* (a plausible bug, for DeadOwnersAreForgotten) only owners that hold a
\* lease are looked for
MutantStaleOwners(o, includeSilent) ==
    {p \in Owner \ {o} :
        /\ includeSilent \/ ownerRow[p] = "none"
        /\ ownerRow[p] # "fresh"
        /\ \E c \in lease : OwnerOf[c] = p}

(***************************************************************************)
(* The owners cleanupStaleOwners of o finds: the silent ones, if its own   *)
(* grace interval is over, and those that have rows but no owner row.      *)
(***************************************************************************)
StaleOwners(o, includeSilent) ==
    {p \in Owner \ {o} :
        \/ includeSilent /\ ownerRow[p] = "silent"
        \/ /\ ownerRow[p] = "none"
           /\ \E c \in lease \cup pending : OwnerOf[c] = p}

\* (a plausible bug, for LostLeaseIsNoticed) a lease counts as lost only once
\* a newer token was given out
MutantLostLocally(o) ==
    {c \in Call : /\ OwnerOf[c] = o /\ phase[c] = "holding"
                  /\ \E k \in KeysOf(c) : fences[c][k] < token[k]}

\* validateLocalLeases: the lease objects of o whose lease row is gone
LostLocally(o) ==
    {c \in Call : OwnerOf[c] = o /\ phase[c] = "holding" /\ c \notin lease}

(***************************************************************************)
(* maintainOwners: one transaction renews the owner's row and reclaims     *)
(* stale owners. Every physical key of a reclaimed lease is quarantined    *)
(* for nobody in particular. validateLocalLeases then reads the owner's    *)
(* own leases; only another owner could have removed one since.            *)
(***************************************************************************)
Maintain(o, includeSilent) ==
    LET stale == StaleOwners(o, includeSilent)
        lost == {c \in lease : OwnerOf[c] \in stale}
    IN /\ ownerRow' = [p \in Owner |-> IF p = o THEN "fresh"
                                       ELSE IF p \in stale THEN "none"
                                       ELSE ownerRow[p]]
       /\ pending' = {c \in pending : OwnerOf[c] \notin stale}
       /\ lease' = lease \ lost
       /\ quarantine' = [k \in Key |->
                           IF \E c \in lost : k \in PhysicalKeysOf(c)
                           THEN Unattributed ELSE quarantine[k]]
       /\ unclean' = [k \in Key |->
                        unclean[k] \cup {c \in lost : k \in PhysicalKeysOf(c)}]
       /\ invalid' = invalid \cup LostLocally(o)
       /\ UNCHANGED <<sequence, lastSequence, fences, token, unsettled>>

CanRun(o) == proc[o] = "live" /\ step[o] = Idle

(***************************************************************************)
(* A window opens the broker. staleCleanupBlockedUntil starts one interval *)
(* in the future, so the first heartbeat reclaims no silent owner.         *)
(***************************************************************************)
Start(o) ==
    /\ proc[o] = "off"
    /\ proc' = [proc EXCEPT ![o] = "live"]
    /\ Maintain(o, FALSE)
    /\ UNCHANGED <<step, phase>>

(***************************************************************************)
(* Time passes without a heartbeat of o until another owner would judge o  *)
(* stale: past staleOwnerMs with its process gone or foreign, or past      *)
(* liveOwnerGraceMs. OwnerStaleness models these clocks.                   *)
(***************************************************************************)
GoSilent(o) ==
    /\ ownerRow[o] = "fresh"
    /\ ownerRow' = [ownerRow EXCEPT ![o] = "silent"]
    /\ UNCHANGED <<memoryVars, queueVars, lease, grantVars, quarantine, unclean>>

Heartbeat(o, includeSilent) ==
    /\ CanRun(o)
    /\ Maintain(o, includeSilent)
    /\ UNCHANGED <<proc, step, phase>>

(***************************************************************************)
(* The heartbeat transaction fails, on contention for instance, and every  *)
(* lease object of the window is aborted.                                  *)
(***************************************************************************)
HeartbeatFails(o) ==
    /\ CanRun(o)
    /\ invalid' = invalid \cup
                    {c \in Call : OwnerOf[c] = o /\ phase[c] = "holding"}
    /\ UNCHANGED <<proc, step, phase, unsettled>>
    /\ UNCHANGED <<ownerRow, queueVars, lease, grantVars, quarantine, unclean>>

-----------------------------------------------------------------------------
(***************************************************************************)
(* acquire.                                                                *)
(***************************************************************************)
\* (a plausible bug, for ImplementsLeaseService) rows with no lease_id are
\* overlooked
MutantQuarantineBars(c) ==
    c \notin BridgeCall /\ \E k \in KeysOf(c) : quarantine[k] \in Call

QuarantineBars(c) ==
    c \notin BridgeCall /\ \E k \in KeysOf(c) : quarantine[k] # NoRow

Acquire(c, includeSilent) ==
    LET o == OwnerOf[c]
    IN /\ CanRun(o)
       /\ phase[c] = "new"
       /\ ~QuarantineBars(c)
       /\ Maintain(o, includeSilent)
       /\ phase' = [phase EXCEPT ![c] = "starting"]
       /\ step' = [step EXCEPT ![o] = At("insert", c)]
       /\ UNCHANGED proc

(***************************************************************************)
(* acquire throws before it has a row: quarantined, past its deadline,     *)
(* aborted, or its first transactions failed.                              *)
(***************************************************************************)
AcquireRejected(c) ==
    LET o == OwnerOf[c]
    IN /\ proc[o] = "live"
       /\ \/ phase[c] = "new" /\ step[o] = Idle
          \/ step[o] = At("insert", c)
       /\ phase' = [phase EXCEPT ![c] = "failed"]
       /\ step' = [step EXCEPT ![o] = Idle]
       /\ UNCHANGED <<proc, invalid, unsettled>>
       /\ UNCHANGED <<ownerRow, queueVars, lease, grantVars, quarantine, unclean>>

InsertRequest(c) ==
    LET o == OwnerOf[c]
    IN /\ proc[o] = "live"
       /\ step[o] = At("insert", c)
       /\ lastSequence' = lastSequence + 1
       /\ sequence' = [sequence EXCEPT ![c] = lastSequence + 1]
       /\ pending' = pending \cup {c}
       /\ phase' = [phase EXCEPT ![c] = "waiting"]
       /\ step' = [step EXCEPT ![o] = At("poll", c)]
       /\ UNCHANGED <<proc, invalid, unsettled>>
       /\ UNCHANGED <<ownerRow, lease, grantVars, quarantine, unclean>>

(***************************************************************************)
(* One round of the polling loop: maintain, then the deciding transaction. *)
(***************************************************************************)
Poll(c, includeSilent) ==
    LET o == OwnerOf[c]
    IN /\ proc[o] = "live"
       /\ phase[c] = "waiting"
       /\ step[o] \in {Idle, At("poll", c)}
       /\ Maintain(o, includeSilent)
       /\ step' = [step EXCEPT ![o] = At("attempt", c)]
       /\ UNCHANGED <<proc, phase>>

(***************************************************************************)
(* effectiveCapacity: a claim fits if no lease on the key and no request   *)
(* up to this one declares a capacity that it would exceed.                *)
(***************************************************************************)
EarlierRequests(c) == {d \in pending : sequence[d] < sequence[c]}

\* (a plausible bug, for CapacityRespected) the requested capacity counts,
\* not the lowest declared one
MutantFits(c, k) ==
    Used(lease, k) + ClaimsOf[c][k].units <= ClaimsOf[c][k].capacity

Fits(c, k) ==
    \A d \in ClaimantsOf({c} \cup lease \cup EarlierRequests(c), k) :
        Used(lease, k) + ClaimsOf[c][k].units <= ClaimsOf[d][k].capacity

\* (a plausible bug, for TokensFollowArrival) an earlier request for the same
\* key is overtaken
MutantMustWait(c) ==
    \/ c \in BridgeCall /\ \E k \in KeysOf(c) : ClaimantsOf(lease, k) # {}
    \/ \E k \in KeysOf(c) : ~Fits(c, k)

MustWait(c) ==
    \/ \E d \in EarlierRequests(c) : Overlaps(c, d)
    \/ c \in BridgeCall /\ \E k \in KeysOf(c) : ClaimantsOf(lease, k) # {}
    \/ \E k \in KeysOf(c) : ~Fits(c, k)

KeepWaiting(c) ==
    LET o == OwnerOf[c]
    IN /\ proc[o] = "live"
       /\ step[o] = At("attempt", c)
       /\ c \in pending
       /\ ~QuarantineBars(c)
       /\ MustWait(c)
       /\ step' = [step EXCEPT ![o] = Idle]
       /\ UNCHANGED <<proc, phase, invalid, unsettled>>
       /\ UNCHANGED <<ownerRow, queueVars, lease, grantVars, quarantine, unclean>>

(***************************************************************************)
(* The granting transaction: a token per key, the lease and its items in,  *)
(* the request out. A bridge request has also reserved the recorded        *)
(* endpoint, and takes the quarantine off its key.                         *)
(***************************************************************************)
Grant(c) ==
    LET o == OwnerOf[c]
    IN /\ proc[o] = "live"
       /\ step[o] = At("attempt", c)
       /\ c \in pending
       /\ ~QuarantineBars(c)
       /\ ~MustWait(c)
       /\ token' = [k \in Key |-> IF k \in KeysOf(c) THEN token[k] + 1 ELSE token[k]]
       /\ fences' = [fences EXCEPT ![c] =
                       [k \in Key |-> IF k \in KeysOf(c) THEN token[k] + 1 ELSE 0]]
       /\ lease' = lease \cup {c}
       /\ pending' = pending \ {c}
       /\ quarantine' = [k \in Key |-> IF c \in BridgeCall /\ k \in KeysOf(c)
                                       THEN NoRow ELSE quarantine[k]]
       /\ unclean' = [k \in Key |-> IF c \in BridgeCall /\ k \in KeysOf(c)
                                    THEN {} ELSE unclean[k]]
       /\ phase' = [phase EXCEPT ![c] = "holding"]
       /\ step' = [step EXCEPT ![o] = Idle]
       /\ UNCHANGED <<proc, invalid, unsettled, ownerRow, sequence, lastSequence>>

(***************************************************************************)
(* The loop throws: deadline, abort, quarantined, request row gone, bridge *)
(* endpoint not reserved, or a transaction failed. removePending deletes   *)
(* the row, unless it fails as well (removed = FALSE).                     *)
(***************************************************************************)
GiveUp(c, removed) ==
    LET o == OwnerOf[c]
    IN /\ proc[o] = "live"
       /\ phase[c] = "waiting"
       /\ step[o] \in {Idle, At("poll", c), At("attempt", c)}
       /\ pending' = IF removed THEN pending \ {c} ELSE pending
       /\ phase' = [phase EXCEPT ![c] = "failed"]
       /\ step' = [step EXCEPT ![o] = Idle]
       /\ UNCHANGED <<proc, invalid, unsettled>>
       /\ UNCHANGED <<sequence, lastSequence>>
       /\ UNCHANGED <<ownerRow, lease, grantVars, quarantine, unclean>>

-----------------------------------------------------------------------------
(***************************************************************************)
(* The lease object.                                                       *)
(***************************************************************************)

\* (a plausible bug, for TypeOK) the row names the owner that wrote it
MutantRowOfOwner(c, k) == OwnerOf[c]

\* (a plausible bug, for UncleanIsQuarantined) the row always names the last
\* lease
MutantRowTakenOver(c, k) == c

RowAfterQuarantine(c, k) ==
    IF quarantine[k] \in {NoRow, c} THEN c ELSE Unattributed

\* (a plausible bug, for LeaseHasHolder) a quarantined lease keeps its row
MutantSettleRows(c, quarantined) ==
    /\ lease' = IF quarantined THEN lease ELSE lease \ {c}
    /\ quarantine' =
         [k \in Key |->
            IF quarantined /\ k \in PhysicalKeysOf(c) THEN RowAfterQuarantine(c, k)
            ELSE quarantine[k]]
    /\ unclean' = [k \in Key |-> IF quarantined /\ k \in PhysicalKeysOf(c)
                                 THEN unclean[k] \cup {c} ELSE unclean[k]]
    /\ phase' = [phase EXCEPT ![c] = "settled"]
    /\ UNCHANGED <<proc, step, invalid, ownerRow, queueVars, grantVars>>

(***************************************************************************)
(* The transaction of settleLease. With a reason it quarantines every      *)
(* physical key of c, even if c has already been reclaimed; a row of       *)
(* another lease makes the quarantine nobody's.                            *)
(***************************************************************************)
SettleRows(c, quarantined) ==
    /\ lease' = lease \ {c}
    /\ quarantine' =
         [k \in Key |->
            IF quarantined /\ k \in PhysicalKeysOf(c) THEN RowAfterQuarantine(c, k)
            ELSE quarantine[k]]
    /\ unclean' = [k \in Key |-> IF quarantined /\ k \in PhysicalKeysOf(c)
                                 THEN unclean[k] \cup {c} ELSE unclean[k]]
    /\ phase' = [phase EXCEPT ![c] = "settled"]
    /\ UNCHANGED <<proc, step, invalid, ownerRow, queueVars, grantVars>>

\* release() and quarantine(reason): one settlement per lease
Settle(c, quarantined) ==
    /\ proc[OwnerOf[c]] \in {"live", "disposing"}
    /\ step[OwnerOf[c]] = Idle
    /\ phase[c] = "holding"
    /\ SettleRows(c, quarantined)
    /\ UNCHANGED unsettled

\* assertValid() or isValid() finds the lease gone or its broker disposed, or
\* cannot read the database to verify it (readable = FALSE)
CheckLeaseLost(c, readable) ==
    /\ proc[OwnerOf[c]] \in {"live", "disposing"}
    /\ step[OwnerOf[c]] = Idle
    /\ phase[c] = "holding"
    /\ readable => c \notin lease \/ proc[OwnerOf[c]] = "disposing"
    /\ invalid' = invalid \cup {c}
    /\ UNCHANGED <<proc, step, phase, unsettled>>
    /\ UNCHANGED <<ownerRow, queueVars, lease, grantVars, quarantine, unclean>>

ConfirmCleanup(c) ==
    /\ CanRun(OwnerOf[c])
    /\ phase[c] = "settled"
    /\ quarantine' = [k \in Key |-> IF quarantine[k] = c THEN NoRow ELSE quarantine[k]]
    /\ unclean' = [k \in Key |-> unclean[k] \ {c}]
    /\ UNCHANGED <<memoryVars, ownerRow, queueVars, lease, grantVars>>

\* the operator's Clear Resource Quarantine, from any window
ClearQuarantine(o, K) ==
    /\ CanRun(o)
    /\ quarantine' = [k \in Key |-> IF k \in K THEN NoRow ELSE quarantine[k]]
    /\ unclean' = [k \in Key |-> IF k \in K THEN {} ELSE unclean[k]]
    /\ UNCHANGED <<memoryVars, ownerRow, queueVars, lease, grantVars>>

-----------------------------------------------------------------------------
(***************************************************************************)
(* dispose, and the death of a window.                                     *)
(***************************************************************************)
Dispose(o) ==
    /\ CanRun(o)
    /\ proc' = [proc EXCEPT ![o] = "disposing"]
    /\ UNCHANGED <<step, phase, invalid, unsettled>>
    /\ UNCHANGED <<ownerRow, queueVars, lease, grantVars, quarantine, unclean>>

\* a waiting call finds the broker disposed; removePending then does nothing
DisposeCancels(c) ==
    /\ proc[OwnerOf[c]] = "disposing"
    /\ phase[c] = "waiting"
    /\ phase' = [phase EXCEPT ![c] = "failed"]
    /\ UNCHANGED <<proc, step, invalid, unsettled>>
    /\ UNCHANGED <<ownerRow, queueVars, lease, grantVars, quarantine, unclean>>

WaitingCalls(o) == {c \in Call : OwnerOf[c] = o /\ phase[c] = "waiting"}

HeldCalls(o) == {c \in Call : OwnerOf[c] = o /\ phase[c] = "holding"}

DisposeSettles(c) ==
    /\ proc[OwnerOf[c]] = "disposing"
    /\ WaitingCalls(OwnerOf[c]) = {}
    /\ phase[c] = "holding"
    /\ c \notin unsettled
    /\ SettleRows(c, TRUE)
    /\ UNCHANGED unsettled

DisposeSettleFails(c) ==
    /\ proc[OwnerOf[c]] = "disposing"
    /\ WaitingCalls(OwnerOf[c]) = {}
    /\ phase[c] = "holding"
    /\ unsettled' = unsettled \cup {c}
    /\ UNCHANGED <<proc, step, phase, invalid>>
    /\ UNCHANGED <<ownerRow, queueVars, lease, grantVars, quarantine, unclean>>

\* the window's memory is gone
Forget(o) ==
    /\ invalid' = {c \in invalid : OwnerOf[c] # o}
    /\ unsettled' = {c \in unsettled : OwnerOf[c] # o}

\* (a plausible bug, for LeaseHasOwnerRow) the owner row goes although a
\* settlement failed
MutantOwnerRowStays(o) == FALSE

OwnerRowStays(o) == \E c \in unsettled : OwnerOf[c] = o

(***************************************************************************)
(* The last transaction of dispose. The owner row stays when a settlement  *)
(* failed, so that a peer can still find the lease; nothing changes when   *)
(* the transaction itself fails (committed = FALSE).                       *)
(***************************************************************************)
DisposeFinishes(o, committed) ==
    /\ proc[o] = "disposing"
    /\ WaitingCalls(o) = {}
    /\ HeldCalls(o) \subseteq unsettled
    /\ proc' = [proc EXCEPT ![o] = "closed"]
    /\ pending' = IF committed THEN {c \in pending : OwnerOf[c] # o} ELSE pending
    /\ ownerRow' = IF committed /\ ~OwnerRowStays(o)
                   THEN [ownerRow EXCEPT ![o] = "none"] ELSE ownerRow
    /\ Forget(o)
    /\ UNCHANGED <<step, phase, sequence, lastSequence>>
    /\ UNCHANGED <<lease, grantVars, quarantine, unclean>>

\* a window dies at any point, also between two transactions of a handler
Crash(o) ==
    /\ proc[o] \in {"live", "disposing"}
    /\ proc' = [proc EXCEPT ![o] = "crashed"]
    /\ step' = [step EXCEPT ![o] = Idle]
    /\ phase' = [c \in Call |-> IF OwnerOf[c] = o /\ phase[c] \in {"starting", "waiting"}
                               THEN "failed" ELSE phase[c]]
    /\ Forget(o)
    /\ UNCHANGED <<ownerRow, queueVars, lease, grantVars, quarantine, unclean>>

-----------------------------------------------------------------------------
OwnerStep(o) ==
    \/ Start(o) \/ GoSilent(o)
    \/ \E includeSilent \in BOOLEAN : Heartbeat(o, includeSilent)
    \/ HeartbeatFails(o)
    \/ \E K \in SUBSET Key \ {{}} : ClearQuarantine(o, K)
    \/ Dispose(o) \/ Crash(o)
    \/ \E committed \in BOOLEAN : DisposeFinishes(o, committed)

CallStep(c) ==
    \/ \E includeSilent \in BOOLEAN :
         Acquire(c, includeSilent) \/ Poll(c, includeSilent)
    \/ AcquireRejected(c) \/ InsertRequest(c)
    \/ KeepWaiting(c) \/ Grant(c)
    \/ \E removed \in BOOLEAN : GiveUp(c, removed)
    \/ \E quarantined \in BOOLEAN : Settle(c, quarantined)
    \/ \E readable \in BOOLEAN : CheckLeaseLost(c, readable)
    \/ ConfirmCleanup(c)
    \/ DisposeCancels(c) \/ DisposeSettles(c) \/ DisposeSettleFails(c)

Next ==
    \/ \E o \in Owner : OwnerStep(o)
    \/ \E c \in Call : CallStep(c)

Spec == Init /\ [][Next]_vars

-----------------------------------------------------------------------------
(***************************************************************************)
(* Properties.                                                             *)
(***************************************************************************)
Step == {Idle} \cup [at : {"insert", "poll", "attempt"}, call : Call]

Phase == {"new", "starting", "waiting", "holding", "settled", "failed"}

\* The state has the shapes the tables and the window's maps give it.
TypeOK ==
    /\ proc \in [Owner -> {"off", "live", "disposing", "closed", "crashed"}]
    /\ step \in [Owner -> Step]
    /\ phase \in [Call -> Phase]
    /\ invalid \subseteq Call
    /\ unsettled \subseteq Call
    /\ ownerRow \in [Owner -> {"none", "fresh", "silent"}]
    /\ pending \subseteq Call
    /\ sequence \in [Call -> Nat]
    /\ lastSequence \in Nat
    /\ lease \subseteq Call
    /\ fences \in [Call -> [Key -> Nat]]
    /\ token \in [Key -> Nat]
    /\ quarantine \in [Key -> Call \cup {NoRow, Unattributed}]
    /\ unclean \in [Key -> SUBSET Call]

\* The units leased of a key never exceed the capacity that any lease on it
\* declared, whoever reclaims, releases or grants in between.
CapacityRespected ==
    \A k \in Key : \A c \in ClaimantsOf(lease, k) :
        Used(lease, k) <= ClaimsOf[c][k].capacity

\* Two grants that share a key carry its fencing tokens in the order in which
\* their requests were queued: nobody overtakes, and a holder whose lease was
\* reclaimed can be told from every later one.
TokensFollowArrival ==
    \A c, d \in Granted : \A k \in KeysOf(c) \cap KeysOf(d) :
        sequence[c] < sequence[d] => fences[c][k] < fences[d][k]

\* While the physical work of a lost lease is unconfirmed its key stays
\* quarantined: no confirmation of another lease, no second quarantine and no
\* reclaim takes that row away.
UncleanIsQuarantined ==
    \A k \in Key : unclean[k] # {} => quarantine[k] # NoRow

\* Every lease row has an owner row by which a peer can find and reclaim it,
\* through partly failed disposals, pauses between transactions and reclaims.
LeaseHasOwnerRow == \A c \in lease : ownerRow[OwnerOf[c]] # "none"

\* A lease row belongs to a call whose caller still has the lease object (or
\* whose window is gone): settling, giving up and cancelling leave none behind.
LeaseHasHolder == \A c \in lease : phase[c] = "holding"

(***************************************************************************)
(* The strengthenings that make these invariants inductive.                *)
(***************************************************************************)

\* a handler between two transactions owns its call, in a live window
HandlerInv ==
    \A o \in Owner : step[o] # Idle =>
        /\ proc[o] = "live"
        /\ OwnerOf[step[o].call] = o
        /\ phase[step[o].call] = IF step[o].at = "insert" THEN "starting" ELSE "waiting"

\* the request rows, and the sequences they were given
RequestInv ==
    /\ \A c \in pending : phase[c] \in {"waiting", "failed"}
    /\ \A c \in Call : sequence[c] <= lastSequence
    /\ \A c \in pending \cup Granted : sequence[c] > 0
    /\ \A c, d \in Call : c # d /\ sequence[c] > 0 => sequence[c] # sequence[d]

\* what is granted came before what still waits for the same key
ArrivalInv ==
    /\ TokensFollowArrival
    /\ \A c \in pending, d \in Granted : Overlaps(c, d) => sequence[d] < sequence[c]
    /\ \A c \in Granted : \A k \in KeysOf(c) : fences[c][k] <= token[k]

\* a quarantine that a single lease may lift covers the work of that lease only
QuarantineInv ==
    \A k \in Key : unclean[k] # {} =>
        /\ quarantine[k] # NoRow
        /\ quarantine[k] \in Call => unclean[k] = {quarantine[k]}

\* an owner about to decide on its request has its owner row, unless it was
\* reclaimed since, and then its request is gone as well
OwnerRowInv ==
    /\ LeaseHasOwnerRow
    /\ \A o \in Owner :
         step[o] # Idle /\ step[o].at = "attempt" /\ step[o].call \in pending
            => ownerRow[o] # "none"

CapacityInv ==
    /\ CapacityRespected
    /\ \A k \in Key : IsFiniteSet(UnitsOf(lease, k))

Service == INSTANCE LeaseService WITH live <- lease, granted <- Granted

\* The broker implements the service its callers rely on: in particular no
\* ordinary grant is made on a key with unconfirmed physical work.
ImplementsLeaseService == Service!Spec

-----------------------------------------------------------------------------
(***************************************************************************)
(* Fairness. A handler runs through to its next await (the step actions);  *)
(* the heartbeat timer of a live window keeps firing, with its own grace   *)
(* interval over infinitely often; time passes for a dead window.          *)
(***************************************************************************)
Dead(o) == proc[o] \in {"closed", "crashed"}

HandlerFairness(c) ==
    /\ WF_vars(InsertRequest(c))
    /\ WF_vars(step[OwnerOf[c]] = At("poll", c) /\ Poll(c, TRUE))
    /\ WF_vars(step[OwnerOf[c]] = At("attempt", c)
                  /\ (KeepWaiting(c) \/ Grant(c) \/ GiveUp(c, TRUE)))

FairSpec ==
    /\ Spec
    /\ \A c \in Call : HandlerFairness(c)
    /\ \A o \in Owner : /\ SF_vars(Heartbeat(o, TRUE))
                         /\ WF_vars(Dead(o) /\ GoSilent(o))

\* What a dead window left in the queue and the lease table is reclaimed, as
\* long as some window stays alive to do it.
DeadOwnersAreForgotten ==
    \A o \in Owner :
        Dead(o) ~> \/ \A c \in lease \cup pending : OwnerOf[c] # o
                   \/ \A p \in Owner : proc[p] # "live"

\* A window whose lease was reclaimed under it aborts that lease object, so
\* that the work it protected is told to stop.
LostLeaseIsNoticed ==
    \A c \in Call :
        (phase[c] = "holding" /\ c \notin lease)
            ~> (c \in invalid \/ phase[c] = "settled" \/ proc[OwnerOf[c]] # "live")
=============================================================================
