--------------------------- MODULE ExecutionLease ---------------------------
(***************************************************************************)
(* The execution lease of one conversation                                 *)
(* (src/src/conversations/executionLeasePlan.ts and the lease part of      *)
(* createConversationManager.ts). Its operations share one broker lease:   *)
(* the first acquires it, later ones top it up with the local provider     *)
(* slots they need, the last one to finish closes it. A run may hand it    *)
(* back for a checklist and take it again for its next iteration.          *)
(*                                                                         *)
(* Changes go through a mutation queue, but a top-up waits for the broker  *)
(* outside of it, and an interruption passes it by.                        *)
(***************************************************************************)
EXTENDS Naturals, Sequences, FiniteSets

CONSTANTS
    Op,             \* operations of the conversation, each retains once
    Run,            \* those that are pipeline runs
    AgentsOf,       \* op -> the persistent agents it names
    SlotsOf,        \* op -> the transient slots it names
    UnitsOf,        \* op -> totalUnits of its demand
    MaxLocalAgents, \* bachata.maxConcurrentLocalAgents
    MaxFaults,      \* bound: interruptions, lost leases and leases that can be
                    \* neither released nor quarantined
    NoOp

ASSUME ExecutionAssumption ==
    /\ NoOp \notin Op
    /\ Run \subseteq Op
    /\ MaxLocalAgents \in Nat
    /\ MaxFaults \in Nat
    /\ \A o \in Op : /\ IsFiniteSet(AgentsOf[o])
                     /\ SlotsOf[o] \in Nat
                     /\ UnitsOf[o] \in Nat

VARIABLES
    queue,        \* executionLeaseMutationQueues: [do, op], the head is running
    pc,           \* op -> how far it is
    as,           \* op -> the user id it retains under
    retaking,     \* runs that take a suspended lease back
    topUp,        \* user -> newPersistentAgentIds of its top-up
    exec,         \* the last ExecutionLeaseState
    current,      \* whether executionLeases still maps to it
    attached,     \* ops whose top-up was reserved on exec
    suspended,    \* suspendedExecutionUsers: the user id, or NoOp
    controller,   \* executionLeaseControllers: the op registered last, or NoOp
    aborted,      \* ops whose acquisition was aborted
    held,         \* leases the broker granted and nobody has settled
    lost,         \* those among them whose signal is aborted
    stuck,        \* those whose release and quarantine both failed
    interruption, \* [at, leases] of interruptConversation
    faults,       \* how many there were
    forgotten     \* leases dropped with the state or the user that held them

waitVars == <<controller, aborted>>
leaseVars == <<held, lost, stuck, forgotten>>
interruptVars == <<interruption, faults>>
opVars == <<pc, as, retaking, topUp>>
stateVars == <<exec, current, attached>>
vars == <<queue, opVars, stateVars, suspended, waitVars, leaseVars, interruptVars>>

Lease == Op \X {"main", "persistent", "transient"}
Main(u) == <<u, "main">>
Persistent(u) == <<u, "persistent">>
Transient(u) == <<u, "transient">>

\* no ExecutionLeaseState yet
NoExec ==
    [main |-> NoOp, users |-> {}, pending |-> {}, reserved |-> 0,
     agents |-> {}, persistent |-> {}, closing |-> {}]

Quiet == [at |-> "none", leases |-> {}]

Init ==
    /\ queue = <<>>
    /\ pc = [o \in Op |-> "new"]
    /\ as = [o \in Op |-> o]
    /\ retaking = {}
    /\ topUp = [o \in Op |-> {}]
    /\ exec = NoExec
    /\ current = FALSE
    /\ attached = {}
    /\ suspended = NoOp
    /\ controller = NoOp
    /\ aborted = {}
    /\ held = {}
    /\ lost = {}
    /\ stuck = {}
    /\ interruption = Quiet
    /\ faults = 0
    /\ forgotten = {}

-----------------------------------------------------------------------------
(***************************************************************************)
(* What a state holds.                                                     *)
(***************************************************************************)

\* only a user that came by a top-up has a transient lease of its own
TransientUsers(e) == {u \in e.users : u # e.main /\ SlotsOf[u] > 0}

\* executionStateLeases
StateLeases(e) ==
    {Main(e.main)} \cup {Persistent(u) : u \in e.persistent}
                   \cup {Transient(u) : u \in TransientUsers(e)}

AllValid(e) == StateLeases(e) \cap lost = {}

AtHead(o, what) == queue # <<>> /\ Head(queue) = [do |-> what, op |-> o]

\* (a plausible bug, for RetentionsAreAnswered) a rejection breaks the chain
MutantRejected == queue

\* serialQueue goes on after a rejection
Rejected == Tail(queue)

Enqueue(o, what) == queue' = Append(queue, [do |-> what, op |-> o])

Handover == <<suspended, exec, current, attached>>

\* closeExecutionLease settles what the state holds when it begins
Closing(e) == [e EXCEPT !.closing = StateLeases(e)]

\* (a plausible bug, for TypeOK) a settled lease stays known as lost
MutantSettleLeases(leases, failed) ==
    /\ faults + Cardinality(failed) <= MaxFaults
    /\ faults' = faults + Cardinality(failed)
    /\ held' = (held \ leases) \cup (held \cap failed)
    /\ stuck' = stuck \cup (held \cap failed)
    /\ UNCHANGED lost

\* settling leases: those in failed could be neither released nor quarantined
SettleLeases(leases, failed) ==
    /\ faults + Cardinality(failed) <= MaxFaults
    /\ faults' = faults + Cardinality(failed)
    /\ held' = (held \ leases) \cup (held \cap failed)
    /\ lost' = (lost \ leases) \cup (lost \cap failed)
    /\ stuck' = stuck \cup (held \cap failed)

-----------------------------------------------------------------------------
(***************************************************************************)
(* retainExecutionLease, in the mutation queue.                            *)
(***************************************************************************)

\* withExecutionLease; claimConversationRun lets one run in at a time
Request(o) ==
    /\ pc[o] = "new"
    /\ o \in Run => \A r \in Run \ {o} : pc[r] \in {"new", "done"}
    /\ Enqueue(o, "retain")
    /\ pc' = [pc EXCEPT ![o] = "queued"]
    /\ UNCHANGED <<as, retaking, topUp, Handover, waitVars, leaseVars, interruptVars>>

\* a retention that fails: only a run that is under way has a share to release
Failed(o) == [pc EXCEPT ![o] = IF o \in retaking THEN "ending" ELSE "done"]

NewAgents(u) == AgentsOf[u] \ exec.agents

AdditionalUnits(u, agents) == Cardinality(agents) + SlotsOf[u]

AggregateDemand(u) == exec.reserved + AdditionalUnits(u, NewAgents(u))

DemandRefused(u) ==
    \/ UnitsOf[u] < Cardinality(AgentsOf[u]) + SlotsOf[u]
    \/ UnitsOf[u] > MaxLocalAgents

TopUpRefused(u) ==
    \/ ~AllValid(exec)
    \/ u \in exec.users \cup exec.pending
    \/ AggregateDemand(u) > MaxLocalAgents

RetainRefused(o) ==
    /\ AtHead(o, "retain")
    /\ pc[o] = "queued"
    /\ DemandRefused(as[o]) \/ (current /\ TopUpRefused(as[o]))
    /\ pc' = Failed(o)
    /\ retaking' = retaking \ {o}
    /\ queue' = Rejected
    /\ UNCHANGED <<as, topUp, Handover, waitVars, leaseVars, interruptVars>>

\* nobody holds the lease: the item stays in the queue until it is acquired
RetainFirst(o) ==
    /\ AtHead(o, "retain")
    /\ pc[o] = "queued"
    /\ ~DemandRefused(as[o]) /\ ~current
    /\ pc' = [pc EXCEPT ![o] = "identity"]
    /\ UNCHANGED <<queue, as, retaking, topUp, Handover, waitVars, leaseVars, interruptVars>>

\* the repository's identity is known; acquireSharedExecutionLease begins and
\* registers its controller, in place of any other
AcquireFirst(o) ==
    /\ pc[o] = "identity"
    /\ pc' = [pc EXCEPT ![o] = "first"]
    /\ controller' = o
    /\ aborted' = aborted \ {o}
    /\ UNCHANGED <<queue, as, retaking, topUp, Handover, leaseVars, interruptVars>>

AcquisitionOver(o) ==
    /\ controller' = IF controller = o THEN NoOp ELSE controller
    /\ UNCHANGED aborted

\* the retention of a run's next iteration is no longer suspended
Retained(o) ==
    /\ retaking' = retaking \ {o}
    /\ suspended' = IF o \in retaking THEN NoOp ELSE suspended

GrantFirst(o) ==
    LET u == as[o]
    IN /\ pc[o] = "first"
       /\ o \notin aborted
       /\ held' = held \cup {Main(u)}
       /\ exec' = [NoExec EXCEPT !.main = u, !.users = {u},
                                 !.reserved = UnitsOf[u], !.agents = AgentsOf[u]]
       /\ current' = TRUE
       /\ attached' = {}
       /\ pc' = [pc EXCEPT ![o] = "running"]
       /\ queue' = Tail(queue)
       /\ Retained(o)
       /\ AcquisitionOver(o)
       /\ UNCHANGED <<as, topUp, lost, stuck, forgotten, interruptVars>>

\* deadline, abort, refusal by the broker, or no working directory
FirstFails(o) ==
    /\ pc[o] \in {"identity", "first"}
    /\ pc' = Failed(o)
    /\ retaking' = retaking \ {o}
    /\ queue' = Rejected
    /\ AcquisitionOver(o)
    /\ UNCHANGED <<as, topUp, Handover, leaseVars, interruptVars>>

-----------------------------------------------------------------------------
(***************************************************************************)
(* A top-up: reserved in the queue, acquired outside of it.                *)
(***************************************************************************)
AfterReservation(u, agents) ==
    IF agents # {} THEN "persistent"
    ELSE IF SlotsOf[u] > 0 THEN "transient" ELSE "committing"

\* entering an acquisition registers its controller
Acquiring(o, stage) ==
    IF stage = "committing" THEN AcquisitionOver(o)
    ELSE controller' = o /\ aborted' = aborted \ {o}

ReserveTopUp(o) ==
    LET u == as[o]
        agents == NewAgents(u)
        stage == AfterReservation(u, agents)
    IN /\ AtHead(o, "retain")
       /\ pc[o] = "queued"
       /\ ~DemandRefused(u) /\ current /\ ~TopUpRefused(u)
       /\ exec' = [exec EXCEPT !.reserved = AggregateDemand(u),
                               !.agents = @ \cup agents,
                               !.pending = @ \cup {u}]
       /\ topUp' = [topUp EXCEPT ![u] = agents]
       /\ attached' = attached \cup {o}
       /\ pc' = [pc EXCEPT ![o] = stage]
       /\ Acquiring(o, stage)
       /\ queue' = Tail(queue)
       /\ UNCHANGED <<as, retaking, current, suspended, leaseVars, interruptVars>>

GrantPersistent(o) ==
    LET u == as[o]
        stage == AfterReservation(u, {})
    IN /\ pc[o] = "persistent"
       /\ o \notin aborted
       /\ held' = held \cup {Persistent(u)}
       /\ pc' = [pc EXCEPT ![o] = stage]
       /\ Acquiring(o, stage)
       /\ UNCHANGED <<queue, as, retaking, topUp, Handover, lost, stuck, forgotten, interruptVars>>

GrantTransient(o) ==
    /\ pc[o] = "transient"
    /\ o \notin aborted
    /\ held' = held \cup {Transient(as[o])}
    /\ pc' = [pc EXCEPT ![o] = "committing"]
    /\ AcquisitionOver(o)
    /\ UNCHANGED <<queue, as, retaking, topUp, Handover, lost, stuck, forgotten, interruptVars>>

\* (a plausible bug, for ReservationsBalance) the transient slots stay reserved
MutantReleaseReservation(o) ==
    LET u == as[o]
        units == Cardinality(topUp[u])
    IN /\ exec' = IF o \notin attached THEN exec
                  ELSE [exec EXCEPT
                          !.pending = @ \ {u},
                          !.reserved = IF units > @ THEN 0 ELSE @ - units,
                          !.agents = @ \ topUp[u]]
       /\ attached' = attached \ {o}

\* releaseTopUpReservation; nobody looks at a state that was replaced
ReleaseReservation(o) ==
    LET u == as[o]
        units == AdditionalUnits(u, topUp[u])
    IN /\ exec' = IF o \notin attached THEN exec
                  ELSE [exec EXCEPT
                          !.pending = @ \ {u},
                          !.reserved = IF units > @ THEN 0 ELSE @ - units,
                          !.agents = @ \ topUp[u]]
       /\ attached' = attached \ {o}

TopUpFails(o) ==
    /\ pc[o] \in {"persistent", "transient"}
    /\ ReleaseReservation(o)
    /\ pc' = [pc EXCEPT ![o] = "abandoning"]
    /\ AcquisitionOver(o)
    /\ UNCHANGED <<queue, as, retaking, topUp, current, suspended, leaseVars, interruptVars>>

\* (a plausible bug, for NothingJoinsAClosingLease) the closing is not looked at
MutantTopUpHolds(o) == o \in attached /\ current

TopUpHolds(o) == o \in attached /\ current /\ exec.closing = {}

(***************************************************************************)
(* The commit, together with the check withExecutionLease makes of every   *)
(* lease before the operation begins.                                      *)
(***************************************************************************)
Commit(o) ==
    LET u == as[o]
    IN /\ pc[o] = "committing"
       /\ TopUpHolds(o)
       /\ exec' = [exec EXCEPT
                     !.pending = @ \ {u},
                     !.users = @ \cup {u},
                     !.persistent = IF topUp[u] = {} THEN @ ELSE @ \cup {u}]
       /\ attached' = attached \ {o}
       /\ pc' = [pc EXCEPT ![o] = IF o \in retaking \/ AllValid(exec') THEN "running"
                                  ELSE "ending"]
       /\ Retained(o)
       /\ UNCHANGED <<queue, as, topUp, current, waitVars, leaseVars, interruptVars>>

\* the lease was closed or forgotten while the top-up waited
CommitRefused(o) ==
    /\ pc[o] = "committing"
    /\ ~TopUpHolds(o)
    /\ ReleaseReservation(o)
    /\ pc' = [pc EXCEPT ![o] = "abandoning"]
    /\ UNCHANGED <<queue, as, retaking, topUp, current, suspended, waitVars, leaseVars,
                   interruptVars>>

\* (a plausible bug, for NoLeaseLeftBehind) the persistent lease is left
MutantReservedLeases(o) == held \cap {Transient(as[o])}

\* reservedPersistentLease and transientLease of the top-up
ReservedLeases(o) == held \cap {Persistent(as[o]), Transient(as[o])}

\* abandonReservedLeases
Abandon(o, failed) ==
    LET leases == ReservedLeases(o)
    IN /\ pc[o] = "abandoning"
       /\ failed \subseteq leases
       /\ SettleLeases(leases, failed)
       /\ pc' = Failed(o)
       /\ retaking' = retaking \ {o}
       /\ UNCHANGED <<queue, as, topUp, Handover, waitVars, forgotten, interruption>>

-----------------------------------------------------------------------------
(***************************************************************************)
(* releaseExecutionLease.                                                  *)
(***************************************************************************)

\* the operation is over, in whatever way
RequestRelease(o) ==
    /\ pc[o] \in {"running", "between", "ending"}
    /\ Enqueue(o, "release")
    /\ pc' = [pc EXCEPT ![o] = "releasing"]
    /\ UNCHANGED <<as, retaking, topUp, Handover, waitVars, leaseVars, interruptVars>>

ReleaseAtHead(o) == AtHead(o, "release") /\ pc[o] = "releasing"

Done(o) ==
    /\ pc' = [pc EXCEPT ![o] = "done"]
    /\ queue' = Tail(queue)

\* nothing to release: at most a suspended retention is dropped
ReleaseNothing(o) ==
    /\ ReleaseAtHead(o)
    /\ ~current \/ o \notin exec.users
    /\ suspended' = IF suspended = o /\ ~current THEN NoOp ELSE suspended
    /\ Done(o)
    /\ UNCHANGED <<as, retaking, topUp, stateVars, waitVars, leaseVars, interruptVars>>

\* (a plausible bug, for NothingIsKept) a pending top-up is trusted to close it
MutantIsLast(o) == exec.users \ {o} = {} /\ exec.pending = {}

IsLast(o) == exec.users \ {o} = {}

(***************************************************************************)
(* The share is given up at once. Whether it was the last one is decided   *)
(* here, before the release of a transient lease is awaited.               *)
(***************************************************************************)
ReleaseShare(o) ==
    LET left == [exec EXCEPT !.users = @ \ {o}]
        last == IsLast(o)
    IN /\ ReleaseAtHead(o)
       /\ current /\ o \in exec.users
       /\ IF o \in TransientUsers(exec)
          THEN /\ exec' = left
               /\ pc' = [pc EXCEPT ![o] = IF last THEN "lastTransient" ELSE "oneTransient"]
               /\ UNCHANGED queue
          ELSE IF last
          THEN /\ exec' = Closing(left)
               /\ pc' = [pc EXCEPT ![o] = "closing"]
               /\ UNCHANGED queue
          ELSE /\ exec' = left
               /\ Done(o)
       /\ UNCHANGED <<as, retaking, topUp, current, attached, suspended, waitVars, leaseVars,
                      interruptVars>>

\* the transient lease is settled; the last user then closes the lease
ReleaseTransient(o, failed) ==
    LET left == [exec EXCEPT !.reserved = IF SlotsOf[o] > @ THEN 0 ELSE @ - SlotsOf[o]]
    IN /\ pc[o] \in {"oneTransient", "lastTransient"}
       /\ failed \subseteq held \cap {Transient(o)}
       /\ SettleLeases({Transient(o)}, failed)
       /\ IF pc[o] = "lastTransient"
          THEN /\ exec' = Closing(left)
               /\ pc' = [pc EXCEPT ![o] = "closing"]
               /\ UNCHANGED queue
          ELSE /\ exec' = left
               /\ Done(o)
       /\ UNCHANGED <<as, retaking, topUp, current, attached, suspended, waitVars, forgotten,
                      interruption>>

(***************************************************************************)
(* closeExecutionLease: providers are shut down, then every lease the      *)
(* state held at its beginning is released, or quarantined if any of that  *)
(* failed. The state goes in either case.                                  *)
(***************************************************************************)
CloseLease(failed) ==
    /\ failed \subseteq held \cap exec.closing
    /\ SettleLeases(exec.closing, failed)
    /\ exec' = NoExec
    /\ current' = FALSE
    /\ attached' = {}

Close(o, failed) ==
    /\ pc[o] = "closing"
    /\ CloseLease(failed)
    /\ Done(o)
    /\ UNCHANGED <<as, retaking, topUp, suspended, waitVars, forgotten, interruption>>

-----------------------------------------------------------------------------
(***************************************************************************)
(* Runs: executeChecklist and the next iteration.                          *)
(***************************************************************************)
RequestSuspension(o) ==
    /\ o \in Run
    /\ pc[o] = "running"
    /\ Enqueue(o, "suspend")
    /\ pc' = [pc EXCEPT ![o] = "suspending"]
    /\ UNCHANGED <<as, retaking, topUp, Handover, waitVars, leaseVars, interruptVars>>

SuspensionRefused(o) ==
    /\ AtHead(o, "suspend")
    /\ pc[o] = "suspending"
    /\ ~current \/ exec.closing # {} \/ Cardinality(exec.users) # 1
    /\ pc' = [pc EXCEPT ![o] = "ending"]
    /\ queue' = Rejected
    /\ UNCHANGED <<as, retaking, topUp, Handover, waitVars, leaseVars, interruptVars>>

\* the only user is remembered, whoever it is; its transient lease no longer
\* belongs to the state that is then closed
Suspend(o) ==
    /\ AtHead(o, "suspend")
    /\ pc[o] = "suspending"
    /\ current /\ exec.closing = {} /\ Cardinality(exec.users) = 1
    /\ suspended' \in exec.users
    /\ exec' = Closing([exec EXCEPT !.users = {}])
    /\ forgotten' = forgotten \cup {Transient(u) : u \in TransientUsers(exec)}
    /\ pc' = [pc EXCEPT ![o] = "suspendClosing"]
    /\ UNCHANGED <<queue, as, retaking, topUp, current, attached, waitVars, held, lost, stuck,
                   interruptVars>>

\* the checklist starts if the lease could be handed back
SuspendCloses(o, failed) ==
    /\ pc[o] = "suspendClosing"
    /\ CloseLease(failed)
    /\ pc' = [pc EXCEPT ![o] = IF failed = {} THEN "checklist" ELSE "ending"]
    /\ queue' = Tail(queue)
    /\ UNCHANGED <<as, retaking, topUp, suspended, waitVars, forgotten, interruption>>

\* the checklist, or an iteration without one, is over
IterationEnds(o) ==
    /\ o \in Run
    /\ pc[o] \in {"running", "checklist"}
    /\ pc' = [pc EXCEPT ![o] = "between"]
    /\ UNCHANGED <<queue, as, retaking, topUp, Handover, waitVars, leaseVars, interruptVars>>

\* ensureContinuationExecutionLease: a lease that is held, by whomever, will do
ContinueHeld(o) ==
    /\ pc[o] = "between"
    /\ current
    /\ pc' = [pc EXCEPT ![o] = IF AllValid(exec) THEN "running" ELSE "ending"]
    /\ UNCHANGED <<queue, as, retaking, topUp, Handover, waitVars, leaseVars, interruptVars>>

ContinueRefused(o) ==
    /\ pc[o] = "between"
    /\ ~current /\ suspended = NoOp
    /\ pc' = [pc EXCEPT ![o] = "ending"]
    /\ UNCHANGED <<queue, as, retaking, topUp, Handover, waitVars, leaseVars, interruptVars>>

\* the suspended retention is taken back, under its user and demand
Retake(o) ==
    /\ pc[o] = "between"
    /\ ~current /\ suspended # NoOp
    /\ as' = [as EXCEPT ![o] = suspended]
    /\ retaking' = retaking \cup {o}
    /\ Enqueue(o, "retain")
    /\ pc' = [pc EXCEPT ![o] = "queued"]
    /\ UNCHANGED <<topUp, Handover, waitVars, leaseVars, interruptVars>>

-----------------------------------------------------------------------------
(***************************************************************************)
(* interruptConversation, and leases lost to the broker.                   *)
(***************************************************************************)

\* the acquisition that registered last is aborted; others are not known
Interrupt ==
    /\ interruption = Quiet
    /\ faults < MaxFaults
    /\ faults' = faults + 1
    /\ aborted' = aborted \cup ({controller} \ {NoOp})
    /\ interruption' = [at |-> "asked", leases |-> {}]
    /\ UNCHANGED <<queue, opVars, Handover, controller, leaseVars>>

InterruptConfirmed ==
    /\ interruption.at = "asked"
    /\ interruption' = Quiet
    /\ UNCHANGED <<queue, opVars, Handover, waitVars, leaseVars, faults>>

\* the runtime does not confirm in time: what the state holds now is going to
\* be quarantined
InterruptTimesOut ==
    /\ interruption.at = "asked"
    /\ IF current
       THEN /\ interruption' = [at |-> "quarantining", leases |-> StateLeases(exec)]
            /\ UNCHANGED suspended
       ELSE interruption' = Quiet /\ suspended' = NoOp
    /\ UNCHANGED <<queue, opVars, stateVars, waitVars, leaseVars, faults>>

\* if that succeeds the conversation forgets its state, as it is by now
InterruptQuarantines(failed) ==
    /\ interruption.at = "quarantining"
    /\ failed \subseteq held \cap interruption.leases
    /\ SettleLeases(interruption.leases, failed)
    /\ IF failed = {}
       THEN /\ current' = FALSE
            /\ forgotten' = IF current THEN forgotten \cup (held' \cap StateLeases(exec))
                            ELSE forgotten
       ELSE UNCHANGED <<current, forgotten>>
    /\ suspended' = NoOp
    /\ interruption' = Quiet
    /\ UNCHANGED <<queue, opVars, exec, attached, waitVars>>

LoseLease(l) ==
    /\ l \in held \ lost
    /\ faults < MaxFaults
    /\ faults' = faults + 1
    /\ lost' = lost \cup {l}
    /\ UNCHANGED <<queue, opVars, Handover, waitVars, held, stuck, forgotten, interruption>>

-----------------------------------------------------------------------------
(***************************************************************************)
(* What a requested mutation of the queue, and what follows it, does by    *)
(* itself; the rest is up to the callers.                                  *)
(***************************************************************************)
HandlerStep(o) ==
    \/ RetainRefused(o) \/ RetainFirst(o) \/ AcquireFirst(o) \/ GrantFirst(o) \/ FirstFails(o)
    \/ ReserveTopUp(o) \/ GrantPersistent(o) \/ GrantTransient(o) \/ TopUpFails(o)
    \/ Commit(o) \/ CommitRefused(o)
    \/ ReleaseNothing(o) \/ ReleaseShare(o) \/ SuspensionRefused(o) \/ Suspend(o)
    \/ \E failed \in SUBSET held :
         \/ Abandon(o, failed) \/ ReleaseTransient(o, failed)
         \/ Close(o, failed) \/ SuspendCloses(o, failed)

CallerStep(o) ==
    \/ Request(o) \/ RequestRelease(o) \/ RequestSuspension(o)
    \/ IterationEnds(o) \/ ContinueHeld(o) \/ ContinueRefused(o) \/ Retake(o)

Next ==
    \/ \E o \in Op : HandlerStep(o) \/ CallerStep(o)
    \/ Interrupt \/ InterruptConfirmed \/ InterruptTimesOut
    \/ \E failed \in SUBSET held : InterruptQuarantines(failed)
    \/ \E l \in held : LoseLease(l)

Spec == Init /\ [][Next]_vars

(***************************************************************************)
(* Every wait of a handler ends: an acquisition has a deadline, provider   *)
(* cleanup and the broker's operations are bounded.                        *)
(***************************************************************************)
Fairness == \A o \in Op : WF_vars(HandlerStep(o))

FairSpec == Spec /\ Fairness

-----------------------------------------------------------------------------
PC == {"new", "queued", "identity", "first", "persistent", "transient", "committing",
       "abandoning", "running", "between", "ending", "releasing", "oneTransient",
       "lastTransient", "closing", "suspending", "suspendClosing", "checklist", "done"}

TypeOK ==
    /\ queue \in Seq([do : {"retain", "release", "suspend"}, op : Op])
    /\ pc \in [Op -> PC]
    /\ as \in [Op -> Op]
    /\ retaking \subseteq Run
    /\ \A o \in Op : topUp[o] \subseteq AgentsOf[o]
    /\ current \in BOOLEAN
    /\ attached \subseteq Op
    /\ suspended \in Op \cup {NoOp}
    /\ controller \in Op \cup {NoOp}
    /\ aborted \subseteq Op
    /\ held \subseteq Lease
    /\ lost \subseteq held
    /\ stuck \subseteq Lease
    /\ forgotten \subseteq Lease
    /\ faults \in 0 .. MaxFaults

ReleasingTransient == {o \in Op : pc[o] \in {"oneTransient", "lastTransient"}}

\* the agents and the slots, each with the user it was reserved for
ReservedAgents ==
    UNION {{u} \X topUp[u] : u \in exec.pending \cup exec.persistent}

ReservedSlots ==
    UNION {{u} \X (1 .. SlotsOf[u]) :
             u \in exec.pending \cup (exec.users \ {exec.main}) \cup ReleasingTransient}

(***************************************************************************)
(* The local agents a state counts as reserved are those of its first      *)
(* user, of its pending top-ups, of the persistent leases it took over and *)
(* of the transient leases that are held or being released. A failed,      *)
(* refused or abandoned top-up leaves nothing behind that would make later *)
(* operations of the conversation be refused at maxConcurrentLocalAgents.  *)
(***************************************************************************)
ReservationsBalance ==
    (current /\ exec.closing = {}) =>
        exec.reserved = UnitsOf[exec.main] + Cardinality(ReservedAgents)
                                           + Cardinality(ReservedSlots)

\* granted leases whose top-up or release is still under way
InFlight ==
    (UNION {{Persistent(as[o]), Transient(as[o])} :
              o \in {p \in Op : pc[p] \in {"transient", "committing", "abandoning"}}})
    \cup {Transient(o) : o \in ReleasingTransient}

(***************************************************************************)
(* Every lease the broker granted is at all times somebody's: an           *)
(* acquisition or a release that is under way has it, the state has it, or *)
(* its closing has. The exceptions are those that could not be settled and *)
(* the two places where the code drops a state or a user that has leases   *)
(* (forgotten). A lease outside of these would hold global slots until the *)
(* window closes.                                                          *)
(***************************************************************************)
NoLeaseLeftBehind ==
    held \subseteq InFlight \cup stuck \cup forgotten \cup exec.closing
                   \cup (IF current THEN StateLeases(exec) ELSE {})

(***************************************************************************)
(* When every operation has come to its end the conversation holds no      *)
(* lease any more: the last one closed it, whatever failed, was refused or *)
(* interrupted on the way. Runs that took back the share of another        *)
(* operation (continuation after suspending a lease that somebody else     *)
(* held) are excepted: nobody releases that share.                         *)
(***************************************************************************)
NothingIsKept ==
    (\A o \in Op : pc[o] \in {"new", "done"} /\ as[o] = o) =>
        held \subseteq stuck \cup forgotten

(***************************************************************************)
(* What closeExecutionLease settles is fixed when it begins, and awaited.  *)
(* No lease joins the state in the meantime, from a top-up that had waited *)
(* outside of the queue: it would be used while the rest is given up, and  *)
(* be lost with the state.                                                 *)
(***************************************************************************)
NothingJoinsAClosingLease ==
    exec.closing # {} => StateLeases(exec) \subseteq exec.closing

(***************************************************************************)
(* A requested retention is answered: whatever fails in the mutations      *)
(* before it, serialQueue goes on with the next.                           *)
(***************************************************************************)
RetentionsAreAnswered ==
    \A o \in Op : pc[o] = "queued" ~> pc[o] \in {"running", "ending", "done"}
=============================================================================
