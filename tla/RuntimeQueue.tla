---------------------------- MODULE RuntimeQueue ----------------------------
(***************************************************************************)
(* The message queue of one conversation's runtime                         *)
(* (src/src/runtime/createRuntime.ts with queueTransitions.ts and          *)
(* startupPlan.ts). One drain takes the head of the queue, claims it, runs *)
(* it and removes it; meanwhile messages are queued, a message that        *)
(* interrupts supersedes the claimed one, and a person cancels, promotes,  *)
(* resumes the queue or resumes and discards a recoverable workflow.       *)
(*                                                                         *)
(* Queue, claim and recovery are written before they change in memory, in  *)
(* a chain of transitions that run one at a time: each is a single step    *)
(* here, and may fail. What is decided before a transition is reached is a *)
(* step of its own. A crash loses everything else.                         *)
(***************************************************************************)
EXTENDS Naturals, SequencesExt

CONSTANTS
    Message,        \* requests a person may send
    Pipeline,       \* those that run the pipeline; the others are direct
    MaxQueued,      \* bachata.maxQueuedMessages
    MaxInterrupts,  \* bound: messages delivered as an interrupt
    MaxPersonal,    \* bound: cancellations, promotions, resumptions, discards
    MaxFaults,      \* bound: writes and runs that fail, restarts of the host
    None

ASSUME QueueAssumption ==
    /\ None \notin Message
    /\ Pipeline \subseteq Message
    /\ MaxQueued \in Nat \ {0}
    /\ {MaxInterrupts, MaxPersonal, MaxFaults} \subseteq Nat

VARIABLES
    queuedMessages,
    queuePaused,
    queueStartClaim,   \* the claimed message, or None
    resumableWorkflow, \* the message its checkpoint came from, or None
    drain,             \* drainQueue: [at, msg, accepted, pause, retain]
    operation,         \* the run in flight: [msg, by, at, stopped]
    caller,            \* the flows that change the queue beside the drain
    owed,              \* deliveries that have not called drainQueue yet
    fate,              \* message -> what became of it
    starts,            \* message -> how often the drain ran it
    offers,            \* message -> how often a claim of it was dropped in the open
    closed,            \* messages whose checkpoint was completed or discarded
    missed,            \* since the last claim a call for the queue was lost
    spent              \* [interrupts, personal, faults]

queueVars == <<queuedMessages, queuePaused, queueStartClaim>>
ghosts == <<fate, starts, offers, closed>>
vars == <<queueVars, resumableWorkflow, drain, operation, caller, owed, ghosts,
          missed, spent>>

\* "interrupt" is prepareInterruptDelivery, "mutation" the operation the
\* mutation queue runs, "workflow" workflow.resume.
Caller == {"interrupt", "mutation", "workflow"}

NoDrain == [at |-> "idle", msg |-> None, accepted |-> FALSE,
            pause |-> FALSE, retain |-> FALSE]
NoOperation == [msg |-> None, by |-> "none", at |-> "none", stopped |-> FALSE]
NoCall == [at |-> "idle", msg |-> None, waits |-> FALSE, pause |-> FALSE]

Init ==
    /\ queuedMessages = <<>>
    /\ queuePaused = FALSE
    /\ queueStartClaim = None
    /\ resumableWorkflow = None
    /\ drain = NoDrain
    /\ operation = NoOperation
    /\ caller = [c \in Caller |-> NoCall]
    /\ owed = {}
    /\ fate = [m \in Message |-> "unsent"]
    /\ starts = [m \in Message |-> 0]
    /\ offers = [m \in Message |-> 0]
    /\ closed = {}
    /\ missed = FALSE
    /\ spent = [interrupts |-> 0, personal |-> 0, faults |-> 0]

Queued(m) == Contains(queuedMessages, m)
Without(m) == RemoveFirst(queuedMessages, m) \* a message is queued once
mutationActive == caller["mutation"].at # "idle"

Spend(what, bound) ==
    /\ spent[what] < bound
    /\ spent' = [spent EXCEPT ![what] = @ + 1]

-----------------------------------------------------------------------------
(***************************************************************************)
(* The transitions of the queue.                                           *)
(***************************************************************************)

\* commitQueueState
CommitQueue(q, paused, claim) ==
    /\ queuedMessages' = q
    /\ queuePaused' = paused
    /\ queueStartClaim' = claim

\* A person or a restart drops the claim: what it named is offered again.
OfferClaimed ==
    offers' = [m \in Message |->
                 IF m = queueStartClaim THEN offers[m] + 1 ELSE offers[m]]

\* (a plausible bug, for ClaimNamesQueued) a completion keeps the claim
MutantCompletion(m) ==
    /\ CommitQueue(Without(m), queuePaused, queueStartClaim)
    /\ fate' = [fate EXCEPT ![m] = "completed"]

MayComplete(m) == Queued(m) /\ queueStartClaim = m

Completion(m) ==
    /\ CommitQueue(Without(m), queuePaused, None)
    /\ fate' = [fate EXCEPT ![m] = "completed"]

\* (a plausible bug, for CancelledNeverStarts) nothing runs from a paused queue
MutantMayCancel(m) == Queued(m) /\ ~(queueStartClaim = m /\ ~queuePaused)

MayCancel(m) ==
    /\ Queued(m)
    /\ ~(queueStartClaim = m /\ (~queuePaused \/ drain.at # "idle"))

Cancellation(m) ==
    /\ CommitQueue(Without(m), queuePaused,
                   IF queueStartClaim = m THEN None ELSE queueStartClaim)
    /\ fate' = [fate EXCEPT ![m] = "cancelled"]

Supersession(m) ==
    /\ CommitQueue(Without(m), TRUE,
                   IF queueStartClaim = m THEN None ELSE queueStartClaim)
    /\ fate' = IF Queued(m) THEN [fate EXCEPT ![m] = "superseded"] ELSE fate

RecoveryAdoption(m) ==
    /\ CommitQueue(Without(m), Without(m) # <<>>, None)
    /\ fate' = [fate EXCEPT ![m] = "recoverable"]

-----------------------------------------------------------------------------
(***************************************************************************)
(* Calls of drainQueue. The one made when an operation ends runs in a      *)
(* microtask, before anything that waits for a write.                      *)
(***************************************************************************)

\* drainQueue returns at once while a drain is in flight or the queue is paused
DrainCall(paused, at) ==
    IF at = "idle" /\ ~paused
    THEN drain' = [NoDrain EXCEPT !.at = "loop"]
    ELSE drain' = drain

DeliveryCalls(m) ==
    /\ m \in owed
    /\ owed' = owed \ {m}
    /\ DrainCall(queuePaused, drain.at)
    /\ UNCHANGED <<queueVars, resumableWorkflow, operation, caller, ghosts, missed,
                   spent>>

-----------------------------------------------------------------------------
(***************************************************************************)
(* Delivery of a message.                                                  *)
(***************************************************************************)

Admits(m) == fate[m] = "unsent" /\ Len(queuedMessages) < MaxQueued

Enqueue(m) ==
    /\ Admits(m)
    /\ CommitQueue(Append(queuedMessages, m), queuePaused, queueStartClaim)
    /\ fate' = [fate EXCEPT ![m] = "queued"]
    /\ owed' = owed \cup {m}
    /\ UNCHANGED <<resumableWorkflow, drain, operation, caller, starts, offers, closed, missed, spent>>

\* deliverDirectMessage and deliverPipelineRequest with delivery "interrupt"
EnqueueInterrupt(m) ==
    /\ Admits(m)
    /\ caller["interrupt"].at = "idle"
    /\ Spend("interrupts", MaxInterrupts)
    /\ CommitQueue(Append(queuedMessages, m), TRUE, queueStartClaim)
    /\ fate' = [fate EXCEPT ![m] = "queued"]
    /\ caller' = [caller EXCEPT !["interrupt"].at = "prepare"]
    /\ UNCHANGED <<resumableWorkflow, drain, operation, owed, starts, offers, closed, missed>>

Move(c, at) == caller' = [caller EXCEPT ![c].at = at]

\* prepareInterruptDelivery notes the claim; interruptCurrentExecution aborts
\* what runs and waits for it
PrepareInterrupt ==
    LET running == operation # NoOperation
    IN  /\ caller["interrupt"].at = "prepare"
        /\ caller' = [caller EXCEPT !["interrupt"] =
             [at |-> "abort", msg |-> queueStartClaim, waits |-> running,
              pause |-> FALSE]]
        /\ operation' = IF running THEN [operation EXCEPT !.stopped = TRUE]
                                   ELSE operation
        /\ UNCHANGED <<queueVars, resumableWorkflow, drain, owed, ghosts, missed, spent>>

Supersede ==
    LET m == caller["interrupt"].msg
    IN  /\ caller["interrupt"].at = "abort"
        /\ ~caller["interrupt"].waits
        /\ IF m # None /\ (Queued(m) \/ queueStartClaim = m)
           THEN Supersession(m)
           ELSE UNCHANGED <<queueVars, fate>>
        /\ Move("interrupt", "discard")
        /\ UNCHANGED <<resumableWorkflow, drain, operation, owed, starts, offers, closed, missed, spent>>

\* discardResumableWorkflow
DiscardRecovery ==
    /\ resumableWorkflow' = None
    /\ closed' = closed \cup ({resumableWorkflow} \ {None})

InterruptDiscards ==
    /\ caller["interrupt"].at = "discard"
    /\ DiscardRecovery
    /\ Move("interrupt", "reconcile")
    /\ UNCHANGED <<queueVars, drain, operation, owed, fate, starts, offers, missed, spent>>

\* the last commit of prepareInterruptDelivery and of queue.resume, then the
\* drain: the delivery calls it, the end of a mutation schedules it
Unpause(c) ==
    /\ caller[c].at = "unpause"
    /\ CommitQueue(queuedMessages, FALSE, None)
    /\ OfferClaimed
    /\ caller' = [caller EXCEPT ![c] = NoCall]
    /\ DrainCall(FALSE, drain.at)
    /\ UNCHANGED <<resumableWorkflow, operation, owed, fate, starts, closed, missed, spent>>

\* pauseQueueSafely commits what it read of the queue before: a message queued
\* in between waits in a queue that is not paused, and its call came too early.
StalePause(pause) == missed' = (missed \/ (~pause /\ queuedMessages # <<>>))

\* prepareCommittedInterruptDelivery
InterruptPauses ==
    /\ caller["interrupt"].at = "pause"
    /\ CommitQueue(queuedMessages, caller["interrupt"].pause, queueStartClaim)
    /\ StalePause(caller["interrupt"].pause)
    /\ caller' = [caller EXCEPT !["interrupt"] = NoCall]
    /\ UNCHANGED <<resumableWorkflow, drain, operation, owed, fate, starts, offers, closed, spent>>

-----------------------------------------------------------------------------
(***************************************************************************)
(* reconcileQueueStartClaim, for whoever calls it.                         *)
(***************************************************************************)

AfterReconcile(c) == IF c = "workflow" THEN "start" ELSE "unpause"

\* the claim and the checkpoint are read before the transition is reached
Reconcile(c) ==
    /\ caller[c].at = "reconcile"
    /\ caller' = [caller EXCEPT
         ![c].msg = queueStartClaim,
         ![c].at = IF queueStartClaim = None THEN AfterReconcile(c)
                   ELSE IF resumableWorkflow = queueStartClaim THEN "adopt"
                   ELSE "clear"]
    /\ UNCHANGED <<queueVars, resumableWorkflow, drain, operation, owed, ghosts,
                   missed, spent>>

\* adoptQueuedRecovery drops the claim, whoever holds it. workflow.resume calls
\* it once more beforehand.
Adopt(c) ==
    LET m == caller[c].msg
    IN  /\ caller[c].at \in {"adopt", "takeOver"}
        /\ IF Queued(m)
           THEN RecoveryAdoption(m) /\ OfferClaimed
           ELSE UNCHANGED <<queueVars, fate, offers>>
        /\ Move(c, IF caller[c].at = "takeOver" THEN "reconcile"
                   ELSE IF Queued(m) THEN AfterReconcile(c) ELSE "clear")
        /\ UNCHANGED <<resumableWorkflow, drain, operation, owed, starts, closed, missed, spent>>

ClearClaim(c) ==
    /\ caller[c].at = "clear"
    /\ CommitQueue(queuedMessages, queuedMessages # <<>>, None)
    /\ OfferClaimed
    /\ Move(c, AfterReconcile(c))
    /\ UNCHANGED <<resumableWorkflow, drain, operation, owed, fate, starts, closed, missed, spent>>

NoDrainScheduled ==
    missed' = (missed \/ (queuedMessages # <<>> /\ ~queuePaused /\ drain.at = "idle"))

\* A write of one of these flows fails. The interrupt pauses the queue; the
\* others throw, and a mutation that throws schedules no drain.
CallerFails(c) ==
    /\ caller[c].at \in {"abort", "discard", "adopt", "takeOver", "clear",
                         "unpause", "cancel", "promote"}
    /\ ~caller[c].waits
    /\ Spend("faults", MaxFaults)
    /\ caller' = [caller EXCEPT ![c] =
         IF c = "interrupt"
         THEN [NoCall EXCEPT !.at = "pause", !.pause = queuedMessages # <<>>]
         ELSE NoCall]
    /\ IF c = "mutation" THEN NoDrainScheduled ELSE missed' = missed
    /\ UNCHANGED <<queueVars, resumableWorkflow, drain, operation, owed, ghosts>>

-----------------------------------------------------------------------------
(***************************************************************************)
(* The mutations of a person: queue.cancel, queue.promote, queue.resume    *)
(* and workflow.discard, one at a time in the mutation queue.              *)
(***************************************************************************)

pipelineActive == operation.msg \in Pipeline

StartMutation(at, m) ==
    /\ ~mutationActive
    /\ Spend("personal", MaxPersonal)
    /\ caller' = [caller EXCEPT !["mutation"] = [NoCall EXCEPT !.at = at, !.msg = m]]
    /\ UNCHANGED <<queueVars, resumableWorkflow, drain, operation, owed, ghosts, missed>>

AskCancel(m) == Queued(m) /\ StartMutation("cancel", m)

AskPromote(m) ==
    /\ Queued(m)
    /\ m # Head(queuedMessages)
    /\ StartMutation("promote", m)

\* the view offers it for a paused queue only
AskResume ==
    /\ queuePaused
    /\ resumableWorkflow = None \/ pipelineActive
    /\ StartMutation("reconcile", None)

AskDiscard ==
    /\ resumableWorkflow # None
    /\ ~pipelineActive
    /\ StartMutation("discard", None)

\* (a plausible bug, for NoMessageForgotten) a mutation schedules no drain
MutantMutationDone ==
    /\ caller' = [caller EXCEPT !["mutation"] = NoCall]
    /\ UNCHANGED <<drain, missed>>

\* a mutation that succeeds schedules a drain
MutationDone ==
    /\ caller' = [caller EXCEPT !["mutation"] = NoCall]
    /\ DrainCall(queuePaused', drain.at)
    /\ missed' = missed

\* a mutation that throws does not
MutationThrows ==
    /\ caller' = [caller EXCEPT !["mutation"] = NoCall]
    /\ NoDrainScheduled
    /\ UNCHANGED <<queueVars, fate, drain>>

Cancel ==
    LET m == caller["mutation"].msg
    IN  /\ caller["mutation"].at = "cancel"
        /\ \/ MayCancel(m) /\ Cancellation(m) /\ MutationDone
           \/ ~MayCancel(m) /\ MutationThrows
        /\ UNCHANGED <<resumableWorkflow, operation, owed, starts, offers, closed, spent>>

MayPromote(m) ==
    /\ Queued(m)
    /\ queueStartClaim = None
    /\ drain.at = "idle" \/ queuePaused

Promote ==
    LET m == caller["mutation"].msg
    IN  /\ caller["mutation"].at = "promote"
        /\ \/ /\ MayPromote(m)
              /\ CommitQueue(<<m>> \o Without(m), queuePaused, queueStartClaim)
              /\ fate' = fate
              /\ MutationDone
           \/ ~MayPromote(m) /\ MutationThrows
        /\ UNCHANGED <<resumableWorkflow, operation, owed, starts, offers, closed, spent>>

Discard ==
    /\ caller["mutation"].at = "discard"
    /\ DiscardRecovery
    /\ UNCHANGED queueVars
    /\ MutationDone
    /\ UNCHANGED <<operation, owed, fate, starts, offers, spent>>

-----------------------------------------------------------------------------
(***************************************************************************)
(* workflow.resume: the message the checkpoint came from leaves the queue, *)
(* the claim is reconciled and the run goes on.                            *)
(***************************************************************************)

\* conversationExecutionBusy, as far as the queue and its runs go
executionBusy ==
    \/ drain.at # "idle"
    \/ mutationActive
    \/ operation # NoOperation
    \/ caller["workflow"].at # "idle"

\* (a plausible bug, for ResumedIsNotQueued) resumed without taking the
\* message over
MutantAskWorkflow ==
    /\ resumableWorkflow # None
    /\ ~executionBusy
    /\ Spend("personal", MaxPersonal)
    /\ caller' = [caller EXCEPT !["workflow"] =
         [NoCall EXCEPT !.at = "start", !.msg = resumableWorkflow]]
    /\ UNCHANGED <<queueVars, resumableWorkflow, drain, operation, owed, ghosts, missed>>

AskWorkflow ==
    /\ resumableWorkflow # None
    /\ ~executionBusy
    /\ Spend("personal", MaxPersonal)
    /\ caller' = [caller EXCEPT !["workflow"] =
         [NoCall EXCEPT !.at = "takeOver", !.msg = resumableWorkflow]]
    /\ UNCHANGED <<queueVars, resumableWorkflow, drain, operation, owed, ghosts, missed>>

ResumeWorkflow ==
    /\ caller["workflow"].at = "start"
    /\ Move("workflow", "idle")
    /\ operation' = IF resumableWorkflow # None /\ operation = NoOperation
                    THEN [msg |-> resumableWorkflow, by |-> "resume",
                          at |-> "preflight", stopped |-> FALSE]
                    ELSE operation
    /\ UNCHANGED <<queueVars, resumableWorkflow, drain, owed, ghosts, missed, spent>>

-----------------------------------------------------------------------------
(***************************************************************************)
(* The run in flight: of a pipeline (runPipeline) or of a direct message   *)
(* (sendToRecipients), for the drain or for workflow.resume.               *)
(***************************************************************************)

\* The end of a run wakes an interrupt that waits for it.
Awake == [c \in Caller |-> [caller[c] EXCEPT !.waits = FALSE]]

ToPause(retain) ==
    drain' = [drain EXCEPT !.at = "pausing", !.pause = queuedMessages # <<>>,
                           !.retain = retain]

\* queueFailureReconciliation, of a request accepted but not settled
Unsettled == ToPause(TRUE)

\* (a plausible bug, for StartedOncePerOffer) a request that failed after it
\* was accepted is not settled
MutantCaught(accepted) ==
    IF resumableWorkflow = drain.msg
    THEN drain' = [drain EXCEPT !.at = "adopting", !.accepted = accepted]
    ELSE ToPause(FALSE)

\* the catch of the drain's loop, up to its next transition
Caught(accepted) ==
    IF resumableWorkflow = drain.msg
    THEN drain' = [drain EXCEPT !.at = "adopting", !.accepted = accepted]
    ELSE IF accepted
    THEN drain' = [drain EXCEPT !.at = "finalizing", !.accepted = TRUE]
    ELSE ToPause(FALSE)

\* For the drain the run returns, which settles that it was accepted, or throws.
\* Its own call of drainQueue comes to nothing; that of a resumed run does not.
Ends(throws) ==
    /\ operation' = NoOperation
    /\ caller' = Awake
    /\ IF operation.by = "resume" THEN DrainCall(queuePaused, drain.at)
       ELSE IF throws THEN Caught(drain.accepted)
       ELSE drain' = [drain EXCEPT !.at = "returned", !.accepted = TRUE]
    /\ missed' = missed

\* setResumableWorkflow, then onAccepted. Not once the run was aborted.
AcceptRun ==
    /\ operation.at = "preflight"
    /\ ~operation.stopped
    /\ resumableWorkflow' = operation.msg
    /\ closed' = closed \ {operation.msg}
    /\ operation' = [operation EXCEPT !.at = "working"]
    /\ IF operation.by = "drain"
       THEN /\ drain' = [drain EXCEPT !.accepted = TRUE]
            /\ starts' = [starts EXCEPT ![operation.msg] = @ + 1]
       ELSE UNCHANGED <<drain, starts>>
    /\ UNCHANGED <<queueVars, caller, owed, fate, offers, missed, spent>>

\* A completed pipeline drops its checkpoint before anyone dequeues the message.
CompleteRun ==
    LET m == operation.msg
    IN  /\ operation.at = "working"
        /\ ~operation.stopped
        /\ resumableWorkflow' = IF m \in Pipeline THEN None ELSE resumableWorkflow
        /\ closed' = closed \cup ({m} \cap Pipeline)
        /\ Ends(FALSE)
        /\ UNCHANGED <<queueVars, owed, fate, starts, offers, spent>>

\* Stopped: an accepted pipeline returns and stays resumable. One that is not
\* accepted yet ends without a result, which is an error, or what it waits for
\* throws and it returns as interrupted. A direct message may do either.
StopRun ==
    /\ operation.stopped
    /\ \E throws \in BOOLEAN :
         /\ throws => operation.at = "preflight" \/ operation.msg \notin Pipeline
         /\ Ends(throws)
    /\ UNCHANGED <<queueVars, resumableWorkflow, owed, ghosts, spent>>

\* A provider fails, or a write of the run itself. The checkpoint is kept.
FailRun ==
    /\ operation # NoOperation
    /\ ~operation.stopped
    /\ Spend("faults", MaxFaults)
    /\ Ends(TRUE)
    /\ UNCHANGED <<queueVars, resumableWorkflow, owed, ghosts>>

-----------------------------------------------------------------------------
(***************************************************************************)
(* drainQueue.                                                             *)
(***************************************************************************)

\* (a plausible bug, for NothingVanishes) a checkpoint does not hold the queue back
MutantCanStart == ~mutationActive /\ queueStartClaim = None /\ operation = NoOperation

\* canStartQueuedMessage; a run that is paused at a gate is left out
CanStart ==
    /\ ~mutationActive
    /\ queueStartClaim = None
    /\ operation = NoOperation
    /\ resumableWorkflow = None

recoveryIdle == resumableWorkflow # None /\ ~pipelineActive

Loop ==
    LET stops == queuePaused \/ queuedMessages = <<>>
    IN  /\ drain.at = "loop"
        /\ drain' = IF ~stops /\ CanStart
                    THEN [NoDrain EXCEPT !.at = "claiming", !.msg = Head(queuedMessages)]
                    ELSE IF ~stops /\ recoveryIdle
                    THEN [NoDrain EXCEPT !.at = "pausing", !.pause = TRUE, !.retain = TRUE]
                    ELSE NoDrain
        /\ UNCHANGED <<queueVars, resumableWorkflow, operation, caller, owed, ghosts,
                       missed, spent>>

Claim ==
    LET m == drain.msg
    IN  /\ drain.at = "claiming"
        /\ \/ /\ ~Queued(m)
              /\ drain' = [NoDrain EXCEPT !.at = "loop"]
              /\ UNCHANGED <<queueVars, missed>>
           \/ /\ Queued(m) /\ queueStartClaim \in {None, m}
              /\ CommitQueue(queuedMessages, queuePaused, m)
              /\ drain' = [drain EXCEPT !.at = "prepare"]
              /\ missed' = FALSE
           \/ /\ Queued(m) /\ queueStartClaim \notin {None, m}
              /\ Caught(FALSE)
              /\ UNCHANGED <<queueVars, missed>>
        /\ UNCHANGED <<resumableWorkflow, operation, caller, owed, ghosts, spent>>

\* (a plausible bug, for TypeOK) every request goes through the pipeline executor
MutantFirstStage(m) == "preflight"

\* A direct message is accepted before it is sent, and leaves no checkpoint.
FirstStage(m) == IF m \in Pipeline THEN "preflight" ELSE "working"

\* The executor waits for the conversation's run to end and for its lease. An
\* interrupt does not see it before the run itself begins.
Execute ==
    LET m == drain.msg
        direct == m \notin Pipeline
        refused == direct /\ (mutationActive \/ resumableWorkflow # None)
    IN  /\ drain.at = "prepare"
        /\ operation = NoOperation
        /\ caller["workflow"].at = "idle"
        /\ \/ /\ ~refused
              /\ operation' = [msg |-> m, by |-> "drain", at |-> FirstStage(m),
                               stopped |-> FALSE]
              /\ drain' = [drain EXCEPT !.at = "running", !.accepted = direct]
              /\ starts' = IF direct THEN [starts EXCEPT ![m] = @ + 1] ELSE starts
           \/ /\ refused
              /\ Caught(TRUE)
              /\ UNCHANGED <<operation, starts>>
        /\ UNCHANGED <<queueVars, resumableWorkflow, caller, owed, fate, offers,
                       closed, missed, spent>>

\* the lease or the readiness is refused
ExecutionRefused ==
    /\ drain.at = "prepare"
    /\ Spend("faults", MaxFaults)
    /\ Caught(FALSE)
    /\ UNCHANGED <<queueVars, resumableWorkflow, operation, caller, owed, ghosts, missed>>

\* The run returned. A completion refused leaves the request unsettled, and it
\* is tried once more.
Finalize ==
    LET m == drain.msg
    IN  /\ drain.at = "returned"
        /\ IF MayComplete(m)
           THEN Completion(m) /\ drain' = [NoDrain EXCEPT !.at = "loop"]
           ELSE Caught(TRUE) /\ UNCHANGED <<queueVars, fate>>
        /\ UNCHANGED <<resumableWorkflow, operation, caller, owed, starts, offers, closed, missed, spent>>

AdoptFailed ==
    LET m == drain.msg
    IN  /\ drain.at = "adopting"
        /\ IF Queued(m)
           THEN /\ RecoveryAdoption(m)
                /\ drain' = [drain EXCEPT !.at = "pausing", !.retain = FALSE,
                                          !.pause = Without(m) # <<>>]
           ELSE /\ UNCHANGED <<queueVars, fate>>
                /\ IF drain.accepted THEN drain' = [drain EXCEPT !.at = "finalizing"]
                                     ELSE ToPause(FALSE)
        /\ UNCHANGED <<resumableWorkflow, operation, caller, owed, starts, offers, closed, missed, spent>>

FinalizeFailed ==
    LET m == drain.msg
    IN  /\ drain.at = "finalizing"
        /\ IF MayComplete(m)
           THEN /\ Completion(m)
                /\ drain' = [drain EXCEPT !.at = "pausing", !.retain = FALSE,
                                          !.pause = Without(m) # <<>>]
           ELSE Unsettled /\ UNCHANGED <<queueVars, fate>>
        /\ UNCHANGED <<resumableWorkflow, operation, caller, owed, starts, offers, closed, missed, spent>>

\* A transition of the drain fails. A pause is then kept in memory only.
DrainFails ==
    /\ drain.at \in {"claiming", "returned", "adopting", "finalizing", "pausing"}
    /\ Spend("faults", MaxFaults)
    /\ CASE drain.at = "claiming" -> Caught(FALSE)
         [] drain.at = "returned" -> Caught(TRUE)
         [] drain.at = "adopting" ->
              IF drain.accepted THEN drain' = [drain EXCEPT !.at = "finalizing"]
                                ELSE ToPause(FALSE)
         [] drain.at = "finalizing" -> Unsettled
         [] drain.at = "pausing" -> drain' = NoDrain
    /\ queuePaused' = IF drain.at = "pausing" THEN drain.pause ELSE queuePaused
    /\ StalePause(drain.pause \/ drain.at # "pausing")
    /\ UNCHANGED <<queuedMessages, queueStartClaim, resumableWorkflow, operation,
                   caller, owed, ghosts>>

Pause ==
    /\ drain.at = "pausing"
    /\ CommitQueue(queuedMessages, drain.pause,
                   IF drain.retain THEN queueStartClaim ELSE None)
    /\ drain' = NoDrain
    /\ StalePause(drain.pause)
    /\ UNCHANGED <<resumableWorkflow, operation, caller, owed, fate, starts, offers, closed, spent>>

-----------------------------------------------------------------------------
(***************************************************************************)
(* A restart of the extension host, and the specification.                 *)
(***************************************************************************)

\* recoveryStartupPlan and queueClaimStartupPlan: a usable checkpoint takes its
\* message out of the queue, an unusable one is dropped; the claim goes.
Restart ==
    \E usable \in BOOLEAN :
        LET m == resumableWorkflow
            adopts == usable /\ m # None /\ Queued(m)
            left == IF adopts THEN Without(m) ELSE queuedMessages
        IN  /\ Spend("faults", MaxFaults)
            /\ CommitQueue(left, left # <<>>, None)
            /\ OfferClaimed
            /\ resumableWorkflow' = IF usable THEN m ELSE None
            /\ closed' = IF usable THEN closed ELSE closed \cup ({m} \ {None})
            /\ fate' = IF adopts THEN [fate EXCEPT ![m] = "recoverable"] ELSE fate
            /\ drain' = NoDrain
            /\ operation' = NoOperation
            /\ caller' = [c \in Caller |-> NoCall]
            /\ owed' = {}
            /\ missed' = FALSE
            /\ UNCHANGED starts

Deliver == \E m \in Message : Enqueue(m) \/ EnqueueInterrupt(m)
Ask == \/ \E m \in Message : AskCancel(m) \/ AskPromote(m)
       \/ AskResume
       \/ AskDiscard
       \/ AskWorkflow
CallerStep ==
    \/ PrepareInterrupt
    \/ Supersede
    \/ InterruptDiscards
    \/ InterruptPauses
    \/ \E c \in Caller : Reconcile(c) \/ Adopt(c) \/ ClearClaim(c) \/ Unpause(c)
    \/ Cancel
    \/ Promote
    \/ Discard
    \/ ResumeWorkflow
RunStep == AcceptRun \/ CompleteRun \/ StopRun
DrainStep == Loop \/ Claim \/ Execute \/ Finalize \/ AdoptFailed \/ FinalizeFailed \/ Pause
Fault == FailRun \/ ExecutionRefused \/ DrainFails \/ Restart
            \/ \E c \in Caller : CallerFails(c)

Next ==
    \/ Deliver
    \/ \E m \in Message : DeliveryCalls(m)
    \/ Ask
    \/ CallerStep
    \/ RunStep
    \/ DrainStep
    \/ Fault

Spec == Init /\ [][Next]_vars

-----------------------------------------------------------------------------
(***************************************************************************)
(* Properties.                                                             *)
(***************************************************************************)

Fates == {"unsent", "queued", "completed", "cancelled", "superseded",
          "recoverable"}

DrainType ==
    [at : {"idle", "loop", "claiming", "prepare", "running", "returned", "adopting",
           "finalizing", "pausing"},
     msg : Message \cup {None}, accepted : BOOLEAN, pause : BOOLEAN, retain : BOOLEAN]

OperationType ==
    [msg : Message \cup {None}, by : {"none", "drain", "resume"},
     at : {"none", "preflight", "working"}, stopped : BOOLEAN]

CallType ==
    [at : {"idle", "prepare", "abort", "discard", "reconcile", "adopt", "takeOver",
           "clear", "unpause", "pause", "cancel", "promote", "start"},
     msg : Message \cup {None}, waits : BOOLEAN, pause : BOOLEAN]

\* Types of the variables.
TypeOK ==
    /\ queuedMessages \in Seq(Message)
    /\ queuePaused \in BOOLEAN
    /\ queueStartClaim \in Message \cup {None}
    /\ resumableWorkflow \in Pipeline \cup {None}
    /\ drain \in DrainType
    /\ operation \in OperationType
    /\ caller \in [Caller -> CallType]
    /\ owed \subseteq Message
    /\ fate \in [Message -> Fates]
    /\ starts \in [Message -> Nat]
    /\ offers \in [Message -> Nat]
    /\ closed \subseteq Message
    /\ missed \in BOOLEAN

\* The claim names a message that is still queued, and names it once: whatever
\* takes a claimed message out of the queue releases the claim
\* (queueTransitions.ts, queueRemoval).
ClaimNamesQueued ==
    /\ queueStartClaim # None => Queued(queueStartClaim)
    /\ \A m \in Message : fate[m] = "queued" <=> Queued(m)

\* A message announced as preserved recoverable work has a checkpoint to resume
\* it from, until its
\* run completes or is discarded: no other run takes the checkpoint's place
\* (adoptQueuedRecovery, canStartQueuedMessage).
NothingVanishes ==
    \A m \in Message :
        fate[m] = "recoverable" => resumableWorkflow = m \/ m \in closed

\* The drain runs a message again only after its claim was given up in the open:
\* by a restart or by a person. A failure keeps the claim of a request it could
\* not settle (queueTransitions.ts, queueFailureReconciliation).
StartedOncePerOffer == \A m \in Message : starts[m] <= 1 + offers[m]

\* A run that is resumed is not waiting in the queue as well (workflow.resume).
ResumedIsNotQueued == operation.by = "resume" => ~Queued(operation.msg)

\* A message that was cancelled never runs, unless its claim had been dropped
\* while the drain held it (cancelQueuedMessage).
CancelledNeverStarts ==
    [][\A m \in Message :
         fate[m] = "cancelled" /\ offers[m] = 0 => starts'[m] = starts[m]]_vars

\* When nothing is under way any more, an unpaused queue is empty: nobody has
\* to ask for it, except when the call for it was lost (see missed). The loop
\* that goes idle, the end of a run, of a mutation and of a delivery each call
\* the drain (drainQueue, scheduleQueueDrain).
NoMessageForgotten ==
    /\ drain.at = "idle"
    /\ operation = NoOperation
    /\ owed = {}
    /\ \A c \in Caller : caller[c].at = "idle"
    => queuedMessages = <<>> \/ queuePaused \/ missed
=============================================================================
