-------------------------- MODULE TodoOrchestrator --------------------------
(***************************************************************************)
(* The TODO orchestrator (src/src/orchestrator/): one run of a checklist.  *)
(* The run loop and the operations of its tasks are JavaScript coroutines  *)
(* over one mutable ledger: they interleave at every await, and each save  *)
(* persists what all of them have written so far. An action is what runs   *)
(* between two awaits.                                                     *)
(*                                                                         *)
(* A save takes its snapshot when it is asked for and saves are written in *)
(* order, so the disk changes with the request. A window that dies before  *)
(* the write behaves as one that died before the request: whatever else    *)
(* the step did is memory, or is rebuilt by the next resume.               *)
(***************************************************************************)
EXTENDS Integers, Sequences, SequencesExt, FiniteSetsExt

CONSTANTS
    Order,            \* the tasks, in the order the ledger lists and ranks them
    DependsOn,        \* task -> the tasks it depends on
    PathsOf,          \* task -> the areas its path scope names, {} if it has none
    Retries,          \* task -> spec.retries
    MaxConcurrency,
    NoTask,           \* stands in the place of a tree for "no rollback commit"
    MaxFaults, MaxResumes   \* bounds of the model

Task == ToSet(Order)

ASSUME OrchestratorAssumption ==
    /\ Order \in Seq(Task) /\ IsInjective(Order)
    /\ \A t \in Task : DependsOn[t] \subseteq Task /\ Retries[t] \in Nat
    /\ MaxConcurrency \in Nat \ {0}
    /\ NoTask \notin Task

NoTree == {NoTask}

VARIABLES
    \* the ledger in memory
    task,      \* task -> its status, attempts, implementationComplete, worktree,
               \*         rollback marker and result
    run,       \* status, integrationTree (the tasks whose work it contains) and
               \*         acceptedIntegrations
    \* the coroutines
    pc,        \* task -> where its executeTask stands, "idle" if not active
    verdict,   \* task -> the result its failing attempt is about to report
    section,   \* before and acceptedBefore of the integration in progress
    loop,      \* where the run loop stands, or what abandons or cleans up the
               \*         run; "off" without an operation
    rejected,  \* a task operation was rejected and the loop has not seen it
    aborted,   \* the run's AbortController
    \* what survives the window
    disk,      \* the persisted ledger
    retained,  \* retainedLedgers has the run's ledger; it dies with the window
    pointer,   \* active-run.json names the run
    integration, \* contents of the integration branch, NoTree when it is gone
    \* history
    confirmed, \* tasks whose acceptance was persisted
    spent      \* failed saves, faults (they, crashes and stops) and resumes so far

ledgerVars == <<task, run>>
taskVars == <<pc, verdict, section>>
flags == <<rejected, aborted>>
outside == <<disk, retained, pointer, integration, confirmed, spent>>
vars == <<ledgerVars, taskVars, loop, flags, outside>>

ActiveStatus == {"running", "waitingForResources", "integrating"}

Conflict(t, u) ==
    PathsOf[t] = {} \/ PathsOf[u] = {} \/ PathsOf[t] \cap PathsOf[u] # {}

NewTask == [status |-> "pending", attempts |-> 0, impl |-> FALSE, worktree |-> FALSE,
            marker |-> NoTree, sequence |-> 0, result |-> "none"]

NoSection == [tree |-> NoTree, sequence |-> 0]

\* a started run: its first ledger and the active pointer are persisted
Init ==
    /\ task = [t \in Task |-> NewTask]
    /\ run = [status |-> "running", tree |-> {}, accepted |-> 0]
    /\ pc = [t \in Task |-> "idle"]
    /\ verdict = [t \in Task |-> "none"]
    /\ section = NoSection
    /\ loop = "scheduling"
    /\ rejected = FALSE
    /\ aborted = FALSE
    /\ disk = [task |-> task, run |-> run]
    /\ retained = FALSE
    /\ pointer = TRUE
    /\ integration = {}
    /\ confirmed = {}
    /\ spent = [saves |-> 0, faults |-> 0, resumes |-> 0]

\* store.save: the snapshot is written, or the write fails and the disk stays
Stored == disk' = [task |-> task', run |-> run'] /\ UNCHANGED spent

SaveFailed ==
    /\ spent.faults < MaxFaults
    /\ spent' = [spent EXCEPT !.saves = @ + 1, !.faults = @ + 1]
    /\ UNCHANGED <<disk, retained>>

(***************************************************************************)
(* save: once it is written, the ledger of a completed run is kept in      *)
(* retainedLedgers, and any other is dropped from there. A copy that is    *)
(* kept differs from the ledger on disk in nothing but the run's status:   *)
(* all its tasks are done, and an abandonment leaves done tasks alone.     *)
(***************************************************************************)
Retainable == {"completed", "cleanupPending"}

Saved == Stored /\ retained' = (run'.status \in Retainable)

Save(ok) == IF ok THEN Saved ELSE SaveFailed

-----------------------------------------------------------------------------
(***************************************************************************)
(* The scheduler.                                                          *)
(***************************************************************************)
Refreshed(T, t) ==
    LET depends == {T[d].status : d \in DependsOn[t]}
    IN IF T[t].status \notin {"pending", "ready"} THEN T
       ELSE [T EXCEPT ![t].status =
               IF depends \cap {"blocked", "failed", "cancelled"} # {} THEN "blocked"
               ELSE IF depends \subseteq {"done"} THEN "ready" ELSE "pending"]

\* refreshTaskReadiness visits the tasks in order and sees its own changes
RefreshReadiness(T) ==
    LET visited[n \in 0 .. Len(Order)] ==
            IF n = 0 THEN T ELSE Refreshed(visited[n - 1], Order[n])
    IN visited[Len(Order)]

Running(T) == {t \in Task : T[t].status \in ActiveStatus}

MayJoin(T, S, t) ==
    /\ T[t].status = "ready"
    /\ Cardinality(Running(T)) + Cardinality(S) < MaxConcurrency
    /\ \A u \in Running(T) \cup S : ~Conflict(t, u)

SelectRunnable(T) ==
    LET selected[n \in 0 .. Len(Order)] ==
            IF n = 0 THEN {}
            ELSE selected[n - 1]
                   \cup {t \in {Order[n]} : MayJoin(T, selected[n - 1], t)}
    IN selected[Len(Order)]

TerminalStatus(T) ==
    LET all == {T[t].status : t \in Task}
    IN IF all \cap (ActiveStatus \cup {"pending", "ready"}) # {} THEN "none"
       ELSE IF "failed" \in all THEN "failed"
       ELSE IF all \cap {"blocked", "cancelled"} # {} THEN "blocked"
       ELSE "completed"

(***************************************************************************)
(* The top of executeTask's loop runs into the first await of the attempt: *)
(* an implementation that is complete goes back to its validation, any     *)
(* other attempt starts afresh, once an old worktree is removed.           *)
(***************************************************************************)
AtTop(r) ==
    IF r.worktree THEN r ELSE [r EXCEPT !.status = "running", !.attempts = @ + 1]

PcAtTop(r) ==
    CASE r.worktree /\ r.impl -> "validating"
      [] r.worktree /\ ~r.impl -> "removing"
      [] ~r.worktree -> "preparing"

Active == {t \in Task : pc[t] # "idle"}

\* the loop is left with this status
LeaveLoop(status) ==
    IF aborted THEN run' = [run EXCEPT !.status = "stopped"] /\ loop' = "draining"
    ELSE /\ run' = [run EXCEPT !.status = status]
         /\ loop' = IF status = "completed" THEN "finalChecks" ELSE "cleanup"

(***************************************************************************)
(* The Master check, made when no task is active. A stop that arrives      *)
(* while its outcome is being saved is not looked at before the next       *)
(* selection.                                                              *)
(***************************************************************************)
MasterChecks(deviation) ==
    /\ loop = "scheduling"
    /\ ~aborted /\ ~rejected
    /\ Active = {}
    /\ TerminalStatus(task) \in {"none", "completed"}
    /\ IF deviation THEN LeaveLoop("blocked")
       ELSE loop' = "selecting" /\ UNCHANGED run
    /\ UNCHANGED <<task, taskVars, flags, outside>>

Schedule ==
    /\ loop = "selecting" \/ (loop = "scheduling" /\ ~aborted /\ ~rejected)
    /\ LET T == RefreshReadiness(task)
           started == SelectRunnable(T) \ Active
       IN /\ task' = [t \in Task |-> IF t \in started /\ ~aborted
                                     THEN AtTop(T[t]) ELSE T[t]]
          /\ pc' = [t \in Task |-> IF t \notin started THEN pc[t]
                                   ELSE IF aborted THEN "top" ELSE PcAtTop(T[t])]
          /\ IF Active \cup started # {} THEN loop' = "waiting" /\ UNCHANGED run
             ELSE LeaveLoop(IF TerminalStatus(T) = "none" THEN "blocked"
                            ELSE TerminalStatus(T))
    /\ UNCHANGED <<verdict, section, flags, outside>>

\* the loop finds the abort or a rejection, or the Master check throws
LoopFails ==
    /\ loop = "scheduling"
    /\ \/ aborted \/ rejected
       \/ Active = {} /\ TerminalStatus(task) \in {"none", "completed"}
    /\ run' = [run EXCEPT !.status = IF aborted THEN "stopped" ELSE "failed"]
    /\ aborted' = TRUE
    /\ rejected' = FALSE
    /\ loop' = "draining"
    /\ UNCHANGED <<task, taskVars, outside>>

Drained ==
    /\ loop = "draining"
    /\ Active = {}
    /\ loop' = "cleanup"
    /\ UNCHANGED <<ledgerVars, taskVars, flags, outside>>

\* the final checks pass, fail, cannot get their resources, or throw
FinalChecks(outcome) ==
    /\ loop = "finalChecks"
    /\ run' = [run EXCEPT !.status = CASE outcome = "passed" -> @
                                       [] outcome = "blocked" -> "blocked"
                                       [] OTHER -> IF aborted THEN "stopped" ELSE "failed"]
    /\ aborted' = (aborted \/ outcome = "thrown")
    /\ loop' = "cleanup"
    /\ UNCHANGED <<task, taskVars, rejected, outside>>

\* the last save of the loop; when it fails the operation is rejected
CleanUp(cleaned, ok) ==
    /\ loop = "cleanup"
    /\ run' = IF cleaned THEN run ELSE [run EXCEPT !.status = "failed"]
    /\ UNCHANGED task
    /\ Save(ok)
    /\ loop' = IF ok THEN "saved" ELSE "off"
    /\ UNCHANGED <<taskVars, flags, pointer, integration, confirmed>>

SetPointer ==
    /\ loop = "saved"
    /\ pointer' = (run.status # "completed")
    /\ loop' = "ending"
    /\ UNCHANGED <<ledgerVars, taskVars, flags, disk, retained, integration, confirmed, spent>>

OperationEnds ==
    /\ loop = "ending"
    /\ loop' = "off"
    /\ UNCHANGED <<ledgerVars, taskVars, flags, outside>>

-----------------------------------------------------------------------------
(***************************************************************************)
(* executeTask and runTaskAttempt.                                         *)
(***************************************************************************)

\* (a plausible bug, for RunEnds) a task that ends on a stop wakes nobody
MutantSettle(t) ==
    /\ pc' = [pc EXCEPT ![t] = "idle"]
    /\ verdict' = [verdict EXCEPT ![t] = "none"]
    /\ loop' = IF loop = "waiting" /\ ~aborted THEN "scheduling" ELSE loop

\* the operation of t settles, which wakes a waiting loop
Settle(t) ==
    /\ pc' = [pc EXCEPT ![t] = "idle"]
    /\ verdict' = [verdict EXCEPT ![t] = "none"]
    /\ loop' = IF loop = "waiting" THEN "scheduling" ELSE loop

Goto(t, at) ==
    /\ pc' = [pc EXCEPT ![t] = at]
    /\ UNCHANGED <<verdict, loop>>

\* the attempt is over and reports a verdict; executeTask reads the changed
\* files before it acts on it
Report(t, result) ==
    /\ pc' = [pc EXCEPT ![t] = "concluding"]
    /\ verdict' = [verdict EXCEPT ![t] = result]
    /\ UNCHANGED loop

\* an error thrown out of the attempt
Thrown(t) == Report(t, IF aborted THEN "blocked" ELSE "failed")

AbandonLoop(t) ==
    /\ task' = [task EXCEPT ![t].status = "cancelled"]
    /\ Settle(t)

(***************************************************************************)
(* The top of the loop again: before a retry, or for a task selected after *)
(* the abort. Removing an old worktree is an await of its own, at which    *)
(* the task is still pending or ready.                                     *)
(***************************************************************************)
LoopTop(t, ok) ==
    /\ pc[t] = "top"
    /\ IF aborted THEN AbandonLoop(t) /\ UNCHANGED run /\ Save(ok)
       ELSE /\ task' = [task EXCEPT ![t] = AtTop(@)]
            /\ Goto(t, PcAtTop(task[t]))
            /\ ok
            /\ UNCHANGED <<run, disk, retained, spent>>
    /\ rejected' = (rejected \/ ~ok)
    /\ UNCHANGED <<section, aborted, pointer, integration, confirmed>>

WorktreeRemoved(t) ==
    /\ pc[t] = "removing"
    /\ LET r == [task[t] EXCEPT !.worktree = FALSE]
       IN IF aborted THEN task' = [task EXCEPT ![t] = r] /\ Thrown(t)
          ELSE task' = [task EXCEPT ![t] = AtTop(r)] /\ Goto(t, "preparing")
    /\ UNCHANGED <<run, section, flags, outside>>

\* git refuses to remove the worktree: the task operation is rejected
RemovalFails(t) ==
    /\ pc[t] \in {"removing", "accepted"}
    /\ Settle(t)
    /\ rejected' = TRUE
    /\ UNCHANGED <<ledgerVars, section, aborted, outside>>

\* the worktree is there and recorded; then the pair works on the task
Prepared(t) ==
    /\ pc[t] = "preparing"
    /\ task' = [task EXCEPT ![t].worktree = TRUE]
    /\ UNCHANGED run
    /\ Save(TRUE)
    /\ IF aborted THEN Thrown(t) ELSE Goto(t, "implementing")
    /\ UNCHANGED <<section, flags, pointer, integration, confirmed>>

Implemented(t) ==
    /\ pc[t] = "implementing"
    /\ ~aborted
    /\ Goto(t, "validating")
    /\ UNCHANGED <<ledgerVars, section, flags, outside>>

Validated(t) ==
    /\ pc[t] = "validating"
    /\ task' = [task EXCEPT ![t].impl = TRUE, ![t].status = "waitingForResources"]
    /\ UNCHANGED run
    /\ Save(TRUE)
    /\ IF aborted THEN Thrown(t) ELSE Goto(t, "checking")
    /\ UNCHANGED <<section, flags, pointer, integration, confirmed>>

\* the checks and the second validation pass
ChecksPassed(t) ==
    /\ pc[t] = "checking"
    /\ ~aborted
    /\ task' = [task EXCEPT ![t].status = "integrating"]
    /\ UNCHANGED run
    /\ Save(TRUE)
    /\ Goto(t, "queued")
    /\ UNCHANGED <<section, flags, pointer, integration, confirmed>>

\* the pair was interrupted, the change left its scope, or the checks failed
AttemptFails(t) ==
    /\ \/ pc[t] \in {"implementing", "checking"} /\ ~aborted
       \/ pc[t] = "validating" /\ ~task[t].impl
    /\ task' = [task EXCEPT ![t].impl = FALSE]
    /\ Report(t, "failed")
    /\ UNCHANGED <<run, section, flags, outside>>

\* the checks could not get their resources
ChecksBlocked(t) ==
    /\ pc[t] = "checking"
    /\ Report(t, "blocked")
    /\ UNCHANGED <<ledgerVars, section, flags, outside>>

\* any await of the attempt before its integration may throw, the saves too,
\* and a stop is thrown at the next test of it
AttemptThrows(t) ==
    /\ pc[t] \in {"preparing", "implementing", "validating", "checking", "queued"}
    /\ Thrown(t)
    /\ UNCHANGED <<ledgerVars, section, flags, outside>>

-----------------------------------------------------------------------------
(***************************************************************************)
(* The integration, one task at a time.                                    *)
(***************************************************************************)
IntegrationIsFree == section = NoSection

\* what is in the integration worktree now becomes the rollback commit
Mark(t, ok) ==
    /\ pc[t] = "queued"
    /\ ~aborted
    /\ IntegrationIsFree
    /\ IF ok THEN /\ task' = [task EXCEPT ![t].marker = integration,
                                          ![t].sequence = run.accepted]
                  /\ section' = [tree |-> integration, sequence |-> run.accepted]
                  /\ Goto(t, "marked")
       ELSE Thrown(t) /\ UNCHANGED <<task, section>>
    /\ UNCHANGED run
    /\ Save(ok)
    /\ UNCHANGED <<flags, pointer, integration, confirmed>>

StartRollback(t) ==
    /\ run' = [run EXCEPT !.accepted = section.sequence]
    /\ Goto(t, "rollback")

\* the task's delta is applied to the integration worktree
Integrated(t) ==
    /\ pc[t] = "marked"
    /\ integration' = integration \cup {t}
    /\ run' = [run EXCEPT !.tree = integration \cup {t}]
    /\ Goto(t, IF aborted THEN "rollback" ELSE "integrated")
    /\ UNCHANGED <<task, section, flags, disk, retained, pointer, confirmed, spent>>

\* applying the delta or checking off the TODO fails, maybe half done
IntegrationFails(t) ==
    /\ pc[t] \in {"marked", "integrated"}
    /\ integration' \in {integration, integration \cup {t}}
    /\ StartRollback(t)
    /\ UNCHANGED <<task, section, flags, disk, retained, pointer, confirmed, spent>>

\* (a plausible bug, for StopIsFinal) no test of the stop before the acceptance
MutantAccept(t, ok) ==
    /\ pc[t] = "integrated"
    /\ task' = [task EXCEPT ![t].status = "done", ![t].result = "done",
                            ![t].marker = NoTree, ![t].sequence = 0]
    /\ run' = [run EXCEPT !.tree = integration, !.accepted = section.sequence + 1]
    /\ Save(ok)
    /\ confirmed' = IF ok THEN confirmed \cup {t} ELSE confirmed
    /\ section' = IF ok THEN NoSection ELSE section
    /\ Goto(t, IF ok THEN "accepted" ELSE "notSaved")
    /\ UNCHANGED <<flags, pointer, integration>>

Accept(t, ok) ==
    /\ pc[t] = "integrated"
    /\ ~aborted
    /\ task' = [task EXCEPT ![t].status = "done", ![t].result = "done",
                            ![t].marker = NoTree, ![t].sequence = 0]
    /\ run' = [run EXCEPT !.tree = integration, !.accepted = section.sequence + 1]
    /\ Save(ok)
    /\ confirmed' = IF ok THEN confirmed \cup {t} ELSE confirmed
    /\ section' = IF ok THEN NoSection ELSE section
    /\ Goto(t, IF ok THEN "accepted" ELSE "notSaved")
    /\ UNCHANGED <<flags, pointer, integration>>

\* a stop before the acceptance, or a save of it that failed
TakeBack(t) ==
    /\ \/ pc[t] = "integrated" /\ aborted
       \/ pc[t] = "notSaved"
    /\ StartRollback(t)
    /\ UNCHANGED <<task, section, flags, outside>>

\* (a plausible bug, for LedgerTellsTheTruth) the ledger keeps the tree
MutantRolledBack(t) ==
    /\ pc[t] = "rollback"
    /\ integration' = section.tree
    /\ task' = [task EXCEPT ![t].marker = NoTree, ![t].sequence = 0,
                            ![t].status = IF aborted THEN "cancelled" ELSE "failed"]
    /\ section' = NoSection
    /\ Thrown(t)
    /\ UNCHANGED <<run, flags, disk, retained, pointer, confirmed, spent>>

RolledBack(t) ==
    /\ pc[t] = "rollback"
    /\ integration' = section.tree
    /\ run' = [run EXCEPT !.tree = section.tree]
    /\ task' = [task EXCEPT ![t].marker = NoTree, ![t].sequence = 0,
                            ![t].status = IF aborted THEN "cancelled" ELSE "failed"]
    /\ section' = NoSection
    /\ Thrown(t)
    /\ UNCHANGED <<flags, disk, retained, pointer, confirmed, spent>>

\* the worktree is left as it was or reset; the marker stays for the resume
RollbackFails(t, ok) ==
    /\ pc[t] = "rollback"
    /\ integration' \in {integration, section.tree}
    /\ task' = [task EXCEPT ![t].marker = section.tree, ![t].sequence = section.sequence,
                            ![t].status = "blocked"]
    /\ UNCHANGED run
    /\ Save(ok)
    /\ section' = NoSection
    /\ Report(t, "blocked")
    /\ UNCHANGED <<flags, pointer, confirmed>>

\* the worktree of an accepted task is removed
Tidied(t, ok) ==
    /\ pc[t] = "accepted"
    /\ task' = [task EXCEPT ![t].worktree = FALSE, ![t].impl = FALSE]
    /\ UNCHANGED run
    /\ Save(ok)
    /\ Settle(t)
    /\ rejected' = (rejected \/ ~ok)
    /\ UNCHANGED <<section, aborted, pointer, integration, confirmed>>

\* what becomes of a task after a failing verdict
Concluded(t) ==
    LET r == [task[t] EXCEPT !.result = verdict[t]]
    IN CASE aborted -> [r EXCEPT !.status = "cancelled"]
         [] ~aborted /\ verdict[t] = "blocked" -> [r EXCEPT !.status = "blocked"]
         [] OTHER -> [r EXCEPT !.impl = FALSE,
                               !.status = IF r.attempts > Retries[t] THEN "failed"
                                          ELSE "pending"]

Conclude(t, ok) ==
    /\ pc[t] = "concluding"
    /\ task' = [task EXCEPT ![t] = Concluded(t)]
    /\ UNCHANGED run
    /\ Save(ok)
    /\ rejected' = (rejected \/ ~ok)
    /\ IF ok /\ Concluded(t).status = "pending"
       THEN /\ pc' = [pc EXCEPT ![t] = "top"]
            /\ verdict' = [verdict EXCEPT ![t] = "none"]
            /\ UNCHANGED loop
       ELSE Settle(t)
    /\ UNCHANGED <<section, aborted, pointer, integration, confirmed>>

-----------------------------------------------------------------------------
(***************************************************************************)
(* Stop, crash and resume.                                                 *)
(***************************************************************************)
PendingCleanup == {"abandoning", "cleanupPending"}
Maintenance == {"removingRun", "finalizing", "clearing", "erasing"}
Operating == loop \notin Maintenance \cup {"off"}

Stop(ok) ==
    /\ Operating
    /\ spent.faults < MaxFaults
    /\ run' = [run EXCEPT !.status = "stopping"]
    /\ aborted' = TRUE
    /\ spent' = [spent EXCEPT !.faults = @ + 1, !.saves = @ + (IF ok THEN 0 ELSE 1)]
    /\ disk' = IF ok THEN [task |-> task, run |-> run'] ELSE disk
    /\ retained' = (retained /\ ~ok)
    /\ UNCHANGED <<task, taskVars, loop, rejected, pointer, integration, confirmed>>

\* the operation did not end within todoStopTimeoutMs
StopTimesOut ==
    /\ Operating
    /\ run.status = "stopping"
    /\ run' = [run EXCEPT !.status = "stopped"]
    /\ UNCHANGED task
    /\ Saved
    /\ UNCHANGED <<taskVars, loop, flags, pointer, integration, confirmed>>

\* the controller has no ledger in memory
NoLedger(r) == [r EXCEPT !.status = "none"]

\* the window dies: its memory is forgotten, the worktrees stay as they are. The
\* next one goes on with an abandonment or a clean-up that was begun, and then
\* fills retainedLedgers from the disk.
Crash ==
    /\ loop # "off" \/ disk.run.status \in PendingCleanup
    /\ spent.faults < MaxFaults
    /\ spent' = [spent EXCEPT !.faults = @ + 1]
    /\ task' = disk.task
    /\ run' = NoLedger(disk.run)
    /\ pc' = [t \in Task |-> "idle"]
    /\ verdict' = [t \in Task |-> "none"]
    /\ section' = NoSection
    /\ loop' = IF disk.run.status \in PendingCleanup THEN "removingRun" ELSE "off"
    /\ rejected' = FALSE
    /\ aborted' = FALSE
    /\ retained' = (disk.run.status \in Retainable)
    /\ UNCHANGED <<disk, pointer, integration, confirmed>>

DoneIn(T) == {t \in Task : T[t].status = "done"}

MarkedIn(T) == {t \in Task : T[t].marker # NoTree}

\* (a plausible bug, for AcceptedIsKept) the count of acceptances is ignored
MutantResumable(d) ==
    LET marked == MarkedIn(d.task)
    IN /\ d.run.status \notin {"completed", "abandoned", "abandoning", "none"}
       /\ marked \cap DoneIn(d.task) = {}
       /\ Cardinality(marked) <= 1

\* a marker that names one point which still contains all accepted work
Resumable(d) ==
    LET marked == MarkedIn(d.task)
    IN /\ d.run.status \notin {"completed", "abandoned", "abandoning", "none"}
       /\ marked \cap DoneIn(d.task) = {}
       /\ Cardinality(marked) <= 1
       /\ DoneIn(d.task) # {} =>
            \A t \in marked : d.run.accepted <= d.task[t].sequence

\* restoreRun, and then the reset to the marker
Restored(d) ==
    LET marked == MarkedIn(d.task)
    IN IF marked = {} THEN d.run.tree ELSE d.task[CHOOSE t \in marked : TRUE].marker

WasInterrupted(r) ==
    r.status \in ActiveStatus \/ (r.status = "cancelled" /\ r.result # "failed")

\* (a plausible bug, for TypeOK) an attempt that never began is given back
MutantRefund(t, r) ==
    LET attempts == IF WasInterrupted(r) /\ ~r.impl THEN r.attempts - 1 ELSE r.attempts
    IN IF "failed" \in {r.status, r.result} /\ attempts > Retries[t]
       THEN [r EXCEPT !.status = "failed", !.attempts = attempts]
       ELSE [r EXCEPT !.status = "pending", !.attempts = attempts, !.result = "none"]

\* (a plausible bug, for ExhaustedStaysFailed) a failure concluded
\* after a stop is taken for an interruption
MutantReset(t, r) ==
    LET attempts == IF WasInterrupted(r) /\ ~r.impl /\ r.attempts > 0
                    THEN r.attempts - 1 ELSE r.attempts
    IN IF r.status = "failed" /\ attempts > Retries[t]
       THEN [r EXCEPT !.status = "failed", !.attempts = attempts]
       ELSE [r EXCEPT !.status = "pending", !.attempts = attempts, !.result = "none"]

\* resetIncompleteTask, for a task that is not done
ResetIncomplete(t, r) ==
    LET attempts == IF WasInterrupted(r) /\ ~r.impl /\ r.attempts > 0
                    THEN r.attempts - 1 ELSE r.attempts
    IN IF "failed" \in {r.status, r.result} /\ attempts > Retries[t]
       THEN [r EXCEPT !.status = "failed", !.attempts = attempts]
       ELSE [r EXCEPT !.status = "pending", !.attempts = attempts, !.result = "none"]

ResumedTask(t, kept) ==
    LET r == [kept EXCEPT !.marker = NoTree, !.sequence = 0]
        fresh == [r EXCEPT !.worktree = FALSE, !.impl = FALSE]
    IN CASE r.status = "done" \/ t \in Restored(disk) ->
                [fresh EXCEPT !.status = "done", !.result = "done"]
         [] r.worktree /\ r.impl /\ r.status # "done" /\ t \notin Restored(disk) ->
                [r EXCEPT !.status = "pending", !.result = "none"]
         [] OTHER -> ResetIncomplete(t, fresh)

Resume ==
    /\ loop = "off"
    /\ pointer
    /\ Resumable(disk)
    /\ integration # NoTree
    /\ spent.resumes < MaxResumes
    /\ spent' = [spent EXCEPT !.resumes = @ + 1]
    /\ task' = [t \in Task |-> ResumedTask(t, disk.task[t])]
    /\ run' = [disk.run EXCEPT !.status = "running", !.tree = Restored(disk)]
    /\ integration' = Restored(disk)
    /\ disk' = [task |-> task', run |-> run']
    /\ retained' = FALSE
    /\ loop' = "scheduling"
    /\ aborted' = FALSE
    /\ rejected' = FALSE
    /\ UNCHANGED <<taskVars, pointer, confirmed>>

\* a completed or abandoned run is no longer active
ForgetCompleted ==
    /\ loop = "off"
    /\ pointer
    /\ disk.run.status \in {"completed", "abandoned"}
    /\ pointer' = FALSE
    /\ UNCHANGED <<ledgerVars, taskVars, loop, flags, disk, retained, integration, confirmed, spent>>

-----------------------------------------------------------------------------
(***************************************************************************)
(* Abandoning a run, and cleaning up one that is completed. The intent is  *)
(* persisted before anything is removed.                                   *)
(***************************************************************************)

\* of the ledger in memory, or of the one the pointer names; a copy of it that
\* says completed stays in retainedLedgers
Abandon(ok) ==
    /\ loop = "off"
    /\ run.status # "none" \/ pointer
    /\ LET current == IF run.status # "none" THEN [task |-> task, run |-> run] ELSE disk
           pending == [current EXCEPT !.run.status = "abandoning"]
       IN IF ok THEN /\ task' = pending.task /\ run' = pending.run
                     /\ Stored /\ UNCHANGED retained
                ELSE SaveFailed /\ UNCHANGED ledgerVars
    /\ loop' = IF ok THEN "removingRun" ELSE "off"
    /\ UNCHANGED <<taskVars, flags, pointer, integration, confirmed>>

\* cleanupRetained: retainedRun asks retainedLedgers first and then the disk, so
\* the ledger on disk may say meanwhile that the run is being abandoned
CleanUpRetained(ok) ==
    /\ loop = "off"
    /\ retained \/ disk.run.status \in Retainable
    /\ IF ok THEN /\ disk' = [disk EXCEPT !.run.status = "cleanupPending"]
                  /\ retained' = TRUE
                  /\ UNCHANGED spent
             ELSE SaveFailed
    /\ loop' = IF ok THEN "removingRun" ELSE "off"
    /\ UNCHANGED <<ledgerVars, taskVars, flags, pointer, integration, confirmed>>

\* the worktrees and branches of the run are removed, or some of them
RunRemoved(whole) ==
    /\ loop = "removingRun"
    /\ integration' \in IF whole THEN {NoTree} ELSE {integration, NoTree}
    /\ loop' = CASE ~whole -> "off"
                 [] whole /\ disk.run.status = "abandoning" -> "finalizing"
                 [] OTHER -> IF pointer THEN "clearing" ELSE "erasing"
    /\ UNCHANGED <<ledgerVars, taskVars, flags, disk, retained, pointer, confirmed, spent>>

AbandonedTask(r) ==
    [r EXCEPT !.worktree = FALSE, !.marker = NoTree, !.sequence = 0,
              !.status = IF @ = "done" THEN @ ELSE "cancelled"]

Finalize(ok) ==
    /\ loop = "finalizing"
    /\ IF ok THEN /\ disk' = [task |-> [t \in Task |-> AbandonedTask(disk.task[t])],
                              run |-> [disk.run EXCEPT !.status = "abandoned"]]
                  /\ UNCHANGED <<retained, spent>>
             ELSE SaveFailed
    /\ loop' = IF ok THEN "clearing" ELSE "off"
    /\ UNCHANGED <<ledgerVars, taskVars, flags, pointer, integration, confirmed>>

ClearPointer(ok) ==
    /\ loop = "clearing"
    /\ LET cleaning == disk.run.status = "cleanupPending"
       IN /\ IF ok THEN /\ pointer' = FALSE
                        /\ retained' = (retained /\ cleaning)
                        /\ UNCHANGED <<disk, spent>>
                   ELSE SaveFailed /\ UNCHANGED pointer
          /\ loop' = IF ok /\ cleaning THEN "erasing" ELSE "off"
          /\ run' = IF ok /\ ~cleaning THEN NoLedger(run) ELSE run
    /\ UNCHANGED <<task, taskVars, flags, integration, confirmed>>

\* the ledger of a run that is cleaned up is deleted
Erase(ok) ==
    /\ loop = "erasing"
    /\ IF ok THEN /\ disk' = [disk EXCEPT !.run = NoLedger(@)]
                  /\ run' = NoLedger(run)
                  /\ retained' = FALSE
                  /\ UNCHANGED spent
             ELSE SaveFailed /\ UNCHANGED run
    /\ loop' = "off"
    /\ UNCHANGED <<task, taskVars, flags, pointer, integration, confirmed>>

-----------------------------------------------------------------------------
TaskStep(t) ==
    \/ WorktreeRemoved(t) \/ RemovalFails(t)
    \/ Prepared(t) \/ Implemented(t) \/ Validated(t) \/ ChecksPassed(t)
    \/ AttemptFails(t) \/ ChecksBlocked(t) \/ AttemptThrows(t)
    \/ Integrated(t) \/ IntegrationFails(t) \/ TakeBack(t) \/ RolledBack(t)
    \/ \E ok \in BOOLEAN :
         \/ LoopTop(t, ok) \/ Mark(t, ok) \/ Accept(t, ok) \/ RollbackFails(t, ok)
         \/ Tidied(t, ok) \/ Conclude(t, ok)

LoopStep ==
    \/ \E deviation \in BOOLEAN : MasterChecks(deviation)
    \/ Schedule \/ LoopFails \/ Drained
    \/ \E outcome \in {"passed", "failed", "blocked", "thrown"} : FinalChecks(outcome)
    \/ \E cleaned, ok \in BOOLEAN : CleanUp(cleaned, ok)
    \/ SetPointer \/ OperationEnds

MaintenanceStep ==
    \/ \E whole \in BOOLEAN : RunRemoved(whole)
    \/ \E ok \in BOOLEAN : Finalize(ok) \/ ClearPointer(ok) \/ Erase(ok)

Next ==
    \/ \E t \in Task : TaskStep(t)
    \/ LoopStep
    \/ MaintenanceStep
    \/ \E ok \in BOOLEAN : Stop(ok) \/ Abandon(ok) \/ CleanUpRetained(ok)
    \/ StopTimesOut \/ Crash \/ Resume \/ ForgetCompleted

Spec == Init /\ [][Next]_vars

-----------------------------------------------------------------------------
(***************************************************************************)
(* Properties.                                                             *)
(***************************************************************************)
TaskRecord ==
    [status : {"pending", "ready", "done", "blocked", "failed", "cancelled"} \cup ActiveStatus,
     attempts : Nat, impl : BOOLEAN, worktree : BOOLEAN,
     marker : (SUBSET Task) \cup {NoTree}, sequence : Nat,
     result : {"none", "done", "failed", "blocked"}]

RunRecord ==
    [status : {"running", "stopping", "stopped", "completed", "blocked", "failed",
               "abandoning", "abandoned", "cleanupPending", "none"},
     tree : SUBSET Task, accepted : Nat]

\* The ledger, in memory and on disk, has the shape validateLedger accepts.
TypeOK ==
    /\ task \in [Task -> TaskRecord]
    /\ run \in RunRecord
    /\ disk.task \in [Task -> TaskRecord]
    /\ disk.run \in RunRecord
    /\ verdict \in [Task -> {"none", "failed", "blocked"}]
    /\ section \in [tree : (SUBSET Task) \cup {NoTree}, sequence : Nat]
    /\ integration \in (SUBSET Task) \cup {NoTree}

\* Whenever the window dies, a resume that is not refused restores every task
\* whose acceptance was persisted, through failed rollbacks and failed saves,
\* and no abandonment has taken the branch that has its work.
AcceptedIsKept ==
    /\ confirmed \subseteq DoneIn(disk.task)
    /\ Resumable(disk) => confirmed \subseteq Restored(disk)
    /\ pointer /\ Resumable(disk) /\ disk.run.status # "cleanupPending" =>
           integration # NoTree

\* "recovering to it could discard it": a resume that is not refused restores
\* exactly the work that the ledger on disk reports as accepted.
RestoredIsAccepted == Resumable(disk) => Restored(disk) = DoneIn(disk.task)

\* As long as every save succeeds, so does each half of that claim, a
\* completed run has integrated every task, and a task is accepted only after
\* the tasks it depends on.
LedgerTellsTheTruth ==
    spent.saves = 0 =>
        /\ RestoredIsAccepted
        /\ disk.run.status = "completed" => disk.run.tree = Task
        /\ \A t \in DoneIn(disk.task) : DependsOn[t] \subseteq DoneIn(disk.task)

Abandonment == {"abandoning", "abandoned"}

\* "Stop prevents later controller mutations": once the run is aborted no
\* task is accepted and no attempt begins. Nor does a run whose abandonment was
\* persisted ever run again, whatever crashes, fails and is resumed, as long as
\* one of its tasks is not done. Only a run that was completed in this window can
\* leave its abandonment: a clean-up that finds the completed ledger among the
\* retained ones takes the run over.
StopIsFinal ==
    [][/\ aborted /\ aborted' =>
            /\ DoneIn(task') \subseteq DoneIn(task)
            /\ \A t \in Task : task'[t].attempts <= task[t].attempts
       /\ disk.run.status \in Abandonment =>
            \/ disk'.run.status \in Abandonment
            \/ /\ disk'.run.status = "cleanupPending"
               /\ retained /\ DoneIn(disk.task) = Task]_vars

Exhausted(d, t) ==
    LET r == d.task[t]
    IN /\ r.status = "failed" \/ (r.status = "cancelled" /\ r.result = "failed")
       /\ r.attempts > Retries[t]
       /\ ~(r.impl /\ r.worktree)

\* "leaves terminally exhausted tasks failed": a task recorded as out of
\* retries, with no implementation checkpoint to verify again, is never tried
\* again by whatever stops, crashes and resumes.
ExhaustedStaysFailed ==
    [][\A t \in Task : Exhausted(disk, t) =>
          Exhausted(disk', t) \/ disk'.run.status \in Abandonment]_vars

\* "Tasks run together only when [...] path scopes do not overlap".
ScopesDisjoint ==
    \A t, u \in Running(task) : t # u => ~Conflict(t, u)

(***************************************************************************)
(* Fairness: the event loop runs a coroutine as long as one can run; every *)
(* await returns, because providers, checks and git have deadlines.        *)
(***************************************************************************)
FairSpec == Spec /\ WF_vars(LoopStep \/ MaintenanceStep \/ \E t \in Task : TaskStep(t))

\* Whatever fails, the run loop, an abandonment or a clean-up comes to its end.
RunEnds == loop # "off" ~> loop = "off"
=============================================================================
