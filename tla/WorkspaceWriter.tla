-------------------------- MODULE WorkspaceWriter ---------------------------
(***************************************************************************)
(* The single writer of a workspace: windows of one profile that take the  *)
(* writer lease (src/src/extension.ts), activate the mutation fence with   *)
(* the token of that lease (src/src/state/workspaceMutationFence.ts), open *)
(* the catalog with the same token (src/src/state/catalog.ts), write files *)
(* under the fence and rows in the catalog, and deactivate.                *)
(*                                                                         *)
(* The lease is the one LeaseService promises; the fence and the catalog   *)
(* are two SQLite databases of the workspace. A window may be paused       *)
(* between any two of its steps while the broker gives its lease away.     *)
(***************************************************************************)
EXTENDS Naturals, FiniteSets

CONSTANTS
    Window,      \* activations of the extension; each takes one lease at most
    WriterKey,   \* workspace-state-writer:<hash of the state directory>
    Nobody

ASSUME WriterAssumption == Nobody \notin Window

VARIABLES
    live, granted, token, fences, unclean,  \* the lease service
    stage,         \* window -> where its activation or deactivation stands
    op,            \* window -> the fence queue's head: "none", "asked" or "running"
    catalogCall,   \* window -> "none" or "asserted"
    lock,          \* the window inside a write transaction of the fence database
    fenceToken,    \* fence_token of its row, 0 before there is one
    catalogFence,  \* the token in catalog_meta.writer_fence
    fileWriter,    \* history: the token under which a file was last written
    catalogWriter  \* history: the token under which a row was last written

leaseVars == <<live, granted, token, fences, unclean>>
storeVars == <<lock, fenceToken, catalogFence, fileWriter, catalogWriter>>
vars == <<leaseVars, stage, op, catalogCall, storeVars>>

\* an abstract claim of one unit with capacity one
WriterClaim == [units |-> 1, capacity |-> 1, physical |-> FALSE]

Lease == INSTANCE LeaseService WITH
            Call <- Window,
            Key <- {WriterKey},
            ClaimsOf <- [w \in Window |-> [k \in {WriterKey} |-> WriterClaim]],
            BridgeCall <- {}

\* (a plausible bug, for TypeOK) the token is read through the live lease
MutantTokenOf(w) == IF w \in live THEN fences[w][WriterKey] ELSE Nobody

TokenOf(w) == fences[w][WriterKey]

\* assertWritable: the window's lease is still persisted
LeaseValid(w) == w \in live

Init ==
    /\ Lease!Init
    /\ stage = [w \in Window |-> "new"]
    /\ op = [w \in Window |-> "none"]
    /\ catalogCall = [w \in Window |-> "none"]
    /\ lock = Nobody
    /\ fenceToken = 0
    /\ catalogFence = 0
    /\ fileWriter = 0
    /\ catalogWriter = 0

Goto(w, to) == stage' = [stage EXCEPT ![w] = to]

-----------------------------------------------------------------------------
(***************************************************************************)
(* activate.                                                               *)
(***************************************************************************)
AcquireLease(w) ==
    /\ stage[w] = "new"
    /\ Lease!Grant(w)
    /\ Goto(w, "leased")
    /\ UNCHANGED <<op, catalogCall, storeVars>>

\* createWorkspaceMutationFence asserts the lease, then waits for the lock
FenceAsked(w) ==
    /\ stage[w] = "leased"
    /\ LeaseValid(w)
    /\ Goto(w, "fenceAsked")
    /\ UNCHANGED <<leaseVars, op, catalogCall, storeVars>>

\* (a plausible bug, for ImplementsStateWriter) the write lock is not awaited
MutantFenceLocked(w) ==
    /\ stage[w] = "fenceAsked"
    /\ lock' = w
    /\ Goto(w, "fenceLocked")
    /\ UNCHANGED <<leaseVars, op, catalogCall>>
    /\ UNCHANGED <<fenceToken, catalogFence, fileWriter, catalogWriter>>

FenceLocked(w) ==
    /\ stage[w] = "fenceAsked"
    /\ lock = Nobody
    /\ lock' = w
    /\ Goto(w, "fenceLocked")
    /\ UNCHANGED <<leaseVars, op, catalogCall>>
    /\ UNCHANGED <<fenceToken, catalogFence, fileWriter, catalogWriter>>

\* (a plausible bug, for ValidWriterHoldsFence) the lease is not asserted again
MutantFenceChecked(w) ==
    /\ stage[w] = "fenceLocked"
    /\ Goto(w, "fenceChecked")
    /\ UNCHANGED <<leaseVars, op, catalogCall, storeVars>>

\* the lease is asserted again inside the transaction, which then goes on
FenceChecked(w) ==
    /\ stage[w] = "fenceLocked"
    /\ LeaseValid(w)
    /\ Goto(w, "fenceChecked")
    /\ UNCHANGED <<leaseVars, op, catalogCall, storeVars>>

FenceActivated(w) ==
    /\ stage[w] = "fenceChecked"
    /\ fenceToken' = TokenOf(w)
    /\ lock' = Nobody
    /\ Goto(w, "fenced")
    /\ UNCHANGED <<leaseVars, op, catalogCall, catalogFence, fileWriter, catalogWriter>>

\* a lost lease, a timeout for the lock or any error ends the activation
ActivationFails(w) ==
    /\ stage[w] \in {"leased", "fenceAsked", "fenceLocked", "fenceChecked", "fenced"}
    /\ lock' = IF lock = w THEN Nobody ELSE lock
    /\ Goto(w, "fenceClosed")
    /\ UNCHANGED <<leaseVars, op, catalogCall>>
    /\ UNCHANGED <<fenceToken, catalogFence, fileWriter, catalogWriter>>

(***************************************************************************)
(* createStateCatalog: one transaction installs the triggers and replaces  *)
(* writer_fence by the token of this window, whatever it was. The triggers *)
(* exempt that row.                                                        *)
(***************************************************************************)
OpenCatalog(w) ==
    /\ stage[w] = "fenced"
    /\ catalogFence' = TokenOf(w)
    /\ Goto(w, "active")
    /\ UNCHANGED <<leaseVars, op, catalogCall, lock, fenceToken, fileWriter, catalogWriter>>

-----------------------------------------------------------------------------
(***************************************************************************)
(* run(operation): the head of the window's serial queue.                  *)
(***************************************************************************)
OpAsked(w) ==
    /\ stage[w] = "active"
    /\ op[w] = "none"
    /\ LeaseValid(w)
    /\ op' = [op EXCEPT ![w] = "asked"]
    /\ UNCHANGED <<leaseVars, stage, catalogCall, storeVars>>

\* BEGIN IMMEDIATE succeeds, the row is compared and the lease asserted again
OpStarts(w) ==
    /\ op[w] = "asked"
    /\ lock = Nobody
    /\ fenceToken = TokenOf(w)
    /\ LeaseValid(w)
    /\ lock' = w
    /\ op' = [op EXCEPT ![w] = "running"]
    /\ UNCHANGED <<leaseVars, stage, catalogCall>>
    /\ UNCHANGED <<fenceToken, catalogFence, fileWriter, catalogWriter>>

\* stale row, lost lease or timeout: rolled back before the operation began
OpRefused(w) ==
    /\ op[w] = "asked"
    /\ op' = [op EXCEPT ![w] = "none"]
    /\ UNCHANGED <<leaseVars, stage, catalogCall, storeVars>>

\* the awaited operation writes files, as often as it likes
WriteFile(w) ==
    /\ op[w] = "running"
    /\ fileWriter' = TokenOf(w)
    /\ UNCHANGED <<leaseVars, stage, op, catalogCall, lock>>
    /\ UNCHANGED <<fenceToken, catalogFence, catalogWriter>>

\* COMMIT or ROLLBACK: what the operation wrote to files stays either way
OpEnds(w) ==
    /\ op[w] = "running"
    /\ lock' = Nobody
    /\ op' = [op EXCEPT ![w] = "none"]
    /\ UNCHANGED <<leaseVars, stage, catalogCall>>
    /\ UNCHANGED <<fenceToken, catalogFence, fileWriter, catalogWriter>>

(***************************************************************************)
(* A mutating method of the catalog: the proxy asserts the lease, then the *)
(* statement runs and the triggers compare the two tokens.                 *)
(***************************************************************************)
CatalogAsserted(w) ==
    /\ stage[w] = "active"
    /\ catalogCall[w] = "none"
    /\ LeaseValid(w)
    /\ catalogCall' = [catalogCall EXCEPT ![w] = "asserted"]
    /\ UNCHANGED <<leaseVars, stage, op, storeVars>>

\* (a plausible bug, for CatalogWritesInOrder) the triggers are missing
MutantCatalogWritten(w) ==
    /\ catalogCall[w] = "asserted"
    /\ catalogWriter' = TokenOf(w)
    /\ catalogCall' = [catalogCall EXCEPT ![w] = "none"]
    /\ UNCHANGED <<leaseVars, stage, op, lock, fenceToken, catalogFence, fileWriter>>

CatalogWritten(w) ==
    /\ catalogCall[w] = "asserted"
    /\ catalogFence = TokenOf(w)
    /\ catalogWriter' = TokenOf(w)
    /\ catalogCall' = [catalogCall EXCEPT ![w] = "none"]
    /\ UNCHANGED <<leaseVars, stage, op, lock, fenceToken, catalogFence, fileWriter>>

CatalogAborted(w) ==
    /\ catalogCall[w] = "asserted"
    /\ catalogFence # TokenOf(w)
    /\ catalogCall' = [catalogCall EXCEPT ![w] = "none"]
    /\ UNCHANGED <<leaseVars, stage, op, storeVars>>

-----------------------------------------------------------------------------
(***************************************************************************)
(* deactivate: the fence is disposed behind its queue, then the lease is   *)
(* released (or, without effect on an abstract key, quarantined).          *)
(***************************************************************************)
DisposeFence(w) ==
    /\ stage[w] = "active"
    /\ op[w] = "none"
    /\ catalogCall[w] = "none"
    /\ Goto(w, "fenceClosed")
    /\ UNCHANGED <<leaseVars, op, catalogCall, storeVars>>

ReleaseLease(w) ==
    /\ stage[w] = "fenceClosed"
    /\ Goto(w, "done")
    /\ Lease!End({w}, {})
    /\ UNCHANGED <<op, catalogCall, storeVars>>

\* the broker of another window reclaims the lease of a silent owner
LoseLease(w) ==
    /\ w \in live
    /\ Lease!End({}, {w})
    /\ UNCHANGED <<stage, op, catalogCall, storeVars>>

\* the process dies; the system drops its database lock, the lease row stays
Crash(w) ==
    /\ stage[w] \notin {"new", "done", "crashed"}
    /\ Goto(w, "crashed")
    /\ op' = [op EXCEPT ![w] = "none"]
    /\ catalogCall' = [catalogCall EXCEPT ![w] = "none"]
    /\ lock' = IF lock = w THEN Nobody ELSE lock
    /\ UNCHANGED <<leaseVars, fenceToken, catalogFence, fileWriter, catalogWriter>>

-----------------------------------------------------------------------------
WindowStep(w) ==
    \/ AcquireLease(w)
    \/ FenceAsked(w) \/ FenceLocked(w) \/ FenceChecked(w) \/ FenceActivated(w)
    \/ ActivationFails(w) \/ OpenCatalog(w)
    \/ OpAsked(w) \/ OpStarts(w) \/ OpRefused(w) \/ WriteFile(w) \/ OpEnds(w)
    \/ CatalogAsserted(w) \/ CatalogWritten(w) \/ CatalogAborted(w)
    \/ DisposeFence(w) \/ ReleaseLease(w) \/ LoseLease(w) \/ Crash(w)

Next == \E w \in Window : WindowStep(w)

Spec == Init /\ [][Next]_vars

-----------------------------------------------------------------------------
(***************************************************************************)
(* Properties.                                                             *)
(***************************************************************************)
Stage ==
    {"new", "leased", "fenceAsked", "fenceLocked", "fenceChecked", "fenced",
     "active", "fenceClosed", "done", "crashed"}

\* The state has the shape of the two databases and the windows' variables.
TypeOK ==
    /\ live \subseteq Window
    /\ granted \subseteq Window
    /\ token \in [{WriterKey} -> Nat]
    /\ fences \in [Window -> [{WriterKey} -> Nat]]
    /\ stage \in [Window -> Stage]
    /\ op \in [Window -> {"none", "asked", "running"}]
    /\ catalogCall \in [Window -> {"none", "asserted"}]
    /\ lock \in Window \cup {Nobody}
    /\ {fenceToken, catalogFence, fileWriter, catalogWriter} \subseteq Nat

\* The files follow the tokens of the fence: a mutation begun under the fence
\* ends before a newer writer takes office, and no old writer mutates later,
\* wherever its window was paused while its lease was given away.
Fence == INSTANCE StateWriter WITH epoch <- fenceToken, written <- fileWriter

ImplementsStateWriter == Fence!Spec

\* A writer whose lease is valid and whose activation finished finds its own
\* token in the fence: nobody without the lease has replaced it.
ValidWriterHoldsFence ==
    \A w \in live : stage[w] \in {"fenced", "active"} => fenceToken = TokenOf(w)

(***************************************************************************)
(* The strengthenings that make these invariants inductive.                *)
(***************************************************************************)

\* one live lease at most, which has the newest token; all tokens differ
LeaseInv ==
    /\ live \subseteq granted
    /\ \A v, w \in live : v = w
    /\ \A w \in live : TokenOf(w) = token[WriterKey]
    /\ \A w \in Window : stage[w] = "new" <=> w \notin granted
    /\ \A w \in granted : TokenOf(w) > 0 /\ TokenOf(w) <= token[WriterKey]
    /\ \A v, w \in granted : TokenOf(v) = TokenOf(w) => v = w

\* a window that holds the lock of the fence knows what is in its row; a row
\* never has the token of a window that has not activated the fence yet
FenceInv ==
    /\ ValidWriterHoldsFence
    /\ fenceToken <= token[WriterKey]
    /\ \A w \in Window :
         /\ stage[w] \in {"leased", "fenceAsked", "fenceLocked", "fenceChecked"}
              => fenceToken # TokenOf(w)
         /\ stage[w] \in {"fenceLocked", "fenceChecked"} => lock = w
         /\ stage[w] = "fenceChecked" => fenceToken < TokenOf(w)
         /\ op[w] # "none" => stage[w] = "active"
         /\ op[w] = "running" => lock = w /\ fenceToken = TokenOf(w)

\* a lease asserted for a catalog call was the newest, and once another token
\* has replaced its own in writer_fence nothing puts it back
CatalogInv ==
    /\ catalogWriter <= token[WriterKey]
    /\ \A w \in Window : catalogCall[w] = "asserted" =>
         /\ stage[w] = "active"
         /\ catalogFence = TokenOf(w) => catalogWriter <= TokenOf(w)

\* Catalog rows are written in the order of the tokens, although the lease is
\* checked before the statement and outside its transaction.
CatalogWritesInOrder == [][catalogWriter' >= catalogWriter]_vars

\* The catalog's writer_fence, by which its triggers reject a connection whose
\* token has been replaced, only ever advances to newer tokens.
CatalogFenceAdvances == [][catalogFence' >= catalogFence]_vars
=============================================================================
