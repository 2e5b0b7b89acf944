---------------------------- MODULE StateWriter -----------------------------
(***************************************************************************)
(* What the workspace mutation fence promises: writers succeed one another *)
(* in the order of their fencing tokens, and only the writer in office     *)
(* changes the workspace state.                                            *)
(***************************************************************************)
EXTENDS Naturals

VARIABLES
    epoch,     \* the fencing token of the writer in office, 0 before the first
    written    \* the fencing token under which the state was last written

Init == epoch = 0 /\ written = 0

TakeOffice == epoch' \in Nat /\ epoch' > epoch /\ UNCHANGED written

Write == epoch > 0 /\ written' = epoch /\ UNCHANGED epoch

Next == TakeOffice \/ Write

Spec == Init /\ [][Next]_<<epoch, written>>
=============================================================================
