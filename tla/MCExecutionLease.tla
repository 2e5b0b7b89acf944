-------------------------- MODULE MCExecutionLease --------------------------
EXTENDS ExecutionLease, TLC

CONSTANTS r, x, y, p

MCOp == {r, x, y}
MCRun == {r}
MCAgentsOf == r :> {} @@ x :> {p} @@ y :> {p}
MCSlotsOf == r :> 0 @@ x :> 0 @@ y :> 1
MCUnitsOf == r :> 1 @@ x :> 1 @@ y :> 2
=============================================================================
