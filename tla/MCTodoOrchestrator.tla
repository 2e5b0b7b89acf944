------------------------- MODULE MCTodoOrchestrator -------------------------
(***************************************************************************)
(* Three tasks: t2 and t3 run side by side; t1 needs t2 or both, and shares *)
(* an area with t3.                                                        *)
(***************************************************************************)
EXTENDS TodoOrchestrator

CONSTANTS t1, t2, t3

MCOrder == <<t1, t2, t3>>
MCDependsOn == t1 :> {t2} @@ t2 :> {} @@ t3 :> {}
MCDependsOnBoth == t1 :> {t2, t3} @@ t2 :> {} @@ t3 :> {}
MCPathsOf == t1 :> {"a"} @@ t2 :> {"b"} @@ t3 :> {"a"}
MCRetries == t1 :> 0 @@ t2 :> 0 @@ t3 :> 1
=============================================================================
