------------------------- MODULE MCWorkspaceWriter --------------------------
(***************************************************************************)
(* Three activations, of which one may be a reload of another's window.    *)
(***************************************************************************)
EXTENDS WorkspaceWriter, TLC

CONSTANTS w1, w2, w3

MCWindow == {w1, w2, w3}

Symmetry == Permutations(MCWindow)
=============================================================================
