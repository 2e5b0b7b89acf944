-------------------------- MODULE MCOwnerStaleness --------------------------
(***************************************************************************)
(* Two windows of one machine. A unit is five seconds: the interval is one *)
(* unit (2 s in the code), the drift limit one, the stale threshold three  *)
(* (15 s) and the grace of a live owner, 300 s in the code, is shortened   *)
(* to four. The machine sleeps twice, each time for longer than every      *)
(* threshold.                                                              *)
(***************************************************************************)
EXTENDS OwnerStaleness, TLC

CONSTANTS w1, w2, laptop

MCOwner == {w1, w2}
MCHostOf == w1 :> laptop @@ w2 :> laptop
MCSleepLengths == {6}
=============================================================================
