---------------------------- MODULE MCTargetLock ----------------------------
(***************************************************************************)
(* Two resources of one manager and an old manager process still working   *)
(* on the first one's claim.                                               *)
(***************************************************************************)
EXTENDS TargetLock, TLC

CONSTANTS h1, h2, A, B, c1, c2, c3

MCHolderOf == (c1 :> h1) @@ (c2 :> h2) @@ (c3 :> h1)
MCLockerOf == (c1 :> A) @@ (c2 :> A) @@ (c3 :> B)
MCDurationOf == (c1 :> 2) @@ (c2 :> 1) @@ (c3 :> 2)
MCFirstEpoch == (h1 :> Placeholder) @@ (h2 :> NoEpoch)
=============================================================================
