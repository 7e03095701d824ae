--------------------------- MODULE MCLiveUpdates -----------------------------
(***************************************************************************)
(* Instances of LiveUpdates: a tab whose stream reconnects, with another   *)
(* tab beside it.                                                          *)
(***************************************************************************)
EXTENDS LiveUpdates
CONSTANTS t1, t2, c1, c2, k1, k2

\* A request is refused, or is not and drops the notice of the last refusal.
Refusals == [project : {0}, notice : BOOLEAN]
=============================================================================
