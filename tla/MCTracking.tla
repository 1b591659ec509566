----------------------------- MODULE MCTracking -----------------------------
(* Values for BusTracking's constants. *)
EXTENDS BusTracking, TLC

CONSTANTS a, b, c, h, g

ThreeSessions == {a, b, c}
TwoCallables  == {h, g}

(* The sessions are interchangeable, and no property is a liveness one. *)
AnySessions == Permutations(ThreeSessions)
=============================================================================
