----------------------------- MODULE MCCarRide -----------------------------
(***************************************************************************)
(* CarRide on a small instance: one car, its coordinator and one or two    *)
(* passenger devices.                                                      *)
(***************************************************************************)
EXTENDS CarRide, TLC

CONSTANTS p1, p2, carA, a1, k1, k2, x1, x2

OneSeat  == (a1 :> carA)

Symmetry == Permutations(Peer) \cup Permutations(ClaimId)
              \cup Permutations(Access) \cup Permutations(Loop)
=============================================================================
