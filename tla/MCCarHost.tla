----------------------------- MODULE MCCarHost -----------------------------
(***************************************************************************)
(* CarHost on a small instance: one car with two seats, or two cars with a *)
(* seat each, and one or two passenger devices.                            *)
(***************************************************************************)
EXTENDS CarHost, TLC

CONSTANTS p1, p2, carA, carB, a1, a2, b1, k1, x1, x2, x3

OneCar  == (a1 :> carA) @@ (a2 :> carA)
OneSeatEach == (a1 :> carA) @@ (b1 :> carB)

Symmetry == Permutations(Peer) \cup Permutations(ClaimId)
              \cup Permutations(Access) \cup Permutations(Loop)
              \cup Permutations(Request)
=============================================================================
