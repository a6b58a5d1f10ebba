---------------------------- MODULE MCPinnedPool ----------------------------
(* Instances of PinnedPool for TLC. *)
EXTENDS PinnedPool, TLC

CONSTANTS n1, n2, h1, h2, r1, r2, r3

(* Which device each request is for. *)
OneHost == (r1 :> h1 @@ r2 :> h1)
OneRequest == (r1 :> h1)
TwoHosts == (r1 :> h1 @@ r2 :> h2)
ThreeRequests == (r1 :> h1 @@ r2 :> h2 @@ r3 :> h1)

NodeSymmetry == Permutations(Nodes)
=============================================================================
