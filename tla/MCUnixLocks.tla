---------------------------- MODULE MCUnixLocks ----------------------------
(* Model checking UnixLocks: isolate i1 with two connections alone in      *)
(* process p1, isolates i2 and i3 with one each in process p2.             *)
EXTENDS UnixLocks, TLC

CONSTANTS c1, c2, c3, c4, i1, i2, i3, p1, p2

MCIsolateOf == (c1 :> i1) @@ (c2 :> i1) @@ (c3 :> i2) @@ (c4 :> i3)
MCProcOf == (i1 :> p1) @@ (i2 :> p2) @@ (i3 :> p2)

Symmetry == Permutations({c1, c2})
=============================================================================
