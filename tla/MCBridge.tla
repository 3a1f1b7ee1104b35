------------------------------ MODULE MCBridge ------------------------------
(* Model checking Bridge on small sets of isolates, ports and requests.    *)
EXTENDS Bridge, TLC

\* Ports, requests and connections are interchangeable.  Isolates too, but
\* they are few.  Only for runs without liveness properties.
Symmetry == Permutations(Requests) \cup Permutations(Ports)
                \cup Permutations(Conns) \cup Permutations(Isolates)
=============================================================================
