----------------------------- MODULE MCHandles -----------------------------
(* Model checking Handles with two connections and two statements.         *)
EXTENDS Handles, TLC

\* Addresses are interchangeable.
Symmetry == Permutations(Dbs) \cup Permutations(Stmts)
=============================================================================
