------------------------------ MODULE MCPager ------------------------------
EXTENDS Pager, TLC

Symmetry == Permutations(Conns)
=============================================================================
