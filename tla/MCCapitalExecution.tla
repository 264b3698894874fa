------------------------- MODULE MCCapitalExecution -------------------------
(* CapitalExecution on a small account: the constants come from the cfg.   *)
EXTENDS CapitalExecution, TLC

Symmetry == Permutations(Tickers) \cup Permutations(Manual)

=============================================================================
