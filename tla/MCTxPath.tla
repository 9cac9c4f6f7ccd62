------------------------------ MODULE MCTxPath ------------------------------
(* lcore_tx on its own, for TLC: four requests, every assignment of gaps.    *)
EXTENDS TxPath

MCGaps == {0, 2}
=============================================================================
