------------------------------ MODULE MCRxPath ------------------------------
(* The receiving half on its own, for TLC.                                    *)
EXTENDS RxPath
=============================================================================
