---------------------------- MODULE MCGenerator ----------------------------
(* The whole generator on small instances, for TLC.                           *)
EXTENDS Generator

MCGaps == {1}

=============================================================================
