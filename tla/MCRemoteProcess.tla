-------------------------- MODULE MCRemoteProcess --------------------------
(* A program of exit code 0 or 1 for TLC.                                     *)
EXTENDS RemoteProcess
MCCodes == {0, 1}
=============================================================================
