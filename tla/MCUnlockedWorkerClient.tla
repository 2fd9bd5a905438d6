----------------------- MODULE MCUnlockedWorkerClient -----------------------
(* UnlockedWorkerClient for TLC.                                           *)
EXTENDS UnlockedWorkerClient, TLC
=============================================================================
