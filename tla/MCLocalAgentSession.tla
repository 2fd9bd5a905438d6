------------------------ MODULE MCLocalAgentSession ------------------------
(* LocalAgentSession for TLC.                                               *)
EXTENDS LocalAgentSession, TLC

CONSTANT t1

\* The job of the answer to t1 may fail.
MCFallible == {Assistant(t1)}
=============================================================================
