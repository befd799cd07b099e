-------------------------- MODULE MCAgentSessions ---------------------------
(***************************************************************************)
(* Instances of AgentSessions for TLC.                                     *)
(***************************************************************************)
EXTENDS AgentSessions

CONSTANTS ai, ai2   \* two names, of which one begins with the other

MCLonger == [s \in Session |-> IF s = ai THEN Session \ {ai} ELSE {}]
=============================================================================
