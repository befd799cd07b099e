----------------------------- MODULE MCCommands -----------------------------
(***************************************************************************)
(* An instance of Commands for TLC: each command once, with the flags      *)
(* that make its hub behave differently.                                   *)
(***************************************************************************)
EXTENDS Commands, TLC

CONSTANTS c1

Run == [kind |-> "run", mode |-> "tailnet", tailnetOnly |-> TRUE, admin |-> TRUE,
        secret |-> "dev-secret", ttl |-> 60, agent |-> "agent-secret"]

MCProgram ==
    {Run,
     [Run EXCEPT !.kind = "hubd", !.mode = "token", !.tailnetOnly = FALSE, !.ttl = 0],
     [Run EXCEPT !.kind = "agent"]}

MCOrigin == c1 :> "tailnet"
=============================================================================
