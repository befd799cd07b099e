---------------------------- MODULE MCWebClient -----------------------------
(***************************************************************************)
(* An instance of WebClient for TLC: two sessions, in tailnet mode or with *)
(* a token for one of them.                                                *)
(***************************************************************************)
EXTENDS WebClient

Ai  == <<1>>
Ai2 == <<1, 0>>
MCSession == {Ai, Ai2}
MCClaim   == {None, Ai}
=============================================================================
