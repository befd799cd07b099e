------------------------------ MODULE MCRelay -------------------------------
(***************************************************************************)
(* Instances of Relay for TLC: a client of protocol 1 and one of protocol 2.*)
(***************************************************************************)
EXTENDS Relay, TLC

CONSTANTS c1, c2, s1

MCOwn == c1 :> s1 @@ c2 :> NoSession
=============================================================================
