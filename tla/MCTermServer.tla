---------------------------- MODULE MCTermServer ----------------------------
(***************************************************************************)
(* Instances of TermServer for TLC.                                        *)
(***************************************************************************)
EXTENDS TermServer

\* No name begins with another.
MCNoLonger == [s \in Session |-> {}]
=============================================================================
