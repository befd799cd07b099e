------------------------------- MODULE MCHub --------------------------------
(***************************************************************************)
(* Instances of Hub for TLC: the claims the binaries issue and the first   *)
(* messages web/app.js and the tests send.                                 *)
(***************************************************************************)
EXTENDS HubProperties, TLC

Hello1(s)       == [type |-> "attach", version |-> 1, agent |-> "ai", session |-> s]
Scoped(s, w)    == [agent |-> "ai", session |-> s, write |-> w]

\* One token to write in one session.
MCWriterToken   == {Scoped("s1", TRUE)}
MCWriterHello   == {Hello1("s1")}

\* A writer and a viewer of the same session.
MCMixedToken    == {Scoped("s1", TRUE), Scoped("s1", FALSE)}

\* Tailnet mode, in which nobody has a token and everybody may write; first
\* messages that are accepted, and some that are not: another type, a version
\* of the future, no agent.
MCTailnetToken == {NoClaims}
MCAnyHello ==
    {Hello1("s1"),
     [type |-> "resize", version |-> 1, agent |-> "ai", session |-> "s1"],
     [type |-> "attach", version |-> 3, agent |-> "ai", session |-> "s1"],
     [type |-> "attach", version |-> 0, agent |-> Blank, session |-> "s1"]}

\* What is refused to a token: another session than its own, a missing one.
MCScopedHello ==
    {Hello1("s1"), Hello1("s2"), Hello1(Blank)}

MCClientSymmetry == Permutations(Client)
=============================================================================
