---------------------------- MODULE SessionQuery ----------------------------
(***************************************************************************)
(* What the hub promises of asking for the list of sessions                *)
(* (requestSessions, internal/hub/hub.go): each call either fails, or      *)
(* returns a list that was taken for it alone, at one instant between its  *)
(* question and its return.  The list is what there was at that instant,   *)
(* or the empty one, if tmux could not be asked.  What was taken may be    *)
(* lost, and is then not returned; what was returned stays as it is.       *)
(***************************************************************************)
CONSTANTS Call,    \* those who ask, each once
          Lists    \* what may be there

VARIABLES truth,   \* what there is
          phase,   \* how far each call is
          taken,   \* the list taken for each call, as a set of at most one
          result   \* what each call has returned

vars == <<truth, phase, taken, result>>

Init ==
    /\ truth \in Lists
    /\ phase = [r \in Call |-> "new"] /\ taken = [r \in Call |-> {}]
    /\ result \in [Call -> Lists]

\* Sessions begin and end.
Change == truth' \in Lists /\ UNCHANGED <<phase, taken, result>>

Ask(r) ==
    /\ phase[r] = "new"
    /\ phase' = [phase EXCEPT ![r] = "asking"]
    /\ UNCHANGED <<truth, taken, result>>

\* The list is taken.
Take(r) ==
    /\ phase[r] = "asking" /\ taken[r] = {}
    /\ \E list \in {truth, {}} : taken' = [taken EXCEPT ![r] = {list}]
    /\ UNCHANGED <<truth, phase, result>>

\* A connection breaks, with all that was on its way.
Lose(S) ==
    /\ taken' = [r \in Call |-> IF r \in S THEN {} ELSE taken[r]]
    /\ UNCHANGED <<truth, phase, result>>

Ends(r) ==
    /\ phase' = [phase EXCEPT ![r] = "over"]
    /\ taken' = [taken EXCEPT ![r] = {}]
    /\ UNCHANGED truth

Return(r) ==
    /\ phase[r] = "asking" /\ Ends(r)
    /\ \E list \in taken[r] : result' = [result EXCEPT ![r] = list]

\* Nobody is there to be asked, or the answer takes too long.
Fail(r) == phase[r] # "over" /\ Ends(r) /\ UNCHANGED result

Next ==
    \/ Change \/ \E S \in SUBSET Call : Lose(S)
    \/ \E r \in Call : Ask(r) \/ Take(r) \/ Return(r) \/ Fail(r)

Spec == Init /\ [][Next]_vars
=============================================================================
