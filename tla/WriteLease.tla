----------------------------- MODULE WriteLease -----------------------------
(***************************************************************************)
(* What the hub promises about the write lease of an agent: members come   *)
(* and go, some of them may write, at most one of them holds the lease,    *)
(* only a member that may write takes it, and a member that goes leaves it *)
(* behind.  It does not promise that the lease is free when it is taken,   *)
(* nor that only its holder gives it up: Hub!HasWriter and Hub!ClearWriter *)
(* check and act in two critical sections.                                 *)
(***************************************************************************)
CONSTANTS Member,   \* those who may come
          Nobody    \* holds the lease when nobody does

VARIABLES members,  \* those who are here
          writers,  \* those of them who may write
          holder    \* the one who holds the lease, or Nobody

vars == <<members, writers, holder>>

Init == members = {} /\ writers = {} /\ holder = Nobody

\* A client is added to the agent.
Join(m) ==
    /\ m \notin members
    /\ members' = members \union {m}
    /\ writers' \in {writers, writers \union {m}}
    /\ UNCHANGED holder

\* A client's handler removes it.
Leave(m) ==
    /\ m \in members
    /\ members' = members \ {m}
    /\ writers' = writers \ {m}
    /\ holder'  = IF holder = m THEN Nobody ELSE holder

\* A request_write is granted.
Take(m) ==
    /\ m \in writers
    /\ holder' = m
    /\ UNCHANGED <<members, writers>>

\* A release, or the agent comes or goes.
Drop ==
    /\ holder # Nobody
    /\ holder' = Nobody
    /\ UNCHANGED <<members, writers>>

Next ==
    \/ \E m \in Member : Join(m) \/ Leave(m) \/ Take(m)
    \/ Drop

Spec == Init /\ [][Next]_vars
=============================================================================
