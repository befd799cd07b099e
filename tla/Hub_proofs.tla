----------------------------- MODULE Hub_proofs -----------------------------
(***************************************************************************)
(* Theorems about Hub for every set of connections, clients, tokens and    *)
(* messages.                                                               *)
(***************************************************************************)
EXTENDS HubProperties, TLAPS

-----------------------------------------------------------------------------
(* Types *)

\* The claims of nobody are claims.
LEMMA NoClaimsType == NoClaims \in Claims
  BY BlankAssumption DEF NoClaims, Claims

\* A client that is let in has claims of the type of a token's.
LEMMA ClaimedType ==
    ASSUME NEW token \in Token, NEW msg \in FirstMessage
    PROVE  Claimed(token, msg) \in Claims
<1>1. token \in Claims /\ msg.agent \in Name /\ msg.session \in Name
  BY TokenAssumption, FirstMessageAssumption
<1>2. CASE Anonymous(token)
  BY <1>1, <1>2, BlankAssumption DEF Claimed, Claims
<1>3. CASE ~Anonymous(token)
  BY <1>1, <1>3 DEF Claimed
<1> QED
  BY <1>2, <1>3

\* The end of a handler keeps the types of what it resets.
LEMMA CloseType ==
    ASSUME Types, NEW c \in Client, Close(c)
    PROVE  /\ pc' \in [Client -> Location]
           /\ link' \in [Client -> {"up", "down"}]
           /\ claims' \in [Client -> Claims]
           /\ handle' \in [Client -> AgentConn \union {NoConn}]
           /\ focus' \in [Client -> BOOLEAN]
           /\ snap' \in [Client -> SUBSET Client]
           /\ seen' \in [Client -> Client \union {NoClient}]
           /\ ret' \in [Client -> {"loop", "closed"}]
  BY NoClaimsType DEF Types, Close, Goto, Proceed, Location

LEMMA TypeInit == Init => TypeOK
<1> SUFFICES ASSUME Init PROVE Types /\ NoAgentNoState
  BY DEF TypeOK
<1>1. /\ agent \in AgentConn \union {NoConn}
      /\ clients \subseteq Client
      /\ writer \in Client \union {NoClient}
      /\ write \in BOOLEAN
      /\ sess \in Name
      /\ aconn \in [AgentConn -> {"new", "serving", "done"}]
  BY BlankAssumption DEF Init
<1>2. /\ pc \in [Client -> Location]
      /\ link \in [Client -> {"up", "down"}]
      /\ claims \in [Client -> Claims]
      /\ handle \in [Client -> AgentConn \union {NoConn}]
      /\ focus \in [Client -> BOOLEAN]
      /\ snap \in [Client -> SUBSET Client]
      /\ seen \in [Client -> Client \union {NoClient}]
      /\ ret \in [Client -> {"loop", "closed"}]
  BY NoClaimsType DEF Init, Location
<1>3. /\ told \in [Client -> {"nothing", "viewer", "writer"}]
      /\ lawful \in [Client -> BOOLEAN]
      /\ clash \in BOOLEAN
      /\ orphans \subseteq Client
  BY DEF Init
<1>4. NoAgentNoState
  BY DEF Init, NoAgentNoState
<1> QED
  BY <1>1, <1>2, <1>3, <1>4 DEF Types

LEMMA TypesNext == Types /\ [Next]_vars => Types'
<1> SUFFICES ASSUME Types, [Next]_vars PROVE Types'
  OBVIOUS
<1> USE DEF Types, vars, state, locals, ghosts, Goto, Proceed, Location
<1>1. ASSUME NEW a \in AgentConn, AgentConnect(a) PROVE Types'
  <2>1. aconn' \in [AgentConn -> {"new", "serving", "done"}]
    BY <1>1 DEF AgentConnect
  <2>2. agent' \in AgentConn /\ clients' = {} /\ writer' = NoClient /\ sess' \in Name
    BY <1>1, BlankAssumption DEF AgentConnect
  <2>3. write' \in BOOLEAN
    BY <1>1 DEF AgentConnect
  <2>4. orphans' \subseteq Client
    BY <1>1 DEF AgentConnect
  <2>5. UNCHANGED <<pc, link, locals, told, lawful, clash>>
    BY <1>1 DEF AgentConnect
  <2> QED
    BY <2>1, <2>2, <2>3, <2>4, <2>5
<1>2. ASSUME NEW a \in AgentConn, AgentExit(a) PROVE Types'
  <2>1. aconn' \in [AgentConn -> {"new", "serving", "done"}]
    BY <1>2 DEF AgentExit
  <2>2. UNCHANGED <<pc, locals, ghosts>>
    BY <1>2 DEF AgentExit
  <2>3. CASE agent = a
    <3>1. /\ link' \in [Client -> {"up", "down"}]
          /\ told' \in [Client -> {"nothing", "viewer", "writer"}]
      BY <1>2, <2>3 DEF AgentExit, Unregister, Cut, NoEntry
    <3>2. agent' = NoConn /\ clients' = {} /\ writer' = NoClient /\ sess' = Blank
      BY <1>2, <2>3 DEF AgentExit, Unregister, Cut, NoEntry
    <3>3. write' \in BOOLEAN
      BY <1>2, <2>3 DEF AgentExit, Unregister, Cut, NoEntry
    <3> QED
      BY <2>1, <2>2, <3>1, <3>2, <3>3, BlankAssumption
  <2>4. CASE agent # a
    BY <1>2, <2>1, <2>2, <2>4 DEF AgentExit, Unregister, Cut, NoEntry
  <2> QED
    BY <2>3, <2>4
<1>3. ASSUME NEW c \in Client, HandlerStep(c) PROVE Types'
  <2>1. CASE Lookup(c)
    BY <2>1, CloseType DEF Lookup
  <2>2. CASE AddClient(c)
    BY <2>2, CloseType DEF AddClient
  <2>3. CASE SetSession(c)
    BY <2>3 DEF SetSession, Claims
  <2>4. CASE Hello(c)
    BY <2>4 DEF Hello
  <2>5. CASE FirstStatus(c)
    BY <2>5 DEF FirstStatus, Tell
  <2>6. CASE HasWriter(c)
    BY <2>6 DEF HasWriter
  <2>7. CASE CheckOwnLease(c)
    BY <2>7 DEF CheckOwnLease
  <2>8. CASE SetWriter(c)
    BY <2>8 DEF SetWriter, NewWriter, Broadcast, Busy, Broadcasting
  <2>9. CASE ClearWriter(c)
    BY <2>9 DEF ClearWriter, Broadcast, Busy, Broadcasting
  <2>10. CASE Snapshot(c)
    BY <2>10, CloseType DEF Snapshot, EndBroadcast, Recipients
  <2>11. CASE ReadWriter(c)
    BY <2>11 DEF ReadWriter
  <2>12. CASE Send(c)
    <3>1. PICK d \in snap[c] :
              /\ Tell(d, d = seen[c])
              /\ IF snap[c] = {d}
                 THEN EndBroadcast(c)
                 ELSE /\ snap' = [snap EXCEPT ![c] = @ \ {d}]
                      /\ UNCHANGED <<pc, link, claims, handle, focus, seen, ret>>
      BY <2>12 DEF Send
    <3>2. told' \in [Client -> {"nothing", "viewer", "writer"}]
      BY <3>1 DEF Tell
    <3>3. UNCHANGED <<state, aconn, ghosts>>
      BY <2>12 DEF Send
    <3>a. [snap EXCEPT ![c] = {}] \in [Client -> SUBSET Client]
      OBVIOUS
    <3>b. [snap EXCEPT ![c] = snap[c] \ {d}] \in [Client -> SUBSET Client]
      OBVIOUS
    <3>4. CASE snap[c] = {d} /\ ret[c] = "closed"
      BY <3>1, <3>2, <3>3, <3>4, CloseType DEF EndBroadcast
    <3>5. CASE snap[c] = {d} /\ ret[c] # "closed"
      BY <3>1, <3>2, <3>3, <3>5, <3>a DEF EndBroadcast
    <3>6. CASE snap[c] # {d}
      BY <3>1, <3>2, <3>3, <3>6, <3>b
    <3> QED
      BY <3>4, <3>5, <3>6
  <2>13. CASE InputWriter(c)
    BY <2>13 DEF InputWriter
  <2>14. CASE Forward(c)
    BY <2>14 DEF Forward
  <2>15. CASE RemoveClient(c)
    BY <2>15, CloseType
       DEF RemoveClient, RemainingClients, WasWriter, IsWriter, Broadcast, Busy, Broadcasting
  <2>16. CASE Refuse(c)
    BY <2>16, CloseType DEF Refuse
  <2>17. CASE Passed(c)
    BY <2>17 DEF Passed
  <2> QED
    BY <1>3, <2>1, <2>2, <2>3, <2>4, <2>5, <2>6, <2>7, <2>8, <2>9, <2>10,
       <2>11, <2>12, <2>13, <2>14, <2>15, <2>16, <2>17 DEF HandlerStep
<1>4. ASSUME NEW c \in Client, ReadStep(c) PROVE Types'
  <2>1. CASE ReadAttach(c)
    BY <2>1, CloseType, ClaimedType DEF ReadAttach
  <2>2. CASE RequestWrite(c)
    BY <2>2 DEF RequestWrite
  <2>3. CASE ReleaseWrite(c)
    BY <2>3 DEF ReleaseWrite
  <2>4. CASE Input(c)
    BY <2>4 DEF Input
  <2>5. CASE Focus(c)
    BY <2>5 DEF Focus
  <2>6. CASE PassOn(c) \/ BadMessage(c)
    BY <2>6 DEF PassOn, BadMessage
  <2> QED
    BY <1>4, <2>1, <2>2, <2>3, <2>4, <2>5, <2>6 DEF ReadStep
<1>5. ASSUME NEW c \in Client, ReadErr(c) PROVE Types'
  BY <1>5, CloseType DEF ReadErr, Leave
<1>6. ASSUME NEW c \in Client, Drop(c) PROVE Types'
  BY <1>6 DEF Drop, Cut
<1>7. ASSUME NEW s \in LockSession, NEW enabled \in BOOLEAN, SetWebWritable(s, enabled)
      PROVE  Types'
  BY <1>7 DEF SetWebWritable
<1>8. CASE Terminating
  BY <1>8 DEF Terminating
<1>9. CASE UNCHANGED vars
  BY <1>9
<1> QED
  BY <1>1, <1>2, <1>3, <1>4, <1>5, <1>6, <1>7, <1>8, <1>9 DEF Next, LockHandler

\* The helpers leave a hub without an agent without a state.
LEMMA NoStateNext == TypeOK /\ [Next]_vars => NoAgentNoState'
<1> SUFFICES ASSUME Types, NoAgentNoState, [Next]_vars PROVE NoAgentNoState'
  BY DEF TypeOK
<1> USE DEF NoAgentNoState, vars, state, Proceed
<1>1. ASSUME NEW a \in AgentConn, AgentConnect(a) PROVE NoAgentNoState'
  BY <1>1, NoConnAssumption DEF AgentConnect
<1>2. ASSUME NEW a \in AgentConn, AgentExit(a) PROVE NoAgentNoState'
  BY <1>2 DEF AgentExit, Unregister, Cut, NoEntry
<1>3. ASSUME NEW c \in Client, HandlerStep(c) PROVE NoAgentNoState'
  BY <1>3
     DEF HandlerStep, Lookup, AddClient, SetSession, Hello, FirstStatus, HasWriter,
         CheckOwnLease, SetWriter, NewWriter, ClearWriter, Snapshot, ReadWriter,
         Send, InputWriter, Forward, Passed, Refuse, Close, RemoveClient,
         RemainingClients, WasWriter, IsWriter
<1>4. ASSUME NEW c \in Client, ReadStep(c) PROVE NoAgentNoState'
  BY <1>4
     DEF ReadStep, ReadAttach, RequestWrite, ReleaseWrite, Input, Focus, PassOn, BadMessage
<1>5. ASSUME NEW c \in Client, ReadErr(c) \/ Drop(c) PROVE NoAgentNoState'
  BY <1>5 DEF ReadErr, Drop, Cut
<1>6. ASSUME NEW s \in LockSession, NEW enabled \in BOOLEAN, SetWebWritable(s, enabled)
      PROVE  NoAgentNoState'
  BY <1>6 DEF SetWebWritable
<1>7. CASE UNCHANGED vars
  BY <1>7
<1> QED
  BY <1>1, <1>2, <1>3, <1>4, <1>5, <1>6, <1>7 DEF Next, LockHandler, Terminating

LEMMA TypeNext == TypeOK /\ [Next]_vars => TypeOK'
  BY TypesNext, NoStateNext DEF TypeOK

\* Every reachable state of the hub is well typed, and without a registered
\* agent there are no clients, no lease and no lock.
THEOREM TypeCorrect == Spec => []TypeOK
  BY TypeInit, TypeNext, PTL DEF Spec
-----------------------------------------------------------------------------
(* What a step of one client's handler can change *)

ClientStep(c) == HandlerStep(c) \/ ReadStep(c) \/ ReadErr(c)

\* The local variables of a handler are its own.
LEMMA OthersUntouched ==
    ASSUME Types, NEW c \in Client, NEW d \in Client, ClientStep(c), d # c
    PROVE  /\ pc'[d] = pc[d] /\ claims'[d] = claims[d] /\ ret'[d] = ret[d]
           /\ snap'[d] = snap[d] /\ seen'[d] = seen[d] /\ link'[d] = link[d]
           /\ lawful'[d] = lawful[d]
<1> USE DEF Types, Goto, Proceed, locals, ghosts, vars
<1>1. CASE HandlerStep(c)
  <2>1. CASE Lookup(c)
    BY <2>1 DEF Lookup, Close
  <2>2. CASE AddClient(c)
    BY <2>2 DEF AddClient, Close
  <2>3. CASE SetSession(c)
    BY <2>3 DEF SetSession
  <2>4. CASE Hello(c)
    BY <2>4 DEF Hello
  <2>5. CASE FirstStatus(c)
    BY <2>5 DEF FirstStatus
  <2>6. CASE HasWriter(c)
    BY <2>6 DEF HasWriter
  <2>7. CASE CheckOwnLease(c)
    BY <2>7 DEF CheckOwnLease
  <2>8. CASE SetWriter(c)
    BY <2>8 DEF SetWriter, Broadcast
  <2>9. CASE ClearWriter(c)
    BY <2>9 DEF ClearWriter, Broadcast
  <2>10. CASE Snapshot(c)
    BY <2>10 DEF Snapshot, EndBroadcast, Close
  <2>11. CASE ReadWriter(c)
    BY <2>11 DEF ReadWriter
  <2>12. CASE Send(c)
    BY <2>12 DEF Send, EndBroadcast, Close
  <2>13. CASE InputWriter(c)
    BY <2>13 DEF InputWriter
  <2>14. CASE Forward(c)
    BY <2>14 DEF Forward
  <2>15. CASE RemoveClient(c)
    <3>1. CASE WasWriter(c)
      BY <2>15, <3>1 DEF RemoveClient, Broadcast
    <3>2. CASE ~WasWriter(c)
      BY <2>15, <3>2 DEF RemoveClient, Close
    <3> QED
      BY <3>1, <3>2
  <2>16. CASE Refuse(c) \/ Passed(c)
    BY <2>16 DEF Refuse, Passed, Close
  <2> QED
    BY <1>1, <2>1, <2>2, <2>3, <2>4, <2>5, <2>6, <2>7, <2>8, <2>9,
       <2>10, <2>11, <2>12, <2>13, <2>14, <2>15, <2>16 DEF HandlerStep
<1>2. CASE ReadStep(c)
  BY <1>2 DEF ReadStep, Close, ReadAttach, RequestWrite, ReleaseWrite, Input,
      Focus, PassOn, BadMessage
<1>3. CASE ReadErr(c)
  BY <1>3 DEF ReadErr, Leave, Close
<1> QED
  BY <1>1, <1>2, <1>3 DEF ClientStep
\* The four things a step of a handler can mean to the agent's clients and the
\* lease: nothing but perhaps a release, a client comes, goes, or is granted.
Stays(c) ==
    /\ clients' = clients
    /\ c \in InService' <=> c \in InService
    /\ c \in InService => claims'[c] = claims[c]
    /\ writer' \in {writer, NoClient}
Enters(c) ==
    /\ pc[c] = "add" /\ pc'[c] = "setsession"
    /\ clients' = clients \union {c}
    /\ claims' = claims /\ writer' = writer
Leaves(c) ==
    /\ pc[c] = "remove" /\ c \notin InService'
    /\ clients' = clients \ {c}
    /\ writer' = IF IsWriter(c) THEN NoClient ELSE writer
Takes(c) ==
    /\ pc[c] = "setwriter" /\ pc'[c] = "snapshot" /\ ret'[c] = "loop"
    /\ claims' = claims /\ clients' = clients
    /\ writer' \in {writer, c}

LEMMA StepEffect ==
    ASSUME Types, NEW c \in Client, ClientStep(c)
    PROVE  Stays(c) \/ Enters(c) \/ Leaves(c) \/ Takes(c)
<1> USE DEF Types, Goto, Proceed, locals, vars, state, InService, Serving, Broadcasting
<1>1. CASE HandlerStep(c)
  <2>1. CASE Lookup(c)
    BY <2>1 DEF Lookup, Stays, Close
  <2>2. CASE AddClient(c)
    BY <2>2 DEF AddClient, Enters, Stays, Close
  <2>3. CASE SetSession(c)
    BY <2>3 DEF SetSession, Stays
  <2>4. CASE Hello(c)
    BY <2>4 DEF Hello, Stays
  <2>5. CASE FirstStatus(c)
    BY <2>5 DEF FirstStatus, Stays
  <2>6. CASE HasWriter(c)
    BY <2>6 DEF HasWriter, Stays
  <2>7. CASE CheckOwnLease(c)
    BY <2>7 DEF CheckOwnLease, Stays
  <2>8. CASE SetWriter(c)
    BY <2>8 DEF SetWriter, Takes, Broadcast, NewWriter
  <2>9. CASE ClearWriter(c)
    BY <2>9 DEF ClearWriter, Stays, Broadcast
  <2>10. CASE Snapshot(c)
    BY <2>10 DEF Snapshot, Stays, EndBroadcast, Close
  <2>11. CASE ReadWriter(c)
    BY <2>11 DEF ReadWriter, Stays
  <2>12. CASE Send(c)
    <3>1. clients' = clients /\ writer' = writer /\ pc[c] = "send"
      BY <2>12 DEF Send
    <3>2. EndBroadcast(c) \/ UNCHANGED <<pc, claims, ret>>
      BY <2>12 DEF Send
    <3>3. CASE EndBroadcast(c)
      BY <3>1, <3>3 DEF EndBroadcast, Close, Stays
    <3>4. CASE UNCHANGED <<pc, claims, ret>>
      BY <3>1, <3>4 DEF Stays
    <3> QED
      BY <3>2, <3>3, <3>4
  <2>13. CASE InputWriter(c)
    BY <2>13 DEF InputWriter, Stays
  <2>14. CASE Forward(c)
    BY <2>14 DEF Forward, Stays
  <2>15. CASE RemoveClient(c)
    <3>1. CASE IsWriter(c)
      BY <2>15, <3>1 DEF RemoveClient, RemainingClients, WasWriter, Broadcast, Leaves
    <3>2. CASE ~IsWriter(c)
      BY <2>15, <3>2 DEF RemoveClient, RemainingClients, WasWriter, Close, Leaves
    <3> QED
      BY <3>1, <3>2
  <2>16. CASE Refuse(c)
    BY <2>16 DEF Refuse, Close, Stays
  <2>17. CASE Passed(c)
    BY <2>17 DEF Passed, Stays
  <2> QED
    BY <1>1, <2>1, <2>2, <2>3, <2>4, <2>5, <2>6, <2>7, <2>8, <2>9,
       <2>10, <2>11, <2>12, <2>13, <2>14, <2>15, <2>16, <2>17 DEF HandlerStep
<1>2. CASE ReadStep(c)
  <2>1. CASE ReadAttach(c)
    BY <2>1 DEF ReadAttach, Stays, Close
  <2>2. CASE RequestWrite(c)
    BY <2>2 DEF RequestWrite, Stays
  <2>3. CASE ReleaseWrite(c)
    BY <2>3 DEF ReleaseWrite, Stays
  <2>4. CASE Input(c)
    BY <2>4 DEF Input, Stays
  <2>5. CASE Focus(c)
    BY <2>5 DEF Focus, Stays
  <2>6. CASE PassOn(c) \/ BadMessage(c)
    BY <2>6 DEF PassOn, BadMessage, Stays
  <2> QED
    BY <1>2, <2>1, <2>2, <2>3, <2>4, <2>5, <2>6 DEF ReadStep
<1>3. CASE ReadErr(c)
  BY <1>3 DEF ReadErr, Leave, Close, Stays
<1> QED
  BY <1>1, <1>2, <1>3 DEF ClientStep
\* The steps that are no handler's leave the handlers where they are.
LEMMA OutsideStep ==
    ASSUME Types, [Next]_vars
    PROVE  \/ \E c \in Client : ClientStep(c)
           \/ /\ UNCHANGED <<pc, claims, ret, snap, seen, lawful, clash>>
              /\ \A d \in Client : link'[d] = "up" => link[d] = "up" /\ told'[d] = told[d]
              /\ \/ clients' = clients /\ writer' = writer /\ orphans' = orphans
                 \/ clients' = {} /\ writer' = NoClient
<1> USE DEF Types, vars, state, locals, ghosts
<1>1. ASSUME NEW a \in AgentConn, AgentConnect(a) \/ AgentExit(a)
      PROVE  /\ UNCHANGED <<pc, claims, ret, snap, seen, lawful, clash>>
             /\ \A d \in Client : link'[d] = "up" => link[d] = "up" /\ told'[d] = told[d]
             /\ \/ clients' = clients /\ writer' = writer /\ orphans' = orphans
                \/ clients' = {} /\ writer' = NoClient
  BY <1>1 DEF AgentConnect, AgentExit, Unregister, Cut, NoEntry
<1>2. ASSUME NEW c \in Client, Drop(c)
      PROVE  /\ UNCHANGED <<pc, claims, ret, snap, seen, lawful, clash>>
             /\ \A d \in Client : link'[d] = "up" => link[d] = "up" /\ told'[d] = told[d]
             /\ clients' = clients /\ writer' = writer /\ orphans' = orphans
  BY <1>2 DEF Drop, Cut
<1>3. ASSUME NEW s \in LockSession, NEW enabled \in BOOLEAN, SetWebWritable(s, enabled)
      PROVE  /\ UNCHANGED <<pc, claims, ret, snap, seen, lawful, clash>>
             /\ \A d \in Client : link'[d] = "up" => link[d] = "up" /\ told'[d] = told[d]
             /\ clients' = clients /\ writer' = writer /\ orphans' = orphans
  BY <1>3 DEF SetWebWritable
<1>4. CASE UNCHANGED vars
  BY <1>4
<1> QED
  BY <1>1, <1>2, <1>3, <1>4 DEF Next, LockHandler, ClientStep, Terminating

-----------------------------------------------------------------------------
(* The lease *)

LEMMA LeaseNext == TypeOK /\ LeaseInv /\ [Next]_vars => LeaseInv'
<1> SUFFICES ASSUME Types, NoAgentNoState, LeaseInv, [Next]_vars
             PROVE  WriterServes' /\ RequestsMayWrite'
  BY DEF TypeOK, LeaseInv
<1> USE DEF LeaseInv, WriterServes, RequestsMayWrite
<1>1. ASSUME NEW c \in Client, ClientStep(c)
      PROVE  WriterServes' /\ RequestsMayWrite'
  <2>1. \A d \in Client \ {c} :
           pc'[d] = pc[d] /\ claims'[d] = claims[d] /\ ret'[d] = ret[d]
    BY <1>1, OthersUntouched
  <2>2. \A d \in Client \ {c} : d \in InService' <=> d \in InService
    BY <2>1 DEF InService
  <2>3. Stays(c) \/ Enters(c) \/ Leaves(c) \/ Takes(c)
    BY <1>1, StepEffect
  <2>4. pc'[c] \in {"haswriter", "iswriter", "setwriter"} => claims'[c].write
    <3> USE DEF Types, Goto, Proceed, locals
    <3>1. CASE HandlerStep(c)
      <4>1. CASE HasWriter(c) \/ CheckOwnLease(c)
        BY <4>1 DEF HasWriter, CheckOwnLease
      <4>2. CASE RemoveClient(c)
        <5>1. CASE WasWriter(c)
          BY <4>2, <5>1 DEF RemoveClient, Broadcast
        <5>2. CASE ~WasWriter(c)
          BY <4>2, <5>2 DEF RemoveClient, Close
        <5> QED
          BY <5>1, <5>2
      <4>3. CASE Send(c) \/ Snapshot(c)
        BY <4>3 DEF Send, Snapshot, EndBroadcast, Close
      <4>4. CASE Lookup(c) \/ Refuse(c) \/ AddClient(c)
        BY <4>4 DEF Lookup, Refuse, AddClient, Close
      <4>5. CASE SetWriter(c) \/ ClearWriter(c)
        BY <4>5 DEF SetWriter, ClearWriter, Broadcast
      <4>6. CASE \/ SetSession(c) \/ Hello(c) \/ FirstStatus(c)
                 \/ ReadWriter(c) \/ InputWriter(c) \/ Forward(c) \/ Passed(c)
        BY <4>6 DEF SetSession, Hello, FirstStatus, ReadWriter, InputWriter, Forward,
                    Passed
      <4> QED
        BY <3>1, <4>1, <4>2, <4>3, <4>4, <4>5, <4>6 DEF HandlerStep
    <3>2. CASE ReadStep(c)
      BY <3>2 DEF ReadStep, ReadAttach, RequestWrite, ReleaseWrite, Input, Focus, PassOn,
                  BadMessage, Close
    <3>3. CASE ReadErr(c)
      BY <3>3 DEF ReadErr, Leave, Close
    <3> QED
      BY <1>1, <3>1, <3>2, <3>3 DEF ClientStep
  <2>5. RequestsMayWrite'
    BY <2>1, <2>4
  <2>6. CASE Stays(c)
    <3> SUFFICES ASSUME writer' # NoClient
                 PROVE  writer' \in InService' /\ claims'[writer'].write
      BY <2>5
    <3>1. writer' = writer /\ writer \in Client
      BY <2>6 DEF Stays, Types
    <3>2. writer \in InService /\ claims[writer].write
      BY <3>1
    <3>3. CASE writer = c
      BY <3>1, <3>2, <3>3, <2>6 DEF Stays
    <3>4. CASE writer # c
      BY <3>1, <3>2, <3>4, <2>1, <2>2
    <3> QED
      BY <3>3, <3>4
  <2>7. CASE Enters(c)
    BY <2>1, <2>2, <2>7, NoClientAssumption DEF Enters, InService, Serving, Broadcasting, Types
  <2>8. CASE Leaves(c)
    <3> SUFFICES ASSUME writer' # NoClient
                 PROVE  writer' \in InService' /\ claims'[writer'].write
      BY <2>5
    <3>1. writer' = writer /\ writer \in Client \ {c}
      BY <2>8 DEF Leaves, IsWriter, Types, NoAgentNoState
    <3>2. writer \in InService /\ claims[writer].write
      BY <3>1, NoClientAssumption
    <3> QED
      BY <3>1, <3>2, <2>1, <2>2
  <2>9. CASE Takes(c)
    BY <2>1, <2>2, <2>9 DEF Takes, InService, Serving, Broadcasting, Types
  <2> QED
    BY <2>3, <2>5, <2>6, <2>7, <2>8, <2>9
<1>2. CASE /\ UNCHANGED <<pc, claims, ret>>
           /\ writer' = writer \/ writer' = NoClient
  BY <1>2 DEF InService
<1> QED
  BY <1>1, <1>2, OutsideStep

\* Whoever holds the write lease is a client that may write and whose handler
\* has still to remove it.
THEOREM WriterAlwaysServes == Spec => []WriterServes
<1>1. Init => LeaseInv
  BY NoClientAssumption DEF Init, LeaseInv, WriterServes, RequestsMayWrite
<1>2. LeaseInv => WriterServes
  BY DEF LeaseInv
<1> QED
  BY <1>1, <1>2, LeaseNext, TypeCorrect, PTL DEF Spec

-----------------------------------------------------------------------------
(* The clients of the agent *)

LEMMA ClientsNext == Types /\ ClientsInv /\ [Next]_vars => ClientsInv'
<1> SUFFICES ASSUME Types, ClientsInv, [Next]_vars
             PROVE  ClientsServed' /\ AttachedUnlessOrphaned'
  BY DEF ClientsInv
<1> USE DEF ClientsInv, ClientsServed, AttachedUnlessOrphaned
<1>1. ASSUME NEW c \in Client, ClientStep(c)
      PROVE  ClientsServed' /\ AttachedUnlessOrphaned'
  <2>1. \A d \in Client \ {c} :
           pc'[d] = pc[d] /\ ret'[d] = ret[d] /\ link'[d] = link[d]
    BY <1>1, OthersUntouched
  <2>2. \A d \in Client \ {c} : d \in InService' <=> d \in InService
    BY <2>1 DEF InService
  <2>3. Stays(c) \/ Enters(c) \/ Leaves(c) \/ Takes(c)
    BY <1>1, StepEffect
  <2>4. orphans' = orphans /\ (link'[c] = "up" => link[c] = "up")
    BY <1>1 DEF ClientStep, HandlerStep, ReadStep, ReadErr, Leave, Close,
       EndBroadcast, Broadcast, Types, ghosts, locals, Lookup, AddClient, SetSession,
       Hello, FirstStatus, HasWriter, CheckOwnLease, SetWriter, ClearWriter, Snapshot,
       ReadWriter, Send, InputWriter, Forward, Passed, Refuse,
       RemoveClient, ReadAttach, RequestWrite, ReleaseWrite, Input, Focus, PassOn, BadMessage, Proceed
  <2>9. InService \subseteq Client /\ InService' \subseteq Client
    BY DEF InService
  <2>5. CASE Stays(c)
    BY <2>1, <2>2, <2>4, <2>5, <2>9 DEF Stays
  <2>6. CASE Enters(c)
    BY <2>1, <2>2, <2>4, <2>6 DEF Enters, InService, Serving, Broadcasting, Types
  <2>7. CASE Leaves(c)
    BY <2>1, <2>2, <2>4, <2>7, <2>9 DEF Leaves
  <2>8. CASE Takes(c)
    BY <2>1, <2>2, <2>4, <2>8 DEF Takes, InService, Serving, Broadcasting, Types
  <2> QED
    BY <2>3, <2>5, <2>6, <2>7, <2>8
<1>2. ASSUME NEW a \in AgentConn, AgentConnect(a)
      PROVE  ClientsServed' /\ AttachedUnlessOrphaned'
  BY <1>2 DEF AgentConnect, InService, Types, locals
<1>3. ASSUME NEW a \in AgentConn, AgentExit(a)
      PROVE  ClientsServed' /\ AttachedUnlessOrphaned'
  BY <1>3 DEF AgentExit, Unregister, Cut, NoEntry, InService, Types, locals, ghosts, state
<1>4. ASSUME NEW c \in Client, Drop(c)
      PROVE  ClientsServed' /\ AttachedUnlessOrphaned'
  BY <1>4 DEF Drop, Cut, InService, Types, locals, ghosts, state
<1>5. ASSUME NEW s \in LockSession, NEW enabled \in BOOLEAN, SetWebWritable(s, enabled)
      PROVE  ClientsServed' /\ AttachedUnlessOrphaned'
  BY <1>5 DEF SetWebWritable, InService, locals, ghosts
<1>6. CASE UNCHANGED vars
  BY <1>6 DEF vars, state, locals, ghosts, InService
<1> QED
  BY <1>1, <1>2, <1>3, <1>4, <1>5, <1>6 DEF Next, LockHandler, ClientStep, Terminating

\* The agentState lists only clients that are being served, whatever
\* registrations come between addClient and removeClient (hub.go:347, 352), ...
THEOREM ClientsAlwaysServed == Spec => []ClientsServed
<1>1. Init => ClientsInv
  BY DEF Init, ClientsInv, ClientsServed, AttachedUnlessOrphaned, InService, Serving,
     Broadcasting
<1>2. ClientsInv => ClientsServed
  BY DEF ClientsInv
<1>3. TypeOK => Types
  BY DEF TypeOK
<1> QED
  BY <1>1, <1>2, <1>3, ClientsNext, TypeCorrect, PTL DEF Spec

\* ... and every served client with an open connection, unless its agentState
\* was replaced by a registration that overlapped (hub.go:495-500).
THEOREM AlwaysAttachedUnlessOrphaned == Spec => []AttachedUnlessOrphaned
<1>1. Init => ClientsInv
  BY DEF Init, ClientsInv, ClientsServed, AttachedUnlessOrphaned, InService, Serving,
     Broadcasting
<1>2. ClientsInv => AttachedUnlessOrphaned
  BY DEF ClientsInv
<1>3. TypeOK => Types
  BY DEF TypeOK
<1> QED
  BY <1>1, <1>2, <1>3, ClientsNext, TypeCorrect, PTL DEF Spec
-----------------------------------------------------------------------------
(* Input *)

\* Only a binary message takes a handler to the checks of input.
LEMMA InputSteps ==
    ASSUME Types, NEW c \in Client, ClientStep(c), ~Input(c), ~InputWriter(c)
    PROVE  pc'[c] \notin {"inputwriter", "forward"}
<1> USE DEF Types, Goto, Proceed
<1>1. CASE HandlerStep(c)
  <2>1. CASE RemoveClient(c)
    <3>1. CASE WasWriter(c)
      BY <2>1, <3>1 DEF RemoveClient, Broadcast
    <3>2. CASE ~WasWriter(c)
      BY <2>1, <3>2 DEF RemoveClient, Close
    <3> QED
      BY <3>1, <3>2
  <2>2. CASE Send(c) \/ Snapshot(c)
    BY <2>2 DEF Send, Snapshot, EndBroadcast, Close
  <2>3. CASE Lookup(c) \/ Refuse(c) \/ AddClient(c)
    BY <2>3 DEF Lookup, Refuse, AddClient, Close
  <2>4. CASE SetWriter(c) \/ ClearWriter(c)
    BY <2>4 DEF SetWriter, ClearWriter, Broadcast
  <2>5. CASE \/ SetSession(c) \/ Hello(c) \/ FirstStatus(c) \/ HasWriter(c)
             \/ CheckOwnLease(c) \/ ReadWriter(c) \/ Forward(c) \/ Passed(c)
    BY <2>5 DEF SetSession, Hello, FirstStatus, HasWriter, CheckOwnLease,
                ReadWriter, Forward, Passed
  <2> QED
    BY <1>1, <2>1, <2>2, <2>3, <2>4, <2>5 DEF HandlerStep
<1>2. CASE ReadStep(c)
  BY <1>2 DEF ReadStep, ReadAttach, RequestWrite, ReleaseWrite, Focus, PassOn, BadMessage, Close
<1>3. CASE ReadErr(c)
  BY <1>3 DEF ReadErr, Leave, Close
<1> QED
  BY <1>1, <1>2, <1>3 DEF ClientStep

LEMMA InputNext == Types /\ InputInv /\ [Next]_vars => InputInv'
<1> SUFFICES ASSUME Types, InputInv, [Next]_vars
             PROVE  LawfulInput' /\ PendingInputLawful'
  BY DEF InputInv
<1> USE DEF InputInv, LawfulInput, PendingInputLawful
<1>1. ASSUME NEW c \in Client, ClientStep(c)
      PROVE  LawfulInput' /\ PendingInputLawful'
  <2>1. \A d \in Client \ {c} : pc'[d] = pc[d] /\ lawful'[d] = lawful[d]
    BY <1>1, OthersUntouched
  <2>2. writer' \in {writer, c, NoClient}
    BY <1>1, StepEffect DEF Stays, Enters, Leaves, Takes
  <2>3. /\ pc'[c] = "forward" => lawful'[c]
        /\ pc'[c] = "inputwriter" /\ writer' = c => lawful'[c]
    <3>1. CASE Input(c)
      <4>1. writer' = writer /\ pc'[c] = "inputwriter"
        BY <3>1 DEF Input, Goto, Types, state
      <4>2. agent # NoConn /\ write
        BY <3>1 DEF Input, WebWritable
      <4>3. lawful'[c] = (agent # NoConn /\ write /\ writer = c)
        BY <3>1, Zenon DEF Input, Types
      <4> QED
        BY <4>1, <4>2, <4>3
    <3>2. CASE InputWriter(c)
      BY <3>2 DEF InputWriter, IsWriter, Goto, Types
    <3>3. CASE ~Input(c) /\ ~InputWriter(c)
      BY <1>1, <3>3, InputSteps
    <3> QED
      BY <3>1, <3>2, <3>3
  <2> QED
    BY <2>1, <2>2, <2>3, NoClientAssumption
<1>2. CASE /\ UNCHANGED <<pc, lawful>>
           /\ writer' = writer \/ writer' = NoClient
  BY <1>2, NoClientAssumption
<1> QED
  BY <1>1, <1>2, OutsideStep

\* Input reaches the agent only if, at one instant after the frame was read,
\* its sender held the lease and the operator had not locked web input.
THEOREM InputAlwaysLawful == Spec => []LawfulInput
<1>1. Init => InputInv
  BY DEF Init, InputInv, LawfulInput, PendingInputLawful
<1>2. InputInv => LawfulInput
  BY DEF InputInv
<1>3. TypeOK => Types
  BY DEF TypeOK
<1> QED
  BY <1>1, <1>2, <1>3, InputNext, TypeCorrect, PTL DEF Spec

-----------------------------------------------------------------------------
(* The registration *)

LEMMA HandlersLeaveAgent ==
    ASSUME NEW c \in Client, ClientStep(c) \/ Drop(c)
    PROVE  UNCHANGED <<agent, aconn>>
  BY DEF ClientStep, HandlerStep, ReadStep, ReadErr, Drop, Cut, Lookup, AddClient,
     SetSession, Hello, FirstStatus, HasWriter, CheckOwnLease, SetWriter, ClearWriter,
     Snapshot, ReadWriter, Send, InputWriter, Forward, Passed, Refuse, Close,
     RemoveClient, ReadAttach, RequestWrite, ReleaseWrite, Input, Focus, PassOn, BadMessage, Proceed, state

LEMMA RegisteredNext ==
    ASSUME Types, RegisteredServes, [Next]_vars
    PROVE  /\ RegisteredServes'
           /\ \A a \in AgentConn :
                 agent = a /\ agent' # a =>
                     \/ aconn'[a] = "done"
                     \/ agent' \in AgentConn /\ aconn[agent'] = "new"
<1> USE DEF RegisteredServes, Types
<1>1. ASSUME NEW a \in AgentConn, AgentConnect(a)
      PROVE  RegisteredServes' /\ agent' \in AgentConn /\ aconn[agent'] = "new"
  BY <1>1 DEF AgentConnect
<1>2. ASSUME NEW a \in AgentConn, AgentExit(a)
      PROVE  /\ RegisteredServes'
             /\ \/ agent' = agent
                \/ agent = a /\ aconn'[a] = "done"
  BY <1>2 DEF AgentExit, Unregister, Cut, NoEntry, state
<1>3. CASE UNCHANGED <<agent, aconn>>
  BY <1>3
<1>4. ASSUME NEW s \in LockSession, NEW enabled \in BOOLEAN, SetWebWritable(s, enabled)
      PROVE  UNCHANGED <<agent, aconn>>
  BY <1>4 DEF SetWebWritable
<1> QED
  BY <1>1, <1>2, <1>3, <1>4, HandlersLeaveAgent
     DEF Next, LockHandler, ClientStep, Terminating, vars, state

\* Only its own end or a newer connection takes the place of a registered one.
THEOREM OldConnectionAlwaysHarmless == Spec => OldConnectionHarmless
<1>1. Init => RegisteredServes
  BY DEF Init, RegisteredServes
<1>2. TypeOK => Types
  BY DEF TypeOK
<1>3. Types /\ RegisteredServes /\ [Next]_vars => RegisteredServes'
  BY RegisteredNext
<1>4. Types /\ RegisteredServes /\ [Next]_vars =>
        [\A a \in AgentConn :
           agent = a /\ agent' # a =>
               \/ aconn'[a] = "done"
               \/ agent' \in AgentConn /\ aconn[agent'] = "new"]_vars
  BY RegisteredNext
<1> QED
  BY <1>1, <1>2, <1>3, <1>4, TypeCorrect, PTL DEF Spec, OldConnectionHarmless
-----------------------------------------------------------------------------
(* The hub implements the abstract lease *)

LEMMA LeaseStep ==
    ASSUME Types, NoAgentNoState, LeaseInv, [Next]_vars
    PROVE  [Lease!Next]_(Lease!vars)
<1> DEFINE writers == {d \in InService : claims[d].write}
<1> USE DEF Lease!Next, Lease!vars
<1>1. ASSUME NEW c \in Client, ClientStep(c)
      PROVE  [Lease!Next]_(Lease!vars)
  <2>1. \A d \in Client \ {c} :
           pc'[d] = pc[d] /\ claims'[d] = claims[d] /\ ret'[d] = ret[d]
    BY <1>1, OthersUntouched
  <2>2. \A d \in Client \ {c} : d \in InService' <=> d \in InService
    BY <2>1 DEF InService
  <2>3. InService \subseteq Client /\ InService' \subseteq Client
    BY DEF InService
  <2>4. Stays(c) \/ Enters(c) \/ Leaves(c) \/ Takes(c)
    BY <1>1, StepEffect
  <2>5. CASE Stays(c)
    <3>1. InService' = InService
      BY <2>2, <2>3, <2>5 DEF Stays
    <3>2. writers' = writers
      BY <2>1, <2>3, <2>5, <3>1 DEF Stays
    <3>3. CASE writer' = writer
      BY <3>1, <3>2, <3>3
    <3>4. CASE writer' # writer
      BY <3>1, <3>2, <3>4, <2>5 DEF Stays, Lease!Drop
    <3> QED
      BY <3>3, <3>4
  <2>6. CASE Enters(c)
    <3>1. c \notin InService /\ c \in InService'
      BY <2>6 DEF Enters, InService, Serving, Broadcasting
    <3>2. InService' = InService \union {c}
      BY <2>2, <2>3, <3>1
    <3>3. writers' \in {writers, writers \union {c}}
      BY <3>2, <2>6 DEF Enters
    <3>4. writer' = writer
      BY <2>6 DEF Enters
    <3> QED
      BY <3>1, <3>2, <3>3, <3>4 DEF Lease!Join
  <2>7. CASE Leaves(c)
    <3>1. c \in InService /\ c \notin InService'
      BY <2>7 DEF Leaves, InService, Serving
    <3>2. InService' = InService \ {c}
      BY <2>2, <2>3, <3>1
    <3>3. writers' = writers \ {c}
      BY <2>1, <2>3, <3>2
    <3>4. writer' = IF writer = c THEN NoClient ELSE writer
      BY <2>7, NoClientAssumption DEF Leaves, IsWriter, NoAgentNoState
    <3> QED
      BY <3>1, <3>2, <3>3, <3>4 DEF Lease!Leave
  <2>8. CASE Takes(c)
    <3>1. c \in InService /\ c \in InService'
      BY <2>8 DEF Takes, InService, Serving, Broadcasting
    <3>2. InService' = InService
      BY <2>2, <2>3, <3>1
    <3>3. writers' = writers
      BY <3>2, <2>8 DEF Takes
    <3>4. c \in writers
      BY <3>1, <2>8 DEF Takes, LeaseInv, RequestsMayWrite
    <3>5. CASE writer' = writer
      BY <3>2, <3>3, <3>5
    <3>6. CASE writer' = c
      BY <3>2, <3>3, <3>4, <3>6 DEF Lease!Take
    <3> QED
      BY <3>5, <3>6, <2>8 DEF Takes
  <2> QED
    BY <2>4, <2>5, <2>6, <2>7, <2>8
<1>2. ASSUME UNCHANGED <<pc, claims, ret>>,
             writer' = writer \/ writer' = NoClient
      PROVE  [Lease!Next]_(Lease!vars)
  <2>1. InService' = InService /\ writers' = writers
    BY <1>2 DEF InService
  <2> QED
    BY <1>2, <2>1 DEF Lease!Drop
<1> QED
  BY <1>1, <1>2, OutsideStep

\* Every behaviour of the hub is one of the abstract lease: members come and
\* go, and only a member that may write is ever given the lease.
THEOREM HubImplementsLease == Spec => ImplementsLease
<1>1. Init => Lease!Init
  BY DEF Init, Lease!Init, InService, Serving, Broadcasting
<1>2. Init => LeaseInv
  BY NoClientAssumption DEF Init, LeaseInv, WriterServes, RequestsMayWrite
<1>3. TypeOK /\ LeaseInv /\ [Next]_vars => [Lease!Next]_(Lease!vars)
  BY LeaseStep DEF TypeOK
<1> QED
  BY <1>1, <1>2, <1>3, LeaseNext, TypeCorrect, PTL DEF Spec, ImplementsLease, Lease!Spec
-----------------------------------------------------------------------------
(* What clients are told *)

\* The five things a step of a handler can mean to the broadcasts: the writer
\* may have changed and a broadcast begins; the three steps of a broadcast; or
\* something else, perhaps a client's first status.
Begins(c) ==
    /\ pc[c] \in {"setwriter", "clearwriter", "remove"} /\ pc'[c] = "snapshot"
    /\ clash' = \E d \in Client \ {c} : Busy(d)
    /\ clients' \subseteq clients
    /\ snap' = snap /\ seen' = seen /\ told' = told /\ link' = link
Snapshots(c) ==
    /\ pc[c] = "snapshot" /\ pc'[c] = "readwriter"
    /\ snap'[c] = clients
    /\ clients' = clients /\ writer' = writer /\ clash' = clash
    /\ told' = told /\ link' = link
Reads(c) ==
    /\ pc[c] = "readwriter" /\ pc'[c] = "send"
    /\ seen'[c] = writer
    /\ clients' = clients /\ writer' = writer /\ clash' = clash
    /\ snap' = snap /\ told' = told /\ link' = link
Sends(c) ==
    /\ pc[c] = "send"
    /\ \E d \in snap[c] : Tell(d, d = seen[c]) /\ snap'[c] = snap[c] \ {d}
    /\ \/ pc'[c] = "send" /\ seen'[c] = seen[c]
       \/ pc'[c] \in {"loop", "closed"} /\ snap'[c] = {}
    /\ clients' = clients /\ writer' = writer /\ clash' = clash
    /\ link'[c] = "up" => link[c] = "up"
Else(c) ==
    /\ \/ ~Busy(c)
       \/ pc[c] = "snapshot" /\ clients = {}
    /\ pc'[c] \notin Broadcasting
    /\ pc[c] \notin {"new", "lookup", "add"} => pc'[c] \notin {"new", "lookup", "add"}
    /\ snap'[c] \subseteq snap[c]
    /\ writer' = writer /\ clash' = clash
    /\ link'[c] = "up" => link[c] = "up"
    /\ \/ clients' \subseteq clients
       \/ pc[c] = "add" /\ pc'[c] = "setsession" /\ clients' = clients \union {c}
    /\ \/ told' = told
       \/ pc[c] = "firststatus" /\ Tell(c, IsWriter(c))
    /\ \/ pc'[c] \in {"setsession", "hello", "firststatus"}
       \/ pc[c] \notin {"setsession", "hello", "firststatus"}
       \/ pc[c] = "firststatus" /\ Tell(c, IsWriter(c))
       \/ link'[c] = "down"

LEMMA BroadcastEffect ==
    ASSUME Types, NoAgentNoState, NEW c \in Client, ClientStep(c)
    PROVE  Begins(c) \/ Snapshots(c) \/ Reads(c) \/ Sends(c) \/ Else(c)
<1> USE DEF Types, Goto, Proceed, state, locals, ghosts, Busy, Broadcasting
<1>1. CASE HandlerStep(c)
  <2>1. CASE Lookup(c)
    BY <2>1 DEF Lookup, Close, Else
  <2>2. CASE AddClient(c)
    BY <2>2 DEF AddClient, Close, Else
  <2>3. CASE SetSession(c)
    BY <2>3 DEF SetSession, Else
  <2>4. CASE Hello(c)
    BY <2>4 DEF Hello, Else
  <2>5. CASE FirstStatus(c)
    BY <2>5 DEF FirstStatus, Else
  <2>6. CASE HasWriter(c) \/ CheckOwnLease(c)
    BY <2>6 DEF HasWriter, CheckOwnLease, Else
  <2>7. CASE SetWriter(c)
    BY <2>7 DEF SetWriter, Broadcast, Begins
  <2>8. CASE ClearWriter(c)
    BY <2>8 DEF ClearWriter, Broadcast, Begins
  <2>9. CASE Snapshot(c)
    <3>1. CASE clients = {}
      BY <2>9, <3>1 DEF Snapshot, Recipients, EndBroadcast, Close, Else
    <3>2. CASE clients # {}
      BY <2>9, <3>2 DEF Snapshot, Recipients, Snapshots
    <3> QED
      BY <3>1, <3>2
  <2>10. CASE ReadWriter(c)
    BY <2>10 DEF ReadWriter, Reads
  <2>11. CASE Send(c)
    <3>1. PICK d \in snap[c] :
              /\ Tell(d, d = seen[c])
              /\ IF snap[c] = {d}
                 THEN EndBroadcast(c)
                 ELSE /\ snap' = [snap EXCEPT ![c] = @ \ {d}]
                      /\ UNCHANGED <<pc, link, claims, handle, focus, seen, ret>>
      BY <2>11 DEF Send
    <3>2. clients' = clients /\ writer' = writer /\ clash' = clash /\ pc[c] = "send"
      BY <2>11 DEF Send
    <3>3. CASE snap[c] = {d}
      <4>1. /\ snap'[c] = {} /\ pc'[c] \in {"loop", "closed"}
            /\ link'[c] = "up" => link[c] = "up"
        BY <3>1, <3>3 DEF EndBroadcast, Close
      <4> QED
        BY <3>1, <3>2, <3>3, <4>1 DEF Sends
    <3>4. CASE snap[c] # {d}
      BY <3>1, <3>2, <3>4 DEF Sends
    <3> QED
      BY <3>3, <3>4
  <2>12. CASE InputWriter(c)
    BY <2>12 DEF InputWriter, Else
  <2>13. CASE Forward(c)
    BY <2>13 DEF Forward, Else
  <2>14. CASE RemoveClient(c)
    <3>1. CASE WasWriter(c)
      BY <2>14, <3>1 DEF RemoveClient, RemainingClients, Broadcast, Begins
    <3>2. CASE ~WasWriter(c)
      BY <2>14, <3>2 DEF RemoveClient, RemainingClients, Close, Else
    <3> QED
      BY <3>1, <3>2
  <2>15. CASE Refuse(c)
    BY <2>15 DEF Refuse, Close, Else
  <2>16. CASE Passed(c)
    BY <2>16 DEF Passed, Else
  <2> QED
    BY <1>1, <2>1, <2>2, <2>3, <2>4, <2>5, <2>6, <2>7, <2>8, <2>9, <2>10,
       <2>11, <2>12, <2>13, <2>14, <2>15, <2>16 DEF HandlerStep
<1>2. CASE ReadStep(c)
  <2>1. CASE ReadAttach(c)
    BY <2>1 DEF ReadAttach, Close, Else
  <2>2. CASE RequestWrite(c) \/ ReleaseWrite(c) \/ PassOn(c) \/ BadMessage(c)
    BY <2>2 DEF RequestWrite, ReleaseWrite, PassOn, BadMessage, Else
  <2>3. CASE Input(c)
    BY <2>3 DEF Input, Else
  <2>4. CASE Focus(c)
    BY <2>4 DEF Focus, Else
  <2> QED
    BY <1>2, <2>1, <2>2, <2>3, <2>4 DEF ReadStep
<1>3. CASE ReadErr(c)
  BY <1>3 DEF ReadErr, Leave, Close, Else
<1> QED
  BY <1>1, <1>2, <1>3 DEF ClientStep
LEMMA BroadcastNext ==
    ASSUME Types, NoAgentNoState, ClientsServed, BroadcastInv, [Next]_vars
    PROVE  BroadcastInv'
<1> SUFFICES OneBroadcast' /\ ToldAreAdded' /\ SeenIsTrue' /\ ToldOrPending'
  BY DEF BroadcastInv
<1> USE DEF BroadcastInv, OneBroadcast, ToldAreAdded, SeenIsTrue, ToldOrPending, WillBeTold,
            Greeted, Busy
<1>1. ASSUME NEW c \in Client, ClientStep(c)
      PROVE  OneBroadcast' /\ ToldAreAdded' /\ SeenIsTrue' /\ ToldOrPending'
  <2>1. \A d \in Client \ {c} :
           /\ pc'[d] = pc[d] /\ snap'[d] = snap[d] /\ seen'[d] = seen[d]
           /\ link'[d] = link[d]
    BY <1>1, OthersUntouched
  <2>2. clients \subseteq Client /\ \A b \in Client : snap[b] \subseteq Client
    BY DEF Types
  <2>3. CASE Begins(c)
    <3>1. OneBroadcast'
      BY <2>1, <2>3 DEF Begins
    <3>2. ToldAreAdded'
      BY <2>1, <2>2, <2>3 DEF Begins
    <3>3. SeenIsTrue'
      BY <2>1, <2>3 DEF Begins, Broadcasting
    <3>4. ToldOrPending'
      BY <2>3 DEF Begins
    <3> QED
      BY <3>1, <3>2, <3>3, <3>4
  <2>4. CASE Snapshots(c)
    <3>1. OneBroadcast'
      BY <2>1, <2>4 DEF Snapshots, Broadcasting
    <3>2. ToldAreAdded'
      BY <2>1, <2>2, <2>4
         DEF Snapshots, ClientsServed, InService, Serving, Broadcasting
    <3>3. SeenIsTrue'
      BY <2>1, <2>4 DEF Snapshots
    <3>4. ToldOrPending'
      BY <2>4 DEF Snapshots
    <3> QED
      BY <3>1, <3>2, <3>3, <3>4
  <2>5. CASE Reads(c)
    <3>1. OneBroadcast'
      BY <2>1, <2>5 DEF Reads, Broadcasting
    <3>2. ToldAreAdded'
      BY <2>1, <2>2, <2>5 DEF Reads
    <3>3. SeenIsTrue'
      BY <2>1, <2>5 DEF Reads
    <3>4. ToldOrPending'
      BY <2>1, <2>2, <2>5 DEF Reads
    <3> QED
      BY <3>1, <3>2, <3>3, <3>4
  <2>6. CASE Sends(c)
    <3>1. OneBroadcast'
      BY <2>1, <2>6 DEF Sends, Broadcasting
    <3>2. ToldAreAdded'
      BY <2>1, <2>2, <2>6 DEF Sends
    <3>3. SeenIsTrue'
      BY <2>1, <2>6 DEF Sends
    <3>4. ASSUME ~clash, NEW m \in clients, Greeted(m)', link'[m] = "up"
          PROVE  (told'[m] = "writer" <=> writer' = m) \/ WillBeTold(m)'
      <4>1. PICK d \in snap[c] : Tell(d, d = seen[c]) /\ snap'[c] = snap[c] \ {d}
        BY <2>6 DEF Sends
      <4>2. Greeted(m) /\ link[m] = "up" /\ m \in Client /\ writer' = writer
        BY <2>1, <2>2, <2>6, <3>4 DEF Sends
      <4>3. CASE m = d
        <5>1. seen[c] = writer
          BY <3>4, <4>1, <4>3, <2>6 DEF Sends
        <5>2. told'[m] = IF m = seen[c] THEN "writer" ELSE "viewer"
          BY <4>1, <4>2, <4>3 DEF Tell, Types
        <5> QED
          BY <5>1, <5>2, <4>2
      <4>4. CASE m # d
        <5>1. told'[m] = told[m]
          BY <4>1, <4>2, <4>4 DEF Tell, Types
        <5>2. WillBeTold(m) => WillBeTold(m)'
          BY <2>1, <2>6, <4>1, <4>4 DEF Sends
        <5> QED
          BY <3>4, <4>2, <5>1, <5>2
      <4> QED
        BY <4>3, <4>4
    <3>5. ToldOrPending'
      BY <3>4, <2>6 DEF Sends
    <3> QED
      BY <3>1, <3>2, <3>3, <3>5
  <2>7. CASE Else(c)
    <3>1. OneBroadcast'
      BY <2>1, <2>7 DEF Else
    <3>2. ToldAreAdded'
      BY <2>1, <2>2, <2>7 DEF Else
    <3>3. SeenIsTrue'
      BY <2>1, <2>2, <2>7 DEF Else, Broadcasting
    <3>4. ASSUME ~clash, NEW m \in clients', Greeted(m)', link'[m] = "up"
          PROVE  (told'[m] = "writer" <=> writer' = m) \/ WillBeTold(m)'
      <4>1. m \in clients /\ writer' = writer /\ link[m] = "up"
        BY <2>1, <2>2, <2>7, <3>4 DEF Else
      <4>2. WillBeTold(m) => WillBeTold(m)'
        BY <2>1, <2>7, <4>1 DEF Else, Broadcasting
      <4>3. CASE pc[c] = "firststatus" /\ m = c /\ Tell(c, IsWriter(c))
        <5>1. told'[c] = IF IsWriter(c) THEN "writer" ELSE "viewer"
          BY <4>1, <4>3 DEF Tell, Types
        <5>2. IsWriter(c) <=> writer = c
          BY NoClientAssumption DEF IsWriter, NoAgentNoState
        <5> QED
          BY <5>1, <5>2, <4>1, <4>3
      <4>4. CASE ~(pc[c] = "firststatus" /\ m = c /\ Tell(c, IsWriter(c)))
        <5>1. Greeted(m)
          BY <2>1, <2>2, <2>7, <3>4, <4>1, <4>4 DEF Else
        <5>2. told'[m] = told[m]
          BY <2>7, <4>4, <5>1 DEF Else, Tell, Types
        <5> QED
          BY <3>4, <4>1, <4>2, <5>1, <5>2
      <4> QED
        BY <4>3, <4>4
    <3>5. ToldOrPending'
      BY <3>4, <2>7 DEF Else
    <3> QED
      BY <3>1, <3>2, <3>3, <3>5
  <2> QED
    BY <1>1, <2>3, <2>4, <2>5, <2>6, <2>7, BroadcastEffect
<1>2. ASSUME UNCHANGED <<pc, snap, seen, clash>>,
             \A d \in Client : link'[d] = "up" => link[d] = "up" /\ told'[d] = told[d],
             (clients' = clients /\ writer' = writer) \/ clients' = {}
      PROVE  OneBroadcast' /\ ToldAreAdded' /\ SeenIsTrue' /\ ToldOrPending'
  BY <1>2 DEF Types
<1> QED
  BY <1>1, <1>2, OutsideStep

\* Once nobody broadcasts, every client was last told the truth about the
\* lease, unless the writer changed last while another handler broadcast.
THEOREM AlwaysToldWhenQuiet == Spec => []ToldWhenQuiet
<1>1. Init => ClientsInv /\ BroadcastInv
  BY DEF Init, ClientsInv, ClientsServed, AttachedUnlessOrphaned, InService, Serving,
     Broadcasting, BroadcastInv, OneBroadcast, ToldAreAdded, SeenIsTrue,
     ToldOrPending, Busy
<1>2. TypeOK /\ ClientsInv /\ BroadcastInv /\ [Next]_vars => ClientsInv' /\ BroadcastInv'
  BY ClientsNext, BroadcastNext DEF TypeOK, ClientsInv
<1>3. BroadcastInv => ToldWhenQuiet
  BY DEF BroadcastInv, ToldOrPending, ToldWhenQuiet, ToldTruth, Quiet, Busy, WillBeTold,
     Broadcasting
<1> QED
  BY <1>1, <1>2, <1>3, TypeCorrect, PTL DEF Spec
=============================================================================
