--------------------------- MODULE Commands_proofs ---------------------------
(***************************************************************************)
(* Proofs about the processes at one address, for any number of starts, of *)
(* clients and of combinations of flags.                                   *)
(***************************************************************************)
EXTENDS Commands, TLAPS

USE CommandsAssumption DEF Proc

\* A process that runs has a command; one that does not holds no address; and
\* processes are numbered by their start.
Running ==
    /\ starts \in 0..MaxStarts
    /\ \A p \in Proc : main[p] # "none" => prog[p] \in Program /\ p <= starts
    /\ \A p \in Proc : main[p] = "none" => server[p] = "none"

\* An agent is connected to one hub at a time.
OneHub == \A h, k \in Proc : h # k => conns[h] \intersect conns[k] = {}

\* A token was issued by a hub with its secret, for the time that hub was given.
Issued ==
    \A c \in Client : token[c] # None =>
        \E f \in Program : token[c].secret = f.secret /\ token[c].ttl = Lifetime(f.ttl)

IInv == TypeOK /\ Running /\ OneHub /\ ConnectedMeansRegistered /\ Issued

LEMMA InvInit == Init => IInv
<1> SUFFICES ASSUME Init PROVE IInv
  OBVIOUS
<1>1. done \in [Proc -> BOOLEAN]
  BY Zenon DEF Init
<1>2. prog = [p \in Proc |-> None]
  BY DEF Init
<1>3. TypeOK
  BY <1>1, <1>2 DEF Init, TypeOK
<1>4. Running /\ OneHub /\ ConnectedMeansRegistered /\ Issued
  BY DEF Init, Running, OneHub, ConnectedMeansRegistered, Issued
<1> QED
  BY <1>3, <1>4 DEF IInv

-----------------------------------------------------------------------------
(* The steps *)

LEMMA ExitKeeps ==
    ASSUME IInv, NEW p \in Proc, Exit(p)
    PROVE  IInv'
<1> USE DEF IInv, TypeOK
<1>1. done' \in [Proc -> BOOLEAN]
  BY DEF Exit
<1>2. TypeOK'
  BY <1>1 DEF Exit
<1>3. Running'
  BY DEF Exit, Running
<1>4. OneHub' /\ Issued'
  BY DEF Exit, OneHub, Issued
<1>5. ConnectedMeansRegistered'
  BY DEF Exit, OneHub, ConnectedMeansRegistered
<1> QED
  BY <1>2, <1>3, <1>4, <1>5

\* What depends on the agents alone, and on the tokens alone.
LEMMA Frame ==
    ASSUME IInv
    PROVE  /\ UNCHANGED agents => OneHub' /\ ConnectedMeansRegistered'
           /\ UNCHANGED token => Issued'
  BY DEF IInv, agents, OneHub, ConnectedMeansRegistered, Issued

LEMMA ProcessesKeep ==
    ASSUME IInv, NEW p \in Proc,
           (\E f \in Program : Start(p, f)) \/ Signal(p) \/ ServerStep(p)
    PROVE  IInv'
<1> USE DEF TypeOK, Running, OneHub, ConnectedMeansRegistered, Issued
<1>1. ASSUME NEW f \in Program, Start(p, f) PROVE IInv'
  BY <1>1 DEF IInv, Start, clients
<1>2. CASE Listen(p) /\ ~Exit(p)
  <2>1. /\ server[p] = "starting" /\ holder = None /\ holder' = p
        /\ server' = [server EXCEPT ![p] = "listening"]
        /\ UNCHANGED <<prog, main, done, starts, agents, clients>>
    BY <1>2 DEF Listen
  <2>2. TypeOK /\ Running
    BY DEF IInv
  <2>3. \A q \in Proc : server'[q] = "listening" <=> holder' = q
    BY <2>1, <2>2
  <2>4. TypeOK'
    BY <2>1, <2>2, <2>3 DEF agents, clients
  <2>5. Running'
    BY <2>1, <2>2
  <2> QED
    BY <2>1, <2>4, <2>5, Frame DEF IInv, clients
<1>3. CASE Signal(p) /\ ~Exit(p)
  <2>1. /\ main[p] # "none" /\ done' = [done EXCEPT ![p] = TRUE]
        /\ UNCHANGED <<prog, main, server, holder, starts, agents, clients>>
    BY <1>3 DEF Signal
  <2>2. TypeOK /\ Running
    BY DEF IInv
  <2>3. done' \in [Proc -> BOOLEAN]
    BY <2>1, <2>2
  <2>4. \A q \in Proc : main[q] = "none" => ~done'[q]
    BY <2>1, <2>2
  <2>5. TypeOK'
    BY <2>1, <2>2, <2>3, <2>4 DEF agents, clients
  <2>6. Running'
    BY <2>1, <2>2
  <2> QED
    BY <2>1, <2>5, <2>6, Frame DEF IInv, clients
<1>4. CASE Drain(p)
  BY <1>4 DEF IInv, Drain, agents, clients
<1>5. CASE Exit(p)
  BY <1>5, ExitKeeps
<1> QED
  BY <1>1, <1>2, <1>3, <1>4, <1>5 DEF ServerStep, MainReturns

LEMMA DialKeeps ==
    ASSUME IInv, NEW p \in Proc, Dial(p)
    PROVE  IInv'
<1>1. TypeOK /\ Running /\ OneHub /\ ConnectedMeansRegistered
  BY DEF IInv
<1>2. /\ loop[p] = "dial" /\ \A h \in Proc : p \notin conns[h]
      /\ UNCHANGED processes /\ UNCHANGED clients
  BY DEF Dial
<1>3. Issued' /\ Running'
  BY <1>1, <1>2, Frame DEF processes, clients, Running
<1>4. CASE loop' = [loop EXCEPT ![p] = "retry"] /\ UNCHANGED <<link, conns, agent, displaced>>
  <2>1. TypeOK'
    BY <1>1, <1>2, <1>4 DEF TypeOK, processes, clients
  <2> QED
    BY <1>1, <1>3, <1>4, <2>1 DEF IInv, OneHub, ConnectedMeansRegistered
<1>5. CASE /\ holder # None
           /\ loop' = [loop EXCEPT ![p] = "run"]
           /\ link' = [link EXCEPT ![p] = holder]
           /\ conns' = [conns EXCEPT ![holder] = @ \union {p}]
           /\ agent' = [agent EXCEPT ![holder] = p]
           /\ displaced' = displaced \union conns[holder]
  <2>1. holder \in Proc /\ main[holder] # "none"
    BY <1>1, <1>5 DEF TypeOK, Running
  <2>2. \A q \in Proc : main[q] = "none" => loop'[q] = "none" /\ conns'[q] = {}
    BY <1>1, <1>2, <1>5, <2>1 DEF TypeOK
  <2>a. loop' \in [Proc -> {"none", "dial", "run", "retry"}]
    BY <1>1, <1>5 DEF TypeOK
  <2>b. link' \in [Proc -> Proc \union {None}] /\ agent' \in [Proc -> Proc \union {None}]
    BY <1>1, <1>5, <2>1 DEF TypeOK
  <2>c. conns' \in [Proc -> SUBSET Proc] /\ displaced' \subseteq Proc
    BY <1>1, <1>5, <2>1 DEF TypeOK
  <2>3. TypeOK'
    BY <1>1, <1>2, <2>2, <2>a, <2>b, <2>c DEF TypeOK, processes, clients
  <2>4. OneHub'
    BY <1>1, <1>2, <1>5, <2>1 DEF TypeOK, OneHub
  <2>5. ConnectedMeansRegistered'
    BY <1>1, <1>2, <1>5, <2>1 DEF TypeOK, ConnectedMeansRegistered
  <2> QED
    BY <1>3, <2>3, <2>4, <2>5 DEF IInv
<1> QED
  BY <1>4, <1>5 DEF Dial

LEMMA AgentsKeep ==
    ASSUME IInv, NEW p \in Proc, AgentStep(p) \/ \E h \in Proc : HubNotices(h, p)
    PROVE  IInv'
<1>0. TypeOK /\ Running /\ OneHub /\ ConnectedMeansRegistered
  BY DEF IInv
\* RunWithRetry goes on, or returns.
<1>1. ASSUME NEW l \in {"none", "dial", "retry"}, loop[p] # "none",
             loop' = [loop EXCEPT ![p] = l],
             link' \in {link, [link EXCEPT ![p] = None]},
             UNCHANGED <<processes, conns, agent, displaced, clients>>
      PROVE  IInv'
  <2>1. link' \in [Proc -> Proc \union {None}] /\ loop' \in [Proc -> {"none", "dial", "run", "retry"}]
    BY <1>0, <1>1 DEF TypeOK
  <2>2. \A q \in Proc : main[q] = "none" => loop'[q] = "none"
    BY <1>0, <1>1 DEF TypeOK
  <2>3. TypeOK'
    BY <1>0, <1>1, <2>1, <2>2 DEF TypeOK, processes, clients
  <2> QED
    BY <1>0, <1>1, <2>3, Frame DEF IInv, Running, OneHub, ConnectedMeansRegistered, processes,
                                   clients
<1>2. CASE Retry(p)
  BY <1>1, <1>2 DEF Retry, AfterPause
<1>3. CASE RunEnds(p)
  BY <1>1, <1>3 DEF RunEnds
<1>4. CASE AgentStops(p)
  BY <1>1, <1>4, ExitKeeps DEF AgentStops
<1>5. ASSUME NEW h \in Proc, HubNotices(h, p) PROVE IInv'
  BY <1>5 DEF HubNotices, Remaining, processes, IInv, TypeOK, Running, OneHub,
              ConnectedMeansRegistered, Issued
<1> QED
  BY <1>2, <1>3, <1>4, <1>5, DialKeeps DEF AgentStep

LEMMA RequestsKeep ==
    ASSUME IInv, NEW c \in Client,
           Connect(c) \/ Disconnect(c) \/ AskSessions(c) \/ Answer(c)
    PROVE  IInv'
<1>1. TypeOK /\ Running
  BY DEF IInv
<1>2. /\ UNCHANGED processes /\ UNCHANGED agents /\ UNCHANGED token
      /\ \/ visit' = [visit EXCEPT ![c] = Nothing]
         \/ holder # None /\ \E w \in {"socket", "request"} :
                                  visit' = [visit EXCEPT ![c] = Visit(holder, w)]
  BY DEF Connect, Disconnect, AskSessions, Answer
<1>3. visit' \in [Client -> {Nothing} \union [hub : Proc, what : {"socket", "request"}]]
  <2> DEFINE V == {Nothing} \union [hub : Proc, what : {"socket", "request"}]
  <2>1. visit \in [Client -> V] /\ Nothing \in V
    BY <1>1 DEF TypeOK
  <2>2. ASSUME NEW w \in {"socket", "request"}, holder # None PROVE Visit(holder, w) \in V
    BY <1>1, <2>2 DEF TypeOK, Visit
  <2> HIDE DEF V
  <2>3. visit' \in [Client -> V]
    BY <1>2, <2>1, <2>2
  <2> QED
    BY <2>3 DEF V
<1>4. TypeOK'
  BY <1>1, <1>2, <1>3 DEF TypeOK, processes, agents
<1> QED
  BY <1>1, <1>2, <1>4, Frame DEF IInv, Running, processes

LEMMA TokensKeep ==
    ASSUME IInv, Tick \/ \E c \in Client : IssueToken(c)
    PROVE  TypeOK' /\ Issued' /\ UNCHANGED <<processes, agents, visit>>
<1>1. TypeOK /\ Running /\ Issued
  BY DEF IInv
<1>2. CASE Tick
  <2>1. UNCHANGED <<processes, agents, visit>>
    BY <1>2 DEF Tick
  <2>2. token' = [c \in Client |-> IF token[c] = None \/ token[c].age >= MaxAge THEN token[c]
                                  ELSE [token[c] EXCEPT !.age = @ + 60]]
    BY <1>2 DEF Tick
  <2>3. ASSUME NEW c \in Client
        PROVE  /\ token'[c] \in TokenType \union {None}
               /\ token'[c] # None => /\ token[c] # None
                                      /\ token'[c].secret = token[c].secret
                                      /\ token'[c].ttl = token[c].ttl
    <3>1. CASE token'[c] = token[c]
      BY <1>1, <3>1 DEF TypeOK
    <3>2. CASE /\ token[c] # None
               /\ token'[c] = [token[c] EXCEPT !.age = token[c].age + 60]
      <4>1. token[c] \in TokenType
        BY <1>1, <3>2 DEF TypeOK
      <4> QED
        BY <3>2, <4>1 DEF TokenType
    <3> QED
      BY <2>2, <3>1, <3>2
  <2>4. token' \in [Client -> TokenType \union {None}]
    BY <2>2, <2>3
  <2> QED
    BY <1>1, <2>1, <2>3, <2>4 DEF TypeOK, Issued, processes, agents
<1>3. ASSUME NEW c \in Client, IssueToken(c)
      PROVE  TypeOK' /\ Issued' /\ UNCHANGED <<processes, agents, visit>>
  <2> DEFINE f == prog[holder]
             t == [secret |-> f.secret, age |-> 0, ttl |-> Lifetime(f.ttl)]
  <2>1. UNCHANGED <<processes, agents, visit>> /\ token' = [token EXCEPT ![c] = t]
    BY <1>3 DEF IssueToken
  <2>2. holder \in Proc /\ server[holder] = "listening"
    BY <1>1, <1>3 DEF IssueToken, TypeOK
  <2>3. f \in Program
    BY <1>1, <2>2 DEF Running
  <2>4. f.secret \in STRING /\ f.ttl \in Int
    BY <2>3 DEF Flags
  <2>5. t \in TokenType /\ t.secret = f.secret /\ t.ttl = Lifetime(f.ttl)
    BY <2>4 DEF TokenType, Lifetime
  <2> HIDE DEF t, f
  <2>6. TypeOK'
    BY <1>1, <2>1, <2>5 DEF TypeOK, processes, agents
  <2>7. Issued'
    BY <1>1, <2>1, <2>3, <2>5 DEF Issued, TypeOK
  <2> QED
    BY <2>1, <2>6, <2>7
<1> QED
  BY <1>2, <1>3

LEMMA InvStep == IInv /\ [Next]_vars => IInv'
<1> SUFFICES ASSUME IInv, [Next]_vars PROVE IInv'
  OBVIOUS
<1> USE DEF IInv, TypeOK, Running, OneHub, ConnectedMeansRegistered, Issued
<1>1. CASE Tick \/ \E c \in Client : IssueToken(c)
  BY <1>1, TokensKeep DEF processes, agents
<1>2. CASE TailnetFails
  BY <1>2 DEF TailnetFails, agents, clients
<1>3. CASE UNCHANGED vars
  BY <1>3 DEF vars, processes, agents, clients
<1> HIDE DEF IInv
<1> QED
  BY <1>1, <1>2, <1>3, ProcessesKeep, AgentsKeep, RequestsKeep DEF Next, Noticed

LEMMA Invariance == Spec => []IInv
<1> QED
  BY InvInit, InvStep, PTL DEF Spec
-----------------------------------------------------------------------------
(* The theorems *)

\* The types, and that at most one process listens at the address.
THEOREM TypeCorrect == Spec => []TypeOK
<1>1. IInv => TypeOK
  BY DEF IInv
<1> QED
  BY <1>1, Invariance, PTL

\* The agent whose connection a hub serves is the one in h.agents, unless it has
\* been displaced, whatever is started, stopped and started again (registerAgent
\* and unregisterAgent, hub.go:495-515).
THEOREM ConnectedAlwaysRegistered == Spec => []ConnectedMeansRegistered
<1>1. IInv => ConnectedMeansRegistered
  BY DEF IInv
<1> QED
  BY <1>1, Invariance, PTL

\* A step that lets a client in is its Connect.
LEMMA LetInIsConnect ==
    ASSUME IInv, [Next]_vars, NEW c \in Client, LetIn(c)
    PROVE  Connect(c)
<1> USE DEF LetIn, Nothing, Visit
<1>0. visit \in [Client -> {Nothing} \union [hub : Proc, what : {"socket", "request"}]]
  BY DEF IInv, TypeOK
<1>1. ~\E p \in Proc : Exit(p)
  BY <1>0 DEF Exit
<1>2. ~\E h, p \in Proc : HubNotices(h, p)
  BY <1>0 DEF HubNotices
<1>3. ASSUME NEW d \in Client, Connect(d) \/ Disconnect(d) \/ AskSessions(d) \/ Answer(d)
      PROVE  Connect(c)
  BY <1>0, <1>3 DEF Connect, Disconnect, AskSessions, Answer
<1>4. visit' # visit
  BY <1>0
<1> QED
  BY <1>1, <1>2, <1>3, <1>4
  DEF Next, Noticed, vars, clients, Start, TailnetFails, Signal, ServerStep, Listen, Drain,
      MainReturns, AgentStep, Dial, Retry, RunEnds, AgentStops, IssueToken, Tick

\* No token lets a client in after the time it was issued for (Issue and Verify,
\* token.go:32-70), for any lifetime and any sequence of restarts.
THEOREM AlwaysAdmittedInTime == Spec => AdmittedInTime
<1>1. IInv /\ [Next]_vars =>
        [\A c \in Client :
            LetIn(c) /\ prog[visit'[c].hub].mode = "token" =>
              \E f \in Program :
                  /\ f.secret = token[c].secret /\ f.secret = prog[visit'[c].hub].secret
                  /\ token[c].age < (IF f.ttl > 0 THEN f.ttl ELSE 60)]_vars
  <2> SUFFICES ASSUME IInv, [Next]_vars, NEW c \in Client, LetIn(c),
                      prog[visit'[c].hub].mode = "token"
               PROVE  \E f \in Program :
                  /\ f.secret = token[c].secret /\ f.secret = prog[visit'[c].hub].secret
                  /\ token[c].age < (IF f.ttl > 0 THEN f.ttl ELSE 60)
    OBVIOUS
  <2>1. Connect(c)
    BY LetInIsConnect
  <2>2. visit'[c].hub = holder
    BY <2>1 DEF Connect, Visit, IInv, TypeOK
  <2>3. token[c] # None /\ token[c].secret = prog[holder].secret /\ token[c].age < token[c].ttl
    BY <2>1, <2>2 DEF Connect, Authorized, Verified
  <2>4. PICK f \in Program : token[c].secret = f.secret /\ token[c].ttl = Lifetime(f.ttl)
    BY <2>3 DEF IInv, Issued
  <2>5. f.ttl \in Int
    BY <2>4 DEF Flags
  <2>6. Lifetime(f.ttl) = IF f.ttl > 0 THEN f.ttl ELSE 60
    BY <2>5 DEF Lifetime
  <2> QED
    BY <2>2, <2>3, <2>4, <2>6
<1> QED
  BY <1>1, Invariance, PTL DEF Spec, AdmittedInTime
=============================================================================
