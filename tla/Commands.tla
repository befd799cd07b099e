------------------------------ MODULE Commands ------------------------------
(***************************************************************************)
(* The commands as processes that share one address: runeshell run, hub    *)
(* and agent, hubd and agentd (cmd/), each started with its flags, ended   *)
(* by signals or by its own log.Fatal, and started again.  Agents dial the *)
(* address and are registered by the hub that listens there (RunWithRetry, *)
(* internal/agent; registerAgent, internal/hub/hub.go); clients come with  *)
(* the tokens an administrator has had issued (internal/hub/token.go).     *)
(*                                                                         *)
(* What agents and hubs do with a connection is in the modules             *)
(* AgentSessions and Hub; here an agent's old connection to a hub has been *)
(* noticed to be gone before its next one begins, and connections end with  *)
(* the process at either end.                                              *)
(***************************************************************************)
EXTENDS Integers, FiniteSets

CONSTANTS
    Program,    \* the commands with their flags
    Client,     \* browsers
    Origin,     \* Origin[c]: the kind of address c's requests come from
    None,       \* no process, no token
    MaxStarts,  \* bound: how many processes are started
    MaxAge      \* bound: from then on a token's age is not counted, in seconds

Proc == 1..MaxStarts  \* the processes, in the order of their start

Kinds == {"run", "hub", "hubd", "agent", "agentd"}
Flags == [kind : Kinds, mode : {"token", "tailnet"}, tailnetOnly : BOOLEAN,
          admin : BOOLEAN, secret : STRING, ttl : Int, agent : STRING]

ASSUME CommandsAssumption ==
    /\ Program \subseteq Flags
    /\ Origin \in [Client -> {"loopback", "tailnet", "elsewhere"}]
    /\ None \notin Proc
    /\ MaxStarts \in Nat /\ MaxAge \in Nat

VARIABLES
    prog,       \* the command and flags of a process
    main,       \* where main is: "none", "up" until a signal, "draining"
    server,     \* the goroutine of ListenAndServe
    holder,     \* the process that listens at the address
    done,       \* ctx is done: a signal has been caught
    loop,       \* RunWithRetry: "none", "dial", "run", "retry"
    link,       \* the hub process at the other end of the agent's connection
    conns,      \* the processes whose connection a hub's ServeAgentConn reads
    agent,      \* the process in h.agents
    displaced,  \* history: the processes in conns whose entry was replaced
    visit,      \* what a client has open at which hub: a WebSocket, or a
                \* request of /api/sessions that is under way
    token,      \* the token a client has, with its age
    starts

processes == <<prog, main, server, holder, done, starts>>
agents    == <<loop, link, conns, agent, displaced>>
clients   == <<visit, token>>
vars == <<processes, agents, clients>>

Nothing == [hub |-> None, what |-> "nothing"]
Visit(h, what) == [hub |-> h, what |-> what]

Init ==
    /\ prog \in [Proc -> {None}] /\ main = [p \in Proc |-> "none"]
    /\ server = [p \in Proc |-> "none"] /\ holder = None
    /\ done = [p \in Proc |-> FALSE]
    /\ loop = [p \in Proc |-> "none"] /\ link = [p \in Proc |-> None]
    /\ conns = [p \in Proc |-> {}] /\ agent = [p \in Proc |-> None]
    /\ displaced = {}
    /\ visit = [c \in Client |-> Nothing] /\ token = [c \in Client |-> None]
    /\ starts = 0

Has(p, kinds) == prog[p] # None /\ prog[p].kind \in kinds

-----------------------------------------------------------------------------
(* Processes *)

HasHub   == {"run", "hub", "hubd"}
HasAgent == {"run", "agent", "agentd"}

\* runCmd, hubCmd, agentCmd, and main of hubd and agentd: the server is
\* started in a goroutine, and the agent without waiting for it.
Start(p, f) ==
    /\ p = starts + 1 /\ starts' = p
    /\ prog' = [prog EXCEPT ![p] = f]
    /\ main' = [main EXCEPT ![p] = "up"]
    /\ server' = [server EXCEPT ![p] = IF f.kind \in HasHub THEN "starting" ELSE @]
    /\ loop' = [loop EXCEPT ![p] = IF f.kind \in HasAgent THEN "dial" ELSE @]
    /\ UNCHANGED <<holder, done, link, conns, agent, displaced, clients>>

\* ensureTailnetServe fails, and run ends before it has started anything.
TailnetFails ==
    /\ \E f \in Program : f.kind = "run" /\ f.mode = "tailnet"
    /\ starts < MaxStarts /\ starts' = starts + 1
    /\ UNCHANGED <<prog, main, server, holder, done, agents, clients>>

\* The process is gone, with its goroutines and connections.
Exit(p) ==
    /\ main' = [main EXCEPT ![p] = "none"]
    /\ prog' = [prog EXCEPT ![p] = None]
    /\ server' = [server EXCEPT ![p] = "none"]
    /\ holder' = IF holder = p THEN None ELSE holder
    /\ done' = [done EXCEPT ![p] = FALSE]
    /\ loop' = [loop EXCEPT ![p] = "none"] /\ link' = [link EXCEPT ![p] = None]
    /\ conns' = [conns EXCEPT ![p] = {}] /\ agent' = [agent EXCEPT ![p] = None]
    /\ displaced' = displaced \ conns[p]
    /\ visit' = [c \in Client |-> IF visit[c].hub = p THEN Nothing ELSE visit[c]]
    /\ UNCHANGED <<starts, token>>

\* ListenAndServe: when the address is taken log.Fatal ends the process, and
\* the agent it runs.
Listen(p) ==
    /\ server[p] = "starting"
    /\ IF holder = None
       THEN /\ server' = [server EXCEPT ![p] = "listening"] /\ holder' = p
            /\ UNCHANGED <<prog, main, done, starts, agents, clients>>
       ELSE Exit(p)

\* SIGINT or SIGTERM: all but hubd catch it, also a second one, which does
\* nothing more.
Signal(p) ==
    /\ main[p] # "none" /\ ~done[p]
    /\ IF Has(p, {"hubd"}) THEN Exit(p)
       ELSE /\ done' = [done EXCEPT ![p] = TRUE]
            /\ UNCHANGED <<prog, main, server, holder, starts, agents, clients>>

\* server.Shutdown: no new connections; WebSockets are not its concern.
Drain(p) ==
    /\ Has(p, {"run", "hub"}) /\ main[p] = "up" /\ done[p]
    /\ main' = [main EXCEPT ![p] = "draining"]
    /\ server' = [server EXCEPT ![p] = "none"]
    /\ holder' = IF holder = p THEN None ELSE holder
    /\ UNCHANGED <<prog, done, starts, agents, clients>>

\* Mutant: it waits for the WebSockets of the clients too.
AllQuiet(p) == \A c \in Client : visit[c].hub # p

\* Shutdown waits, without a deadline, until every request has been answered.
Drained(p) == \A c \in Client : visit[c] # Visit(p, "request")

MainReturns(p) == main[p] = "draining" /\ Drained(p) /\ Exit(p)

-----------------------------------------------------------------------------
(* Agents *)

\* validateAgent
Valid(h, p) == prog[h].agent = prog[p].agent

\* Client.Run dials, and registerAgent.  Without a hub, or with another secret,
\* it fails.
Dial(p) ==
    /\ loop[p] = "dial" /\ \A h \in Proc : p \notin conns[h]
    /\ IF holder # None /\ Valid(holder, p)
       THEN /\ loop' = [loop EXCEPT ![p] = "run"]
            /\ link' = [link EXCEPT ![p] = holder]
            /\ conns' = [conns EXCEPT ![holder] = @ \union {p}]
            /\ agent' = [agent EXCEPT ![holder] = p]
            /\ displaced' = displaced \union conns[holder]
       ELSE /\ loop' = [loop EXCEPT ![p] = "retry"]
            /\ UNCHANGED <<link, conns, agent, displaced>>
    /\ UNCHANGED <<processes, clients>>

\* Mutant: an error ends RunWithRetry.
GiveUp == "none"

AfterPause == "dial"

\* RunWithRetry, after its pause.
Retry(p) ==
    /\ loop[p] = "retry" /\ ~done[p]
    /\ loop' = [loop EXCEPT ![p] = AfterPause]
    /\ UNCHANGED <<processes, link, conns, agent, displaced, clients>>

\* Run's read fails: the hub is gone.
RunEnds(p) ==
    /\ loop[p] = "run" /\ ~\E h \in Proc : link[p] = h /\ p \in conns[h]
    /\ loop' = [loop EXCEPT ![p] = "retry"] /\ link' = [link EXCEPT ![p] = None]
    /\ UNCHANGED <<processes, conns, agent, displaced, clients>>

\* ctx is done: RunWithRetry returns, and main with it if that is all it runs.
AgentStops(p) ==
    /\ done[p] /\ loop[p] # "none"
    /\ IF Has(p, {"run"})
       THEN /\ loop' = [loop EXCEPT ![p] = "none"] /\ link' = [link EXCEPT ![p] = None]
            /\ UNCHANGED <<processes, conns, agent, displaced, clients>>
       ELSE Exit(p)

\* Mutant: whoever ends takes the entry along.
NobodyLeft(h, p) == None

\* unregisterAgent
Remaining(h, p) == IF agent[h] = p THEN None ELSE agent[h]

\* ServeAgentConn's read fails.
HubNotices(h, p) ==
    /\ p \in conns[h] /\ link[p] # h
    /\ conns' = [conns EXCEPT ![h] = @ \ {p}]
    /\ agent' = [agent EXCEPT ![h] = Remaining(h, p)]
    /\ displaced' = displaced \ {p}
    /\ visit' = [c \in Client |-> IF agent[h] = p /\ visit[c] = Visit(h, "socket")
                                 THEN Nothing ELSE visit[c]]
    /\ UNCHANGED <<processes, loop, link, token>>

-----------------------------------------------------------------------------
(* Requests of browsers and administrators *)

\* isTailnetRequest
Tailnet(c) == Origin[c] \in {"loopback", "tailnet"}

\* Mutant: a lifetime of zero is one.
AsGiven(s) == s

\* timeSeconds
Lifetime(s) == IF s <= 0 THEN 60 ELSE s

\* TokenHandler and Issue, for an administrator who gives the token to c.
IssueToken(c) ==
    /\ holder # None /\ prog[holder].mode = "token"
    /\ prog[holder].admin /\ prog[holder].secret # ""
    /\ token' = [token EXCEPT ![c] = [secret |-> prog[holder].secret, age |-> 0,
                                      ttl |-> Lifetime(prog[holder].ttl)]]
    /\ UNCHANGED <<processes, agents, visit>>

\* Mutant: Verify looks at the signature only.
SignatureOnly(h, c) == token[c] # None /\ token[c].secret = prog[h].secret

\* Verify
Verified(h, c) ==
    token[c] # None /\ token[c].secret = prog[h].secret /\ token[c].age < token[c].ttl

\* authorizeClient
Authorized(h, c) ==
    /\ prog[h].tailnetOnly => Tailnet(c)
    /\ prog[h].mode = "token" => Verified(h, c)

\* ServeClientWS, and the client's attach, which needs an agent.
Connect(c) ==
    /\ visit[c] = Nothing /\ holder # None /\ Authorized(holder, c) /\ agent[holder] # None
    /\ visit' = [visit EXCEPT ![c] = Visit(holder, "socket")]
    /\ UNCHANGED <<processes, agents, token>>

Disconnect(c) ==
    /\ visit[c].what = "socket" /\ visit' = [visit EXCEPT ![c] = Nothing]
    /\ UNCHANGED <<processes, agents, token>>

\* SessionsHandler: refused at once, or under way for as long as it takes to
\* write to the agent, which has no deadline, and for its answer or two seconds.
AskSessions(c) ==
    /\ visit[c] = Nothing /\ holder # None /\ agent[holder] # None
    /\ IF prog[holder].mode = "token" THEN prog[holder].admin
                                      ELSE prog[holder].tailnetOnly => Tailnet(c)
    /\ visit' = [visit EXCEPT ![c] = Visit(holder, "request")]
    /\ UNCHANGED <<processes, agents, token>>

Answer(c) ==
    /\ visit[c].what = "request" /\ visit' = [visit EXCEPT ![c] = Nothing]
    /\ UNCHANGED <<processes, agents, token>>

\* A minute passes.
Tick ==
    /\ token' = [c \in Client |-> IF token[c] = None \/ token[c].age >= MaxAge THEN token[c]
                                 ELSE [token[c] EXCEPT !.age = @ + 60]]
    /\ UNCHANGED <<processes, agents, visit>>

-----------------------------------------------------------------------------
ServerStep(p) == Listen(p) \/ Drain(p) \/ MainReturns(p)
AgentStep(p) == Dial(p) \/ Retry(p) \/ RunEnds(p) \/ AgentStops(p)
Noticed == \E h, p \in Proc : HubNotices(h, p)

Next ==
    \/ \E p \in Proc : \/ \E f \in Program : Start(p, f)
                      \/ Signal(p) \/ ServerStep(p) \/ AgentStep(p)
    \/ \E c \in Client : \/ IssueToken(c) \/ Connect(c) \/ Disconnect(c)
                        \/ AskSessions(c) \/ Answer(c)
    \/ Noticed \/ TailnetFails \/ Tick

Spec == Init /\ [][Next]_vars

\* Goroutines that can run do, connections that are gone are noticed, as no
\* browser holds up the hub's reader, and pauses end.  Nothing is assumed of users, nor that a request is answered.
FairSpec ==
    /\ Spec
    /\ \A p \in Proc : WF_vars(ServerStep(p)) /\ WF_vars(AgentStep(p))
    /\ WF_vars(Noticed)
-----------------------------------------------------------------------------
(* Properties *)

TokenType == [secret : STRING, age : Nat, ttl : Nat \ {0}]

\* The types, and who may hold what: one process listens, and main of a
\* process that is gone leaves nothing running.
TypeOK ==
    /\ prog \in [Proc -> Program \union {None}]
    /\ main \in [Proc -> {"none", "up", "draining"}]
    /\ server \in [Proc -> {"none", "starting", "listening"}]
    /\ holder \in Proc \union {None}
    /\ \A p \in Proc : server[p] = "listening" <=> holder = p
    /\ done \in [Proc -> BOOLEAN] /\ loop \in [Proc -> {"none", "dial", "run", "retry"}]
    /\ link \in [Proc -> Proc \union {None}]
    /\ conns \in [Proc -> SUBSET Proc] /\ agent \in [Proc -> Proc \union {None}]
    /\ displaced \subseteq Proc
    /\ \A p \in Proc : main[p] = "none" => loop[p] = "none" /\ conns[p] = {} /\ ~done[p]
    /\ visit \in [Client -> {Nothing} \union [hub : Proc, what : {"socket", "request"}]]
    /\ token \in [Client -> TokenType \union {None}]

\* An agent whose connection a hub serves is the one the hub knows, through
\* hubs and agents that end and come back, and a run that fails to listen but
\* whose agent has reached the hub that took its address; unless another agent
\* was registered over it, in which case nobody registers it again when the
\* other has gone.
ConnectedMeansRegistered ==
    \A h \in Proc : \A p \in conns[h] \ displaced : agent[h] = p

\* A client is let in by a token only while it is younger than the lifetime
\* some hub of the same secret gives to its tokens (a minute when it is given
\* none), whatever has been restarted with other flags in between.
LetIn(c) == visit[c] = Nothing /\ visit'[c].what = "socket"

AdmittedInTime ==
    [][\A c \in Client :
          LetIn(c) /\ prog[visit'[c].hub].mode = "token" =>
              \E f \in Program :
                  /\ f.secret = token[c].secret /\ f.secret = prog[visit'[c].hub].secret
                  /\ token[c].age < (IF f.ttl > 0 THEN f.ttl ELSE 60)]_vars

\* A process that has caught a signal ends, although clients stay connected,
\* its hub may not be listening yet, and its agent may be dialling or pausing;
\* the one thing that can keep it is a request that is never answered.
SignalEnds ==
    \A p \in Proc :
        done[p] ~> \/ ~done[p]
                   \/ \E c \in Client : [](visit[c] = Visit(p, "request"))

\* An agent gets through to the hub that listens at its address, whichever of
\* them was started first, or again; unless a hub that has been told to end
\* does not, and keeps it, for a request that is never answered.
Seeks(p) ==
    /\ Has(p, HasAgent) /\ ~done[p]
    /\ \E h \in Proc : holder = h /\ Valid(h, p) /\ p \notin conns[h]

AgentConnects ==
    (\E p \in Proc : Seeks(p)) ~> \/ \A p \in Proc : ~Seeks(p)
                                 \/ \E c \in Client : [](visit[c].what = "request")
=============================================================================
