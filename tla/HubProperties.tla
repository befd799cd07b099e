--------------------------- MODULE HubProperties ----------------------------
(***************************************************************************)
(* What makes the hub correct: its invariants, action properties and       *)
(* liveness, the inductive invariant behind them, the abstract lease it    *)
(* implements, and what it does not do although the repository says so.    *)
(***************************************************************************)
EXTENDS Hub

Types ==
    /\ agent \in AgentConn \union {NoConn}
    /\ clients \subseteq Client
    /\ writer \in Client \union {NoClient}
    /\ write \in BOOLEAN
    /\ sess \in Name
    /\ aconn \in [AgentConn -> {"new", "serving", "done"}]
    /\ pc \in [Client -> Location]
    /\ link \in [Client -> {"up", "down"}]
    /\ claims \in [Client -> Claims]
    /\ handle \in [Client -> AgentConn \union {NoConn}]
    /\ focus \in [Client -> BOOLEAN]
    /\ snap \in [Client -> SUBSET Client]
    /\ seen \in [Client -> Client \union {NoClient}]
    /\ ret \in [Client -> {"loop", "closed"}]
    /\ told \in [Client -> {"nothing", "viewer", "writer"}]
    /\ lawful \in [Client -> BOOLEAN]
    /\ clash \in BOOLEAN
    /\ orphans \subseteq Client

NoAgentNoState ==
    agent = NoConn => clients = {} /\ writer = NoClient /\ write /\ sess = Blank

\* Every variable has its type, and while no agent is registered there is no
\* agentState that could remember clients, a lease, a lock or a session
\* (registerAgent, unregisterAgent, and the nil checks of the helpers).
TypeOK == Types /\ NoAgentNoState

\* The write lease is never left with a client that is gone, whatever
\* registrations, releases and departures come between the sections of a
\* request_write; and its holder has the claim to write (setWriter checks
\* neither, hub.go:418 and 612-620).
WriterServes ==
    writer # NoClient => writer \in InService /\ claims[writer].write

\* The registered agentState lists only clients whose handler has still to
\* remove them: removeClient works on the agentState registered then, not on
\* the one addClient worked on (hub.go:347, 352).
ClientsServed == clients \subseteq InService

\* A client whose connection is open is in the list, so that broadcasts reach it
\* and the end of the agent ends it, unless the agent registered again while
\* its old connection was still registered (hub.go:495-500).
AttachedUnlessOrphaned ==
    \A c \in InService : link[c] = "up" => c \in clients \union orphans

\* A frame of input is forwarded only if there was one instant, after it was
\* read, at which its sender held the lease and web input was not locked,
\* although the two are checked in two critical sections (hub.go:460, 463).
LawfulInput == \A c \in Client : pc[c] = "forward" => lawful[c]

\* Once nobody is broadcasting, the last write_status each client was sent is
\* the truth, unless the writer was changed while another handler was still
\* broadcasting (hub.go:636-651).
Quiet == \A c \in Client : ~Busy(c)
Greeted(c) == pc[c] \notin {"setsession", "hello", "firststatus"}
ToldTruth ==
    \A c \in clients :
        /\ Greeted(c)
        /\ link[c] = "up"
        => (told[c] = "writer" <=> writer = c)
ToldWhenQuiet == Quiet /\ ~clash => ToldTruth

\* A connection that is registered stays registered until it ends itself or the
\* next one takes its place: the late end of an old connection takes nothing
\* from the new one (unregisterAgent, hub.go:506).
OldConnectionHarmless ==
    [][\A a \in AgentConn :
          agent = a /\ agent' # a =>
              \/ aconn'[a] = "done"
              \/ agent' \in AgentConn /\ aconn[agent'] = "new"]_vars

\* The lease of a client whose connection is lost is given up in the end, unless
\* its handler stays forever in a write to somebody who is connected and does
\* not read: to another client that it tells of a change, or to the agent
\* (hub.go:648-650, 359, 400, 471, 482).
LeaseFreed ==
    \A c \in Client : writer = c /\ link[c] = "down" ~> writer # c \/ []HeldUp(c)

\* The handler of a client whose connection is lost returns, with the same
\* exception.
HandlersEnd ==
    \A c \in Client : link[c] = "down" ~> pc[c] = "closed" \/ []HeldUp(c)

\* When no agent is left every client that had come so far is sent away: it is
\* closed, or it is told agent_offline (hub.go:336, 348, 510).  Excepted are the
\* clients that an overlapping registration has orphaned, whom nobody closes
\* (hub.go:495-500), and handlers that wait forever in a write to a client that
\* does not read.
AgentLossEndsClients ==
    \A c \in Client :
        /\ \A a \in AgentConn : aconn[a] = "done"
        /\ pc[c] # "new"
        ~> pc[c] = "closed" \/ c \in orphans \/ []HeldUp(c)

-----------------------------------------------------------------------------
(* The inductive invariant: what the invariants above rest on.              *)

\* Whoever is on the way to the lease has the claim to write.
RequestsMayWrite ==
    \A c \in Client :
        pc[c] \in {"haswriter", "iswriter", "setwriter"} => claims[c].write

LeaseInv == WriterServes /\ RequestsMayWrite

ClientsInv == ClientsServed /\ AttachedUnlessOrphaned

\* Between the two checks of its input nobody makes a client the writer.
PendingInputLawful ==
    \A c \in Client : pc[c] = "inputwriter" /\ writer = c => lawful[c]

InputInv == LawfulInput /\ PendingInputLawful

RegisteredServes == agent # NoConn => aconn[agent] = "serving"

\* Without a clash one handler broadcasts at most; what it has read is still
\* so, and it has still to tell everybody who was not told the truth.
OneBroadcast == ~clash => \A b, d \in Client : Busy(b) /\ Busy(d) => b = d
ToldAreAdded ==
    \A b \in Client : \A d \in snap[b] : pc[d] \notin {"new", "lookup", "add"}
SeenIsTrue ==
    ~clash => \A b \in Client : \A d \in snap[b] \intersect clients :
                 pc[b] = "send" => seen[b] = writer
WillBeTold(d) ==
    \E b \in Client :
        \/ pc[b] = "snapshot"
        \/ pc[b] \in {"readwriter", "send"} /\ d \in snap[b]
ToldOrPending ==
    ~clash => \A d \in clients :
        /\ Greeted(d)
        /\ link[d] = "up"
        => (told[d] = "writer" <=> writer = d) \/ WillBeTold(d)
BroadcastInv == OneBroadcast /\ ToldAreAdded /\ SeenIsTrue /\ ToldOrPending

IInv == TypeOK /\ RegisteredServes /\ LeaseInv /\ ClientsInv /\ InputInv /\ BroadcastInv

-----------------------------------------------------------------------------
\* The hub implements the abstract write lease: who is here is who has been
\* added and not yet removed, also under an agentState of the past.
Lease == INSTANCE WriteLease WITH
    Member  <- Client,
    Nobody  <- NoClient,
    members <- InService,
    writers <- {c \in InService : claims[c].write},
    holder  <- writer
ImplementsLease == Lease!Spec

-----------------------------------------------------------------------------
(* What the documents and tests of the repository say and the code does not  *)
(* do: each is checked by a run of its own, and found violated.              *)

\* README.md:100-101, "lock: Disable web input", "unlock: Re-enable web input":
\* what was locked is unlocked by an operator and by nothing else.
OnlyUnlockUnlocks ==
    [][~write /\ agent' # NoConn /\ agent' # agent => ~write']_vars

\* hub.go:415, "another writer active": the lease is not given to a second
\* client while a first one holds it.
NoSecondWriter ==
    [][\A c, d \in Client : writer = c /\ writer' = d => c = d]_vars
=============================================================================
