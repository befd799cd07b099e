------------------------------- MODULE Relay --------------------------------
(***************************************************************************)
(* What flows through the hub, and who waits for whom.                     *)
(*                                                                         *)
(* Output: the agent's forwarders write frames to the hub, and the only    *)
(* goroutine that reads the agent's connection (ServeAgentConn) writes     *)
(* each to the clients there are, one after another.  Input and control    *)
(* messages: each client's handler (ServeClientConn) passes them on to the *)
(* agent, whose only loop reads them and now and then answers.  Handlers   *)
(* also write control messages to their own client or to all of them, and  *)
(* start goroutines (syncSessions) that ask the agent for its sessions and *)
(* tell all clients.  An HTTP request for the sessions writes like such a  *)
(* goroutine that tells nobody.                                            *)
(*                                                                         *)
(* No write has a deadline: a goroutine that writes to a connection whose  *)
(* buffers are full waits until the other side reads.  A connection is a   *)
(* bounded queue here.  The mutexes around the writes (writeMu) need no    *)
(* state of their own: who waits for the mutex waits for the room that its *)
(* holder waits for.  Nothing makes a browser read.  The agent's loop is   *)
(* held up by its writes alone: tmux and the PTYs are assumed to take what *)
(* they are given.  The agent's connection stays up; its loss is the       *)
(* business of modules Hub, SessionSync and AgentSessions.                 *)
(***************************************************************************)
EXTENDS Integers, Sequences, FiniteSets

CONSTANTS
    Client,    \* the client connections
    Session,   \* the tmux sessions with a PTY
    Own,       \* the session of a client of protocol 1; NoSession of protocol 2
    NoSession,
    WireCap,   \* how many messages a connection holds
    MaxOut,    \* bound: the frames of output
    Speaking,  \* bound: the clients that send messages
    MaxIn,     \* bound: how many messages
    Sync       \* bound: the syncs that go on at a time; more are not followed

ASSUME OwnAssumption     == Own \in [Client -> Session \union {NoSession}]
ASSUME WireCapAssumption == WireCap \in Nat \ {0}
ASSUME BoundsAssumption  == MaxOut \in Nat /\ MaxIn \in Nat

VARIABLES
    out,        \* history: the session of each frame, in the order of writing
    forwarder,  \* whether the forwarder of each session has a chunk to write
    loop,       \* the agent's loop: reading, or about to write an answer
    toHub,      \* agent to hub: numbers of frames, 0 for an answer
    toAgent,    \* hub to agent: list_sessions, attach, or what is not answered
    cur,        \* the frame the hub's reader is distributing
    rest,       \* the clients it has still to be written to
    clients,    \* agentState.clients
    pc,         \* what the handler of each client does next
    todo,       \* the clients the handler has still to write to
    link,       \* whether each client's WebSocket still carries messages
    toBrowser,  \* hub to client: numbers of frames, 0 for a control message
    sync,       \* what each goroutine of syncSessions does next
    untold,     \* the clients that it has still to tell
    said,       \* how many messages clients have sent
    first,      \* history: the first frame after a client was added
    got         \* history: the frames each browser has read while connected

agentVars  == <<out, forwarder, loop>>
readerVars == <<cur, rest>>
clientVars == <<clients, pc, todo, link, said, first>>
syncVars   == <<sync, untold>>
vars == <<agentVars, readerVars, clientVars, syncVars, toHub, toAgent, toBrowser, got>>

Init ==
    /\ out = <<>> /\ forwarder = [s \in Session |-> "idle"] /\ loop = "read"
    /\ toHub = <<>> /\ toAgent = <<>>
    /\ cur = 0 /\ rest = {}
    /\ clients = {}
    /\ pc   = [c \in Client |-> "new"]
    /\ todo = [c \in Client |-> {}]
    /\ link = [c \in Client |-> "up"]
    /\ toBrowser = [c \in Client |-> <<>>]
    /\ sync = [y \in Sync |-> "idle"] /\ untold = [y \in Sync |-> {}]
    /\ said = 0
    /\ first = [c \in Client |-> 0]
    /\ got   = [c \in Client |-> <<>>]

Room(q) == Len(q) < WireCap
Holding == Cardinality({s \in Session : forwarder[s] = "holding"})

-----------------------------------------------------------------------------
(* The agent *)

\* A forwarder has taken a chunk of output from its PTY's channel ...
Output(s) ==
    /\ forwarder[s] = "idle" /\ Len(out) + Holding < MaxOut
    /\ forwarder' = [forwarder EXCEPT ![s] = "holding"]
    /\ UNCHANGED <<out, loop, readerVars, clientVars, syncVars, toHub, toAgent,
                   toBrowser, got>>

\* ... and writes it as a frame.
Forward(s) ==
    /\ forwarder[s] = "holding" /\ Room(toHub)
    /\ out' = Append(out, s)
    /\ toHub' = Append(toHub, Len(out) + 1)
    /\ forwarder' = [forwarder EXCEPT ![s] = "idle"]
    /\ UNCHANGED <<loop, readerVars, clientVars, syncVars, toAgent, toBrowser,
                   got>>

\* The loop handles a message: list_sessions is answered with the list, an
\* attach that fails with attach_failed, nothing else is.
LoopReads ==
    /\ loop = "read" /\ toAgent # <<>>
    /\ toAgent' = Tail(toAgent)
    /\ \/ Head(toAgent) # "list"  /\ loop' = "read"
       \/ Head(toAgent) # "other" /\ loop' = "reply"
    /\ UNCHANGED <<out, forwarder, readerVars, clientVars, syncVars, toHub,
                   toBrowser, got>>

LoopReplies ==
    /\ loop = "reply" /\ Room(toHub)
    /\ toHub' = Append(toHub, 0)
    /\ loop' = "read"
    /\ UNCHANGED <<out, forwarder, readerVars, clientVars, syncVars, toAgent,
                   toBrowser, got>>

-----------------------------------------------------------------------------
(* The hub's reader of the agent's connection *)

\* A client of protocol 1 gets the output of its own session, one of protocol
\* 2 that of all.
Wants(c, s) == Own[c] \in {s, NoSession}

\* Mutant: the loop over the clients ends at one that does not want the frame.
UntilUnwanted(n) ==
    IF \A c \in clients : Wants(c, out[n]) THEN clients ELSE {}

\* clientSnapshot, and the filter.
Recipients(n) == {c \in clients : Wants(c, out[n])}

TakeFrame ==
    /\ rest = {} /\ toHub # <<>> /\ Head(toHub) # 0
    /\ cur' = Head(toHub)
    /\ rest' = Recipients(Head(toHub))
    /\ toHub' = Tail(toHub)
    /\ UNCHANGED <<agentVars, clientVars, syncVars, toAgent, toBrowser, got>>

\* deliverSessions does not wait: its channel has room or the list is dropped.
\* With attach_failed nothing is done.
TakeAnswer ==
    /\ rest = {} /\ toHub # <<>> /\ Head(toHub) = 0
    /\ toHub' = Tail(toHub)
    /\ UNCHANGED <<agentVars, readerVars, clientVars, syncVars, toAgent,
                   toBrowser, got>>

\* Mutant: a write to a connection that is lost waits for its buffer too.
OnlyWithRoom(c) == Room(toBrowser[c])

\* A write returns: there is room, or the connection is lost and it fails.
Writable(c) == Room(toBrowser[c]) \/ link[c] = "down"

\* The write of m to c; nobody looks at the error.
WriteTo(c, m) ==
    /\ Writable(c)
    /\ toBrowser' = IF link[c] = "up"
                    THEN [toBrowser EXCEPT ![c] = Append(@, m)] ELSE toBrowser

Distribute(c) ==
    /\ c \in rest /\ WriteTo(c, cur)
    /\ rest' = rest \ {c}
    /\ UNCHANGED <<agentVars, cur, clientVars, syncVars, toHub, toAgent, got>>

-----------------------------------------------------------------------------
(* The handlers *)

\* A connection ends.  Nobody reads from it any more, so that its buffer may
\* well be full; what its browser has read is not remembered.
Lose(c) ==
    /\ link' = [link EXCEPT ![c] = "down"]
    /\ toBrowser' = [toBrowser EXCEPT ![c] = [k \in 1 .. WireCap |-> 0]]
    /\ got' = [got EXCEPT ![c] = <<>>]

Goto(c, l) == pc' = [pc EXCEPT ![c] = l]

\* A goroutine of syncSessions is started.
StartSync ==
    /\ UNCHANGED untold
    /\ \/ \E y \in Sync : sync[y] = "idle" /\ sync' = [sync EXCEPT ![y] = "ask"]
       \/ (\A y \in Sync : sync[y] # "idle") /\ UNCHANGED sync

\* addClient; next the agent is told to attach the session.
Join(c) ==
    /\ pc[c] = "new"
    /\ clients' = clients \union {c}
    /\ first' = [first EXCEPT ![c] = cur + 1]
    /\ Goto(c, "attach")
    /\ UNCHANGED <<agentVars, readerVars, todo, link, said, syncVars, toHub,
                   toAgent, toBrowser, got>>

PassOn(c, m, from, to) ==
    /\ pc[c] = from /\ Room(toAgent)
    /\ toAgent' = Append(toAgent, m)
    /\ Goto(c, to)

Attach(c) ==
    /\ PassOn(c, "attach", "attach", "hello")
    /\ UNCHANGED <<agentVars, readerVars, clients, todo, link, said, first,
                   syncVars, toHub, toBrowser, got>>

\* attached; if it cannot be written the handler leaves.
Hello(c) ==
    /\ pc[c] = "hello" /\ WriteTo(c, 0)
    /\ Goto(c, IF link[c] = "up" THEN "status" ELSE "leave")
    /\ UNCHANGED <<agentVars, readerVars, clients, todo, link, said, first,
                   syncVars, toHub, toAgent, got>>

\* The first write_status; then a sync is started.
FirstStatus(c) ==
    /\ pc[c] = "status" /\ WriteTo(c, 0) /\ Goto(c, "loop")
    /\ StartSync
    /\ UNCHANGED <<agentVars, readerVars, clients, todo, link, said, first, toHub,
                   toAgent, got>>

\* The clients are told something, one after another: by a handler that goes
\* on, or by one that leaves.
Telling(c, who, from, to) ==
    /\ todo' = [todo EXCEPT ![c] = who]
    /\ Goto(c, IF who = {} THEN to ELSE from)

Tell(c, d) ==
    /\ d \in todo[c] /\ WriteTo(d, 0)
    /\ \/ pc[c] = "tell"   /\ Telling(c, todo[c] \ {d}, "tell", "loop")
       \/ pc[c] = "refuse" /\ Telling(c, todo[c] \ {d}, "refuse", "leave")
       \/ pc[c] = "bye"    /\ Telling(c, todo[c] \ {d}, "bye", "close")
    /\ UNCHANGED <<agentVars, readerVars, clients, link, said, first, syncVars,
                   toHub, toAgent, got>>

\* A message that the handler passes on: input, resize, attach, detach.
Message(c) ==
    /\ pc[c] = "loop" /\ c \in Speaking /\ said < MaxIn
    /\ said' = said + 1
    /\ Goto(c, "pass")
    /\ UNCHANGED <<agentVars, readerVars, clients, todo, link, first, syncVars,
                   toHub, toAgent, toBrowser, got>>

\* After an attach or a detach a sync is started too.
Pass(c) ==
    /\ \/ PassOn(c, "attach", "pass", "loop") /\ StartSync
       \/ PassOn(c, "other", "pass", "loop") /\ (StartSync \/ UNCHANGED syncVars)
    /\ UNCHANGED <<agentVars, readerVars, clients, todo, link, said, first, toHub,
                   toBrowser, got>>

\* A message that is answered: all clients are told who writes, or its sender
\* is refused, and after some refusals the handler leaves.
Request(c) ==
    /\ pc[c] = "loop" /\ c \in Speaking /\ said < MaxIn
    /\ said' = said + 1
    /\ \/ \E who \in {{c}, clients} : Telling(c, who, "tell", "loop")
       \/ Telling(c, {c}, "refuse", "leave")
    /\ UNCHANGED <<agentVars, readerVars, clients, link, first, syncVars, toHub,
                   toAgent, toBrowser, got>>

ReadErr(c) ==
    /\ pc[c] = "loop" /\ link[c] = "down" /\ Goto(c, "leave")
    /\ UNCHANGED <<agentVars, readerVars, clients, todo, link, said, first,
                   syncVars, toHub, toAgent, toBrowser, got>>

\* removeClient; a writer that leaves is broadcast.
Leave(c) ==
    /\ pc[c] = "leave"
    /\ clients' = clients \ {c}
    /\ \E who \in {{}, clients'} : Telling(c, who, "bye", "close")
    /\ UNCHANGED <<agentVars, readerVars, link, said, first, syncVars, toHub,
                   toAgent, toBrowser, got>>

\* The handler returns and closes the connection.
Close(c) ==
    /\ pc[c] = "close" /\ Goto(c, "gone")
    /\ IF link[c] = "up" THEN Lose(c) ELSE UNCHANGED <<link, toBrowser, got>>
    /\ UNCHANGED <<agentVars, readerVars, clients, todo, said, first, syncVars,
                   toHub, toAgent>>

-----------------------------------------------------------------------------
(* The goroutines of syncSessions *)

Ask(y) ==
    /\ sync[y] = "ask" /\ Room(toAgent)
    /\ toAgent' = Append(toAgent, "list")
    /\ sync' = [sync EXCEPT ![y] = "wait"]
    /\ UNCHANGED <<agentVars, readerVars, clientVars, untold, toHub, toBrowser,
                   got>>

\* It tells the clients in who, or those that are left of them.
Owes(y, who) ==
    /\ untold' = [untold EXCEPT ![y] = who]
    /\ sync' = [sync EXCEPT ![y] = IF who = {} THEN "idle" ELSE "tell"]

\* The timer ends the wait, or the list, with which all clients are told; that
\* a list is the one asked for is the business of module SessionSync.
SyncGoesOn(y) ==
    /\ sync[y] = "wait"
    /\ \E who \in {{}, clients} : Owes(y, who)
    /\ UNCHANGED <<agentVars, readerVars, clientVars, toHub, toAgent, toBrowser,
                   got>>

SyncTells(y, d) ==
    /\ sync[y] = "tell" /\ d \in untold[y] /\ WriteTo(d, 0)
    /\ Owes(y, untold[y] \ {d})
    /\ UNCHANGED <<agentVars, readerVars, clientVars, toHub, toAgent, got>>

SyncStep(y) == Ask(y) \/ SyncGoesOn(y) \/ \E d \in Client : SyncTells(y, d)

-----------------------------------------------------------------------------
(* The browsers *)

BrowserReads(c) ==
    /\ link[c] = "up" /\ toBrowser[c] # <<>>
    /\ toBrowser' = [toBrowser EXCEPT ![c] = Tail(@)]
    /\ got' = IF Head(toBrowser[c]) = 0 THEN got
              ELSE [got EXCEPT ![c] = Append(@, Head(toBrowser[c]))]
    /\ UNCHANGED <<agentVars, readerVars, clientVars, syncVars, toHub, toAgent>>

Drop(c) ==
    /\ pc[c] # "new" /\ link[c] = "up" /\ Lose(c)
    /\ UNCHANGED <<agentVars, readerVars, clients, pc, todo, said, first,
                   syncVars, toHub, toAgent>>

-----------------------------------------------------------------------------
ReaderStep == TakeFrame \/ TakeAnswer \/ \E c \in Client : Distribute(c)
LoopStep   == LoopReads \/ LoopReplies
HandlerStep(c) ==
    \/ Attach(c) \/ Hello(c) \/ FirstStatus(c) \/ Pass(c) \/ Leave(c) \/ Close(c)
    \/ \E d \in Client : Tell(c, d)

Next ==
    \/ \E s \in Session : Output(s) \/ Forward(s)
    \/ LoopStep \/ ReaderStep \/ \E y \in Sync : SyncStep(y)
    \/ \E c \in Client : \/ HandlerStep(c) \/ ReadErr(c)
                         \/ Join(c) \/ Message(c) \/ Request(c)
                         \/ BrowserReads(c) \/ Drop(c)

Spec == Init /\ [][Next]_vars

\* What goes on by itself: the goroutines.  A browser may read or not.
Progress ==
    \/ ReaderStep \/ LoopStep \/ \E y \in Sync : SyncStep(y)
    \/ \E s \in Session : Forward(s)
    \/ \E c \in Client : HandlerStep(c) \/ ReadErr(c)

\* While anything can go on, something does.  That is enough: each step brings
\* one of finitely many messages further.
Fairness == WF_vars(Progress)

FairSpec == Spec /\ Fairness

-----------------------------------------------------------------------------
(* Properties *)

Types ==
    /\ out \in Seq(Session) /\ forwarder \in [Session -> {"idle", "holding"}]
    /\ loop \in {"read", "reply"}
    /\ toHub \in Seq(0..Len(out)) /\ toAgent \in Seq({"list", "attach", "other"})
    /\ cur \in 0..Len(out) /\ rest \subseteq Client
    /\ clients \subseteq Client
    /\ pc \in [Client -> {"new", "attach", "hello", "status", "loop", "pass", "tell",
                      "refuse", "leave", "bye", "close", "gone"}]
    /\ todo \in [Client -> SUBSET Client]
    /\ link \in [Client -> {"up", "down"}]
    /\ toBrowser \in [Client -> Seq(0..Len(out))]
    /\ said \in 0..MaxIn
    /\ sync \in [Sync -> {"idle", "ask", "wait", "tell"}]
    /\ untold \in [Sync -> SUBSET Client]
    /\ first \in [Client -> Nat]
    /\ got \in [Client -> Seq(1..Len(out))]

\* Every variable has its type, and no connection holds more than it can.
TypeOK ==
    /\ Types
    /\ Len(toHub) <= WireCap /\ Len(toAgent) <= WireCap
    /\ \A c \in Client : Len(toBrowser[c]) <= WireCap

\* Each client is sent exactly the frames it is to have of those the agent has
\* written since the client was added, each once and in the order of writing:
\* whatever clients come, go, and hold up the reader meanwhile.
Sent(c) == got[c] \o toBrowser[c]
FramesIn(q) == {q[k] : k \in DOMAIN q} \ {0}
Ascending(q) ==
    \A j, k \in DOMAIN q : j < k /\ q[j] # 0 /\ q[k] # 0 => q[j] < q[k]
Due(c) == {n \in first[c] .. cur : Wants(c, out[n]) /\ (n = cur => c \notin rest)}
ExactStream ==
    \A c \in clients : link[c] = "up" =>
        FramesIn(Sent(c)) = Due(c) /\ Ascending(Sent(c))

\* A connected browser whose connection is full.
Full(c) == link[c] = "up" /\ ~Room(toBrowser[c])

\* Output gets to every client that is there and stays, unless some browser
\* that stays connected no longer reads at all.
OutputArrives ==
    \A c \in Client, n \in 1 .. MaxOut :
        /\ c \in clients
        /\ first[c] <= n /\ n <= Len(out)
        /\ Own[c] # NoSession => out[n] = Own[c]
        ~> \/ \E k \in 1 .. Len(got[c]) : got[c][k] = n
           \/ c \notin clients
           \/ \E d \in Client : []Full(d)

\* Every goroutine that writes or is about to: the forwarders, the agent's
\* loop, the hub's reader, the syncs and the handlers.
Writing ==
    \/ \E s \in Session : forwarder[s] = "holding"
    \/ loop = "reply" \/ toHub # <<>> \/ rest # {}
    \/ toAgent # <<>> \/ \E y \in Sync : sync[y] \in {"ask", "tell"}
    \/ \E c \in Client : pc[c] \notin {"new", "loop", "gone"}

\* Writers never wait for each other in a circle: all that is under way gets
\* where it is to go, also when clients vanish in the middle of a write to
\* them, and the one thing that can hold writers up for good is a browser that
\* stays connected and no longer reads at all.
NobodyIsStuck == Writing ~> ~Writing \/ \E c \in Client : []Full(c)

-----------------------------------------------------------------------------
(* The inductive invariant behind ExactStream *)

\* What the agent has written and the hub's reader has not taken.
NextInLine == FramesIn(toHub) = cur + 1 .. Len(out) /\ Ascending(toHub)

\* The reader writes to clients that want the frame and were there before it.
RestIsDue ==
    \A c \in rest : cur > 0 /\ first[c] \in 1 .. cur /\ Wants(c, out[cur])

\* Nobody knows of a client that has not joined.
Unknown(c) ==
    /\ c \notin clients \union rest
    /\ \A d \in Client : c \notin todo[d]
    /\ \A y \in Sync : c \notin untold[y]
    /\ toBrowser[c] = <<>> /\ got[c] = <<>>
NewIsUnknown == \A c \in Client : pc[c] = "new" => Unknown(c)

\* A client that was added starts with the frame after the current one, or an
\* earlier one.
StartsInTime == \A c \in clients : first[c] \in 1 .. cur + 1

IInv == TypeOK /\ NextInLine /\ RestIsDue /\ NewIsUnknown /\ StartsInTime /\ ExactStream
=============================================================================
