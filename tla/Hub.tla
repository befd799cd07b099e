-------------------------------- MODULE Hub ---------------------------------
(***************************************************************************)
(* The hub (internal/hub/hub.go): who is registered as the agent, which    *)
(* clients belong to it, who holds the write lease and whether an operator *)
(* has locked web input.                                                   *)
(*                                                                         *)
(* Every WebSocket connection has a goroutine of its own.  The goroutines  *)
(* share the agentState under h.mu, and every helper (hasWriter, setWriter,*)
(* clientSnapshot, ...) is a critical section of its own, so a handler     *)
(* that calls three of them in a row can be interrupted between any two.   *)
(* An action is therefore one critical section together with the handler's *)
(* local work up to the next one; pc[c] names the section that comes next. *)
(* A write to a connection is a step of its own as well: it has no         *)
(* deadline, and while the other end stays connected without reading, it   *)
(* need never return.  Such a write is a step that is not taken (HeldUp).  *)
(*                                                                         *)
(* A hub is configured with the secret of one agent (cmd/hubd and          *)
(* cmd/runeshell fill agentSecrets with one entry), so h.agents has at     *)
(* most one entry: that of TheAgent.  The agent may connect several times, *)
(* and the connections may overlap.  A registration creates a new          *)
(* agentState, so the connection identifies the agentState.                *)
(*                                                                         *)
(* A client connection gets a client id nobody had before, so Client is    *)
(* both: a browser that reconnects is another member of Client.            *)
(***************************************************************************)
EXTENDS ClientAttach, FiniteSets

CONSTANTS
    AgentConn,     \* the connections the agent makes, one after another or overlapping
    Client,        \* the client connections
    TheAgent,      \* the agent id the hub has a secret for
    NoConn,        \* the nil *agentState
    NoClient,      \* the empty writer id
    Token,         \* the claims clients come with
    FirstMessage,  \* the first messages clients send
    Kind,          \* the kinds of later messages clients send: request_write,
                   \* release_write, input, focus, bad, and pass: an attach,
                   \* detach or resize
    LockSession    \* the sessions operators name in lock requests

ASSUME NoConnAssumption   == NoConn \notin AgentConn
ASSUME NoClientAssumption == NoClient \notin Client
ASSUME TokenAssumption == Token \subseteq Claims
ASSUME FirstMessageAssumption ==
    FirstMessage \subseteq
        [type : STRING, version : Int, agent : Name, session : Name]

VARIABLES
    agent,    \* h.agents[TheAgent]: the registered connection, or NoConn
    clients,  \* its agentState.clients
    writer,   \* its agentState.writer
    write,    \* its agentState.write: web input is not locked
    sess,     \* its agentState.sess
    aconn,    \* what became of each connection of the agent
    pc,       \* what the handler of each client does next
    link,     \* whether each client's WebSocket still carries messages
    claims,   \* the claims each handler goes by
    handle,   \* the *agentState each handler looked up: local variable agent
    focus,    \* local variable focusActive
    snap,     \* the clients a broadcast has still to tell
    seen,     \* the writer a broadcast has read
    ret,      \* where the handler goes after its broadcast
    told,     \* the last write_status each client was sent, forgotten when its
              \* connection is cut
    lawful,   \* history: the lease and the lock allowed the input at once
    clash,    \* history: the writer last changed while a broadcast ran
    orphans   \* history: the clients whose agentState was replaced under them

state  == <<agent, clients, writer, write, sess>>
locals == <<claims, handle, focus, snap, seen, ret>>
ghosts == <<lawful, clash, orphans>>
vars   == <<state, aconn, pc, link, locals, told, ghosts>>

Location ==
    {"new", "lookup", "refuse", "add", "setsession", "hello", "firststatus", "loop",
     "haswriter", "iswriter", "setwriter", "clearwriter",
     "snapshot", "readwriter", "send", "inputwriter", "forward", "pass",
     "remove", "closed"}

\* The handler has added its client and not yet removed it.
Serving == {"setsession", "hello", "firststatus", "loop",
            "haswriter", "iswriter", "setwriter", "clearwriter",
            "inputwriter", "forward", "pass", "remove"}
Broadcasting == {"snapshot", "readwriter", "send"}
InService == {c \in Client : \/ pc[c] \in Serving
                             \/ pc[c] \in Broadcasting /\ ret[c] = "loop"}
Busy(c) == pc[c] \in Broadcasting

-----------------------------------------------------------------------------
Init ==
    /\ agent = NoConn /\ clients = {} /\ writer = NoClient
    /\ write = TRUE /\ sess = Blank
    /\ aconn  = [a \in AgentConn |-> "new"]
    /\ pc     = [c \in Client |-> "new"]
    /\ link   = [c \in Client |-> "up"]
    /\ claims = [c \in Client |-> NoClaims]
    /\ handle = [c \in Client |-> NoConn]
    /\ focus  = [c \in Client |-> TRUE]
    /\ snap   = [c \in Client |-> {}]
    /\ seen   = [c \in Client |-> NoClient]
    /\ ret    = [c \in Client |-> "loop"]
    /\ told   = [c \in Client |-> "nothing"]
    /\ lawful = [c \in Client |-> FALSE]
    /\ clash  = FALSE
    /\ orphans = {}

Goto(c, l) == pc' = [pc EXCEPT ![c] = l]

\* A step that only decides where the handler goes on.
Proceed(c, from, to) ==
    /\ pc[c] = from /\ Goto(c, to)
    /\ UNCHANGED <<state, aconn, link, locals, told, ghosts>>

-----------------------------------------------------------------------------
(* The agent's connections *)

\* ServeAgentConn starts: registerAgent puts a new agentState in the place of
\* whatever was there, and tells nobody.
AgentConnect(a) ==
    /\ aconn[a] = "new"
    /\ aconn' = [aconn EXCEPT ![a] = "serving"]
    /\ agent' = a /\ clients' = {} /\ writer' = NoClient
    /\ write' = TRUE /\ sess' = Blank
    /\ orphans' = orphans \union clients
    /\ UNCHANGED <<pc, link, locals, told, lawful, clash>>

\* Connections are closed from outside of their handlers.
Cut(cs) ==
    /\ link' = [c \in Client |-> IF c \in cs THEN "down" ELSE link[c]]
    /\ told' = [c \in Client |-> IF c \in cs THEN "nothing" ELSE told[c]]

\* The entry of the agent is deleted.
NoEntry ==
    /\ agent' = NoConn /\ clients' = {} /\ writer' = NoClient
    /\ write' = TRUE /\ sess' = Blank

\* Mutant: whoever leaves takes the entry away.
UnregisterAnyone(a) == Cut(clients) /\ NoEntry

\* Mutant: the clients' connections stay open.
UnregisterQuietly(a) ==
    IF agent = a THEN NoEntry /\ UNCHANGED <<link, told>>
                 ELSE UNCHANGED <<state, link, told>>

\* unregisterAgent: only the connection that is registered takes the entry
\* away, and closes the connections of the clients it has then.
Unregister(a) ==
    IF agent = a THEN Cut(clients) /\ NoEntry
                 ELSE UNCHANGED <<state, link, told>>

\* A read from the agent fails and ServeAgentConn returns.
AgentExit(a) ==
    /\ aconn[a] = "serving"
    /\ aconn' = [aconn EXCEPT ![a] = "done"]
    /\ Unregister(a)
    /\ UNCHANGED <<pc, locals, ghosts>>

-----------------------------------------------------------------------------
(* A client attaches *)

\* The handler returns: conn.Close runs, its local variables are gone.
Close(c) ==
    /\ Goto(c, "closed")
    /\ link'   = [link   EXCEPT ![c] = "down"]
    /\ claims' = [claims EXCEPT ![c] = NoClaims]
    /\ handle' = [handle EXCEPT ![c] = NoConn]
    /\ focus'  = [focus  EXCEPT ![c] = TRUE]
    /\ snap'   = [snap   EXCEPT ![c] = {}]
    /\ seen'   = [seen   EXCEPT ![c] = NoClient]
    /\ ret'    = [ret    EXCEPT ![c] = "loop"]

\* The first message is read and judged; nothing shared is touched.
ReadAttach(c) ==
    /\ pc[c] = "new"
    /\ \E token \in Token, msg \in FirstMessage :
          IF AttachError(token, msg) = "ok"
          THEN /\ Goto(c, "lookup")
               /\ claims' = [claims EXCEPT ![c] = Claimed(token, msg)]
               /\ UNCHANGED <<link, handle, focus, snap, seen, ret>>
          ELSE Close(c)
    /\ UNCHANGED <<state, aconn, told, ghosts>>

\* currentAgent; without one the client will be refused.
Lookup(c) ==
    /\ pc[c] = "lookup"
    /\ IF agent = NoConn \/ claims[c].agent # TheAgent
       THEN Goto(c, "refuse") /\ UNCHANGED handle
       ELSE Goto(c, "add") /\ handle' = [handle EXCEPT ![c] = agent]
    /\ UNCHANGED <<state, aconn, link, claims, focus, snap, seen, ret, told, ghosts>>

\* sendError: the client is told agent_offline, which may wait for it to read,
\* and the handler returns.
Refuse(c) ==
    /\ pc[c] = "refuse" /\ Close(c)
    /\ UNCHANGED <<state, aconn, told, ghosts>>

\* addClient looks the agent up again, by its id.
AddClient(c) ==
    /\ pc[c] = "add"
    /\ IF agent = NoConn
       THEN Goto(c, "refuse") /\ UNCHANGED clients
       ELSE Goto(c, "setsession") /\ clients' = clients \union {c}
    /\ UNCHANGED <<agent, writer, write, sess, aconn, link, locals, told, ghosts>>

\* setSession: the agentState remembers the session of the last comer.
SetSession(c) ==
    /\ pc[c] = "setsession"
    /\ Goto(c, "hello")
    /\ sess' = IF agent = NoConn THEN sess ELSE claims[c].session
    /\ UNCHANGED <<agent, clients, writer, write, aconn, link, locals,
                   told, ghosts>>

\* The agent is told to attach the session, the client that it is attached; the
\* two writes may wait for their readers, and the handler leaves if the second
\* one fails.
Hello(c) ==
    \/ Proceed(c, "hello", "firststatus")
    \/ link[c] = "down" /\ Proceed(c, "hello", "remove")

\* isWriter: the lease as the handler of c sees it.
IsWriter(c) == agent # NoConn /\ writer = c

\* client.writeJSON of a write_status: a write to a dead connection fails and
\* nobody looks at the error.
Tell(d, isWriter) ==
    told' = IF link[d] = "up"
            THEN [told EXCEPT ![d] = IF isWriter THEN "writer" ELSE "viewer"]
            ELSE told

\* isWriter and sendWriteStatus, which may wait for the client to read.  Only
\* c's own handler can make c the writer, so the answer cannot change on the
\* way and the two are one step.
FirstStatus(c) ==
    /\ pc[c] = "firststatus"
    /\ Goto(c, "loop")
    /\ Tell(c, IsWriter(c))
    /\ UNCHANGED <<state, aconn, link, locals, ghosts>>

-----------------------------------------------------------------------------
(* The write lease *)

\* Mutant: the lock is forgotten.
RegisteredOnly == agent # NoConn

\* webWritable: nobody has locked web input.
WebWritable == agent # NoConn /\ write

\* The next message is a request_write: the claims and the lock are looked at.
\* A refusal (write_denied) leaves everything as it was.
RequestWrite(c) ==
    /\ "request_write" \in Kind
    /\ claims[c].write /\ WebWritable
    /\ Proceed(c, "loop", "haswriter")

\* h.hasWriter(...)
HasWriter(c) ==
    Proceed(c, "haswriter",
            IF agent # NoConn /\ writer # NoClient THEN "iswriter" ELSE "setwriter")

\* ... && !h.isWriter(...): another_writer.
CheckOwnLease(c) == Proceed(c, "iswriter", IF IsWriter(c) THEN "setwriter" ELSE "loop")

\* The handler goes on to broadcastWriteStatus, and from there to l.
Broadcast(c, l) ==
    /\ Goto(c, "snapshot")
    /\ ret' = [ret EXCEPT ![c] = l]
    /\ clash' = \E d \in Client \ {c} : Busy(d)

\* setWriter looks at nothing but whether there is an agent.
NewWriter(c) == IF agent = NoConn THEN writer ELSE c

SetWriter(c) ==
    /\ pc[c] = "setwriter"
    /\ writer' = NewWriter(c)
    /\ Broadcast(c, "loop")
    /\ UNCHANGED <<agent, clients, write, sess, aconn, link, claims, handle,
                   focus, snap, seen, told, lawful, orphans>>

\* The next message is a release_write: isWriter.
ReleaseWrite(c) ==
    "release_write" \in Kind /\ IsWriter(c) /\ Proceed(c, "loop", "clearwriter")

\* clearWriter drops the lease whoever holds it.
ClearWriter(c) ==
    /\ pc[c] = "clearwriter"
    /\ writer' = NoClient
    /\ Broadcast(c, "loop")
    /\ UNCHANGED <<agent, clients, write, sess, aconn, link, claims, handle,
                   focus, snap, seen, told, lawful, orphans>>

\* The end of the broadcast is the end of the handler if that was leaving.
EndBroadcast(c) ==
    IF ret[c] = "closed"
    THEN Close(c)
    ELSE /\ Goto(c, "loop")
         /\ snap' = [snap EXCEPT ![c] = {}]
         /\ seen' = [seen EXCEPT ![c] = NoClient]
         /\ UNCHANGED <<link, claims, handle, focus, ret>>

\* Mutant: the client that caused the change is not told of it.
OtherClients(c) == clients \ {c}

\* Whom a broadcast tells.
Recipients(c) == clients

\* broadcastWriteStatus, first section: clientSnapshot.
Snapshot(c) ==
    /\ pc[c] = "snapshot"
    /\ IF Recipients(c) = {}
       THEN EndBroadcast(c)
       ELSE /\ Goto(c, "readwriter")
            /\ snap' = [snap EXCEPT ![c] = Recipients(c)]
            /\ UNCHANGED <<link, claims, handle, focus, seen, ret>>
    /\ UNCHANGED <<state, aconn, told, ghosts>>

\* broadcastWriteStatus, second section: the writer is read.
ReadWriter(c) ==
    /\ pc[c] = "readwriter"
    /\ Goto(c, "send")
    /\ seen' = [seen EXCEPT ![c] = writer]
    /\ UNCHANGED <<state, aconn, link, claims, handle, focus, snap, ret,
                   told, ghosts>>

\* broadcastWriteStatus, the writes: in the order of a Go map, without h.mu,
\* each of them waiting for its client to read.
Send(c) ==
    /\ pc[c] = "send"
    /\ \E d \in snap[c] :
          /\ Tell(d, d = seen[c])
          /\ IF snap[c] = {d}
             THEN EndBroadcast(c)
             ELSE /\ snap' = [snap EXCEPT ![c] = @ \ {d}]
                  /\ UNCHANGED <<pc, link, claims, handle, focus, seen, ret>>
    /\ UNCHANGED <<state, aconn, ghosts>>

-----------------------------------------------------------------------------
(* Input *)

\* A binary message: the claims, the focus and the lock are looked at; what
\* fails a test is dropped without a word.
Input(c) ==
    /\ pc[c] = "loop" /\ "input" \in Kind
    /\ claims[c].write /\ focus[c] /\ WebWritable
    /\ Goto(c, "inputwriter")
    /\ lawful' = [lawful EXCEPT ![c] = agent # NoConn /\ write /\ writer = c]
    /\ UNCHANGED <<state, aconn, link, locals, told, clash, orphans>>

\* Then the lease.
InputWriter(c) ==
    /\ pc[c] = "inputwriter"
    /\ IF IsWriter(c)
       THEN Goto(c, "forward") /\ UNCHANGED lawful
       ELSE Goto(c, "loop") /\ lawful' = [lawful EXCEPT ![c] = FALSE]
    /\ UNCHANGED <<state, aconn, link, locals, told, clash, orphans>>

\* The frame is written to the connection the handler looked up when it began,
\* which may wait for the agent to read, or dropped if it does not name the
\* active session.
Forward(c) ==
    /\ pc[c] = "forward"
    /\ Goto(c, "loop")
    /\ lawful' = [lawful EXCEPT ![c] = FALSE]
    /\ UNCHANGED <<state, aconn, link, locals, told, clash, orphans>>

-----------------------------------------------------------------------------
(* The other messages, and the end of a client *)

Focus(c) ==
    /\ pc[c] = "loop" /\ "focus" \in Kind
    /\ focus' = [focus EXCEPT ![c] = ~@]
    /\ UNCHANGED <<state, aconn, pc, link, claims, handle, snap, seen, ret,
                   told, ghosts>>

\* An attach, detach or resize is passed on to the agent ...
PassOn(c) == "pass" \in Kind /\ Proceed(c, "loop", "pass")

\* ... on the connection looked up at the start, which may wait for the agent
\* to read; an error of the write is not looked at.
Passed(c) == Proceed(c, "pass", "loop")

\* A message that is no JSON, names no session where it must, or names one the
\* claims do not cover: the client is told and the handler leaves.
BadMessage(c) == "bad" \in Kind /\ Proceed(c, "loop", "remove")

\* Mutant: the loop goes on after a read error.
KeepReading(c) == Goto(c, "loop")

\* The main loop returns and the deferred calls run.
Leave(c) == Goto(c, "remove")

\* ReadMessage returns an error.
ReadErr(c) ==
    /\ link[c] = "down"
    /\ \/ pc[c] = "new" /\ Close(c)
       \/ pc[c] = "loop" /\ Leave(c) /\ UNCHANGED <<link, locals>>
    /\ UNCHANGED <<state, aconn, told, ghosts>>

\* Mutant: the client stays in the map.
StayingClients(c) == clients

\* The clients once c is deleted.
RemainingClients(c) == clients \ {c}

\* Mutant: the lease of a client that leaves is not looked at.
NeverWriter(c) == FALSE

\* removeClient's result.
WasWriter(c) == IsWriter(c)

\* The deferred removeClient, by client id in the agentState registered now;
\* a writer that leaves is broadcast.
RemoveClient(c) ==
    /\ pc[c] = "remove"
    /\ clients' = RemainingClients(c)
    /\ IF WasWriter(c)
       THEN /\ writer' = NoClient
            /\ Broadcast(c, "closed")
            /\ UNCHANGED <<link, claims, handle, focus, snap, seen>>
       ELSE Close(c) /\ UNCHANGED <<writer, clash>>
    /\ UNCHANGED <<agent, write, sess, aconn, told, lawful, orphans>>

\* The network or the browser ends a connection.
Drop(c) ==
    /\ pc[c] # "closed" /\ link[c] = "up"
    /\ Cut({c})
    /\ UNCHANGED <<state, aconn, pc, locals, ghosts>>

-----------------------------------------------------------------------------
(* The operator's lock                                                       *)

\* setWebWritable; without an agent, or for another session than that of the
\* client that attached last, the answer is 404.
SetWebWritable(s, enabled) ==
    /\ agent # NoConn
    /\ sess = Blank \/ sess = s
    /\ write' = enabled
    /\ UNCHANGED <<agent, clients, writer, sess, aconn, pc, link, locals,
                   told, ghosts>>

\* LockHandler: "none" locks, "web" unlocks.
LockHandler(s, who) == s # Blank /\ SetWebWritable(s, who = "web")

-----------------------------------------------------------------------------
\* All connections are over: the hub waits for new ones, the model has none.
Terminating ==
    /\ \A a \in AgentConn : aconn[a] = "done"
    /\ \A c \in Client : pc[c] = "closed"
    /\ UNCHANGED vars

\* What a handler does on its own once it has read a message.
HandlerStep(c) ==
    \/ Lookup(c) \/ Refuse(c) \/ AddClient(c) \/ SetSession(c) \/ Hello(c)
    \/ FirstStatus(c)
    \/ HasWriter(c) \/ CheckOwnLease(c) \/ SetWriter(c) \/ ClearWriter(c)
    \/ Snapshot(c) \/ ReadWriter(c) \/ Send(c)
    \/ InputWriter(c) \/ Forward(c) \/ Passed(c)
    \/ RemoveClient(c)

\* What it does because the client sent something.
ReadStep(c) ==
    \/ ReadAttach(c)
    \/ RequestWrite(c) \/ ReleaseWrite(c) \/ Input(c) \/ Focus(c) \/ PassOn(c)
    \/ BadMessage(c)

Next ==
    \/ \E a \in AgentConn : AgentConnect(a) \/ AgentExit(a)
    \/ \E c \in Client : HandlerStep(c) \/ ReadStep(c) \/ ReadErr(c) \/ Drop(c)
    \/ \E s \in LockSession, who \in {"web", "none"} : LockHandler(s, who)
    \/ Terminating

Spec == Init /\ [][Next]_vars

\* The handler is in a write that waits, perhaps forever, for the other end of
\* a connection that is still there: for a client that does not read, or for an
\* agent that does not.  A write to a connection that is gone returns.
HeldUp(c) ==
    \/ pc[c] \in {"refuse", "hello", "firststatus"} /\ link[c] = "up"
    \/ pc[c] \in {"hello", "forward", "pass"} /\ aconn[handle[c]] = "serving"
    \/ pc[c] = "send" /\ \E d \in snap[c] : link[d] = "up"

\* The Go scheduler runs every goroutine that can run, but no write ends because
\* of it while the other end stays connected and does not read.  Whether a
\* client says anything more is up to the client, but of a connection that is
\* down only the few messages already buffered can still be read, so that the
\* read error comes in the end however often a message came before it.
Fairness ==
    \A c \in Client :
        WF_vars(~HeldUp(c) /\ HandlerStep(c)) /\ SF_vars(ReadErr(c))

FairSpec == Spec /\ Fairness

=============================================================================
