---------------------------- MODULE SessionSync -----------------------------
(***************************************************************************)
(* The list of tmux sessions: how the hub asks the agent for it            *)
(* (requestSessions, internal/hub/hub.go), how the agent answers           *)
(* (list_sessions, internal/agent/agent.go), and how the answer reaches    *)
(* the clients (syncSessions, broadcastSessions) or the HTTP handler       *)
(* (SessionsHandler).                                                      *)
(*                                                                         *)
(* A call of requestSessions runs in a goroutine of its own and gets its   *)
(* answer from a one-slot channel that the reader of the agent's           *)
(* connection finds through h.pendingSessions; a timer bounds the wait.    *)
(* Several calls run at once: every attach and every detach of every       *)
(* client starts one.  The request id is the call itself, as ids are never *)
(* used twice (h.reqID only grows).                                        *)
(*                                                                         *)
(* What else the connections carry, and the lease, is module Hub's; here a *)
(* client only joins, leaves, and attaches to or detaches from sessions.   *)
(*                                                                         *)
(* A write to the agent or to a client has no deadline, and while the      *)
(* other end stays connected without reading, it need never return: the    *)
(* step is then not taken (HeldUp).  The timer of a call does not run      *)
(* before its request is written.                                          *)
(***************************************************************************)
EXTENDS Integers, Sequences

CONSTANTS
    Call,       \* the calls of requestSessions
    AgentConn,  \* the connections of the agent, one after the other
    Client,     \* the client connections
    Session,    \* the names of tmux sessions
    NoConn,     \* no connection
    MaxChanges  \* bound: how often the set of tmux sessions changes

ASSUME NoConnAssumption == NoConn \notin AgentConn

VARIABLES
    agent,    \* the registered connection of the agent, or NoConn
    conn,     \* what became of each connection
    clients,  \* the clients of the registered agentState
    handler,  \* whether the handler of each client has begun and ended
    pc,       \* what each call does next
    http,     \* the calls that SessionsHandler is making
    target,   \* the connection a call is writing its request to, or NoConn
    pending,  \* h.pendingSessions
    slot,     \* the channel of each call: a sequence of at most one list
    result,   \* the list requestSessions returned
    snap,     \* the clients each broadcast has still to tell
    toAgent,  \* the list_sessions messages on their way to the agent
    toHub,    \* the sessions messages on their way to the hub
    listing,  \* the answer the agent's loop is about to write, if any
    reader,   \* the answer the reader of each connection is delivering
    live,     \* the tmux sessions there are
    changes,  \* how often they changed
    shown,    \* the list each client was last sent
    window,   \* history: what live has been since each call asked, until its end
    alone,    \* history: the syncs begun since live last changed, while no
              \* other call was running
    failed,   \* history: the calls whose list is empty because tmux could not
              \* be asked, and not because there was no session
    reached   \* history: the clients each call has told

hubState   == <<agent, conn, clients, handler>>
callState  == <<pc, http, target, pending, slot, result, snap>>
wires      == <<toAgent, toHub, listing, reader>>
tmux       == <<live, changes>>
ghosts     == <<window, alone, failed, reached>>
vars == <<hubState, callState, wires, tmux, shown, ghosts>>

Lists   == SUBSET Session     \* the lists of sessions
Answers == [call : Call, list : Lists]
Running(r) == pc[r] \notin {"idle", "done"}

Init ==
    /\ agent = NoConn /\ conn = [a \in AgentConn |-> "new"]
    /\ clients = {} /\ handler = [c \in Client |-> "new"]
    /\ pc     = [r \in Call |-> "idle"]
    /\ http = {} /\ pending = {}
    /\ target = [r \in Call |-> NoConn]
    /\ slot   = [r \in Call |-> <<>>]
    /\ result = [r \in Call |-> {}]
    /\ snap   = [r \in Call |-> {}]
    /\ toAgent = [a \in AgentConn |-> <<>>]
    /\ toHub   = [a \in AgentConn |-> <<>>]
    /\ listing = [a \in AgentConn |-> <<>>]
    /\ reader  = [a \in AgentConn |-> <<>>]
    /\ live \in Lists /\ changes = 0
    /\ shown = [c \in Client |-> {}]
    /\ window = [r \in Call |-> {}]
    /\ alone = {} /\ failed = {}
    /\ reached = [r \in Call |-> {}]

Goto(r, l) == pc' = [pc EXCEPT ![r] = l]

-----------------------------------------------------------------------------
(* The agent's connections and the tmux sessions *)

\* The agent dials again only when its last connection is down; the hub may
\* not have noticed yet, and replaces the agentState with a new one.
AgentConnect(a) ==
    /\ conn[a] = "new" /\ \A b \in AgentConn : conn[b] # "up"
    /\ conn' = [conn EXCEPT ![a] = "up"]
    /\ agent' = a /\ clients' = {}
    /\ UNCHANGED <<handler, callState, wires, tmux, shown, ghosts>>

\* The connection breaks.  What the agent has not read is lost; what it wrote
\* may still be read by the hub.
Break(a) ==
    /\ conn[a] = "up"
    /\ conn' = [conn EXCEPT ![a] = "broken"]
    /\ toAgent' = [toAgent EXCEPT ![a] = <<>>]
    /\ listing' = [listing EXCEPT ![a] = <<>>]
    /\ UNCHANGED <<agent, clients, handler, callState, toHub, reader, tmux,
                   shown, ghosts>>

\* The hub's reader gets the error, and unregisterAgent removes the entry if
\* it is this connection's.  The handlers of its clients end in their own time
\* (Leave): what they have read already they still handle.
HubNotices(a) ==
    /\ conn[a] = "broken" /\ reader[a] = <<>>
    /\ conn' = [conn EXCEPT ![a] = "gone"]
    /\ toHub' = [toHub EXCEPT ![a] = <<>>]
    /\ IF agent = a
       THEN agent' = NoConn /\ clients' = {}
       ELSE UNCHANGED <<agent, clients>>
    /\ UNCHANGED <<handler, callState, toAgent, listing, reader, tmux, shown, ghosts>>

\* A tmux session begins or ends: because of an attach or a detach, or of a
\* user at a terminal.
SessionsChange(s) ==
    /\ changes < MaxChanges /\ changes' = changes + 1
    /\ live' = IF s \in live THEN live \ {s} ELSE live \union {s}
    /\ window' = [r \in Call |-> IF r \in pending
                                 THEN window[r] \union {live'} ELSE window[r]]
    /\ alone' = {}
    /\ UNCHANGED <<hubState, callState, wires, shown, failed, reached>>

\* The list of tmux sessions, empty when tmux cannot be asked: an error of tmux
\* is not looked at.
Listed(fails) == IF fails THEN {} ELSE live

\* The agent's loop reads a list_sessions message and asks tmux.
AgentLists(a) ==
    /\ conn[a] = "up" /\ toAgent[a] # <<>> /\ listing[a] = <<>>
    /\ toAgent' = [toAgent EXCEPT ![a] = Tail(@)]
    /\ \E fails \in BOOLEAN :
          LET r == Head(toAgent[a])
              list == Listed(fails)
          IN  /\ listing' = [listing EXCEPT ![a] = <<[call |-> r, list |-> list]>>]
              /\ failed' = IF list = live THEN failed ELSE failed \union {r}
    /\ UNCHANGED <<hubState, callState, toHub, reader, tmux, shown, window, alone,
                   reached>>

AgentReplies(a) ==
    /\ conn[a] = "up" /\ listing[a] # <<>>
    /\ toHub' = [toHub EXCEPT ![a] = Append(@, Head(listing[a]))]
    /\ listing' = [listing EXCEPT ![a] = <<>>]
    /\ UNCHANGED <<hubState, callState, toAgent, reader, tmux, shown, ghosts>>

-----------------------------------------------------------------------------
(* The reader of the agent's connection *)

\* Mutant: the oldest call that waits gets whatever list comes.
AnyPending(m) == IF pending = {} THEN <<>>
                 ELSE <<[m EXCEPT !.call = CHOOSE r \in pending : TRUE]>>

\* deliverSessions, under pendingMu: the channel of the request id, unless
\* the call has given up.
FindPending(m) == IF m.call \in pending THEN <<m>> ELSE <<>>

ReaderTakes(a) ==
    /\ conn[a] \in {"up", "broken"} /\ toHub[a] # <<>> /\ reader[a] = <<>>
    /\ reader' = [reader EXCEPT ![a] = FindPending(Head(toHub[a]))]
    /\ toHub' = [toHub EXCEPT ![a] = Tail(@)]
    /\ UNCHANGED <<hubState, callState, toAgent, listing, tmux, shown, ghosts>>

\* deliverSessions, after the unlock: a send that never waits.  The call may
\* have given up by now: its channel takes the list, and nobody reads it.
ReaderDelivers(a) ==
    /\ reader[a] # <<>>
    /\ LET m == Head(reader[a])
       IN  slot' = [slot EXCEPT ![m.call] = IF @ = <<>> THEN <<m.list>> ELSE @]
    /\ reader' = [reader EXCEPT ![a] = <<>>]
    /\ UNCHANGED <<hubState, pc, http, target, pending, result, snap, toAgent, toHub,
                   listing, tmux, shown, ghosts>>

-----------------------------------------------------------------------------
(* The calls *)

\* Calls differ in nothing but their names, and a new one gets the next.
Begin(r) ==
    /\ pc[r] = "idle" /\ r = CHOOSE x \in Call : pc[x] = "idle"
    /\ Goto(r, "lookup")

\* go h.syncSessions(...): the call will tell the clients.
BeginSync(r) ==
    /\ Begin(r)
    /\ alone' = IF \E o \in Call : Running(o) THEN alone ELSE alone \union {r}

\* A client joins (addClient), and its handler starts a sync.
Join(c, r) ==
    /\ agent # NoConn /\ handler[c] = "new"
    /\ BeginSync(r)
    /\ clients' = clients \union {c}
    /\ handler' = [handler EXCEPT ![c] = "serving"]
    /\ UNCHANGED <<agent, conn, http, target, pending, slot, result, snap, wires, tmux,
                   shown, window, failed, reached>>

\* A client's handler passes an attach or a detach on, and starts a sync.
Resync(c, r) ==
    /\ handler[c] = "serving" /\ BeginSync(r)
    /\ UNCHANGED <<hubState, http, target, pending, slot, result, snap, wires, tmux,
                   shown, window, failed, reached>>

\* SessionsHandler serves GET /api/sessions.
HttpRequest(r) ==
    /\ Begin(r) /\ http' = http \union {r}
    /\ UNCHANGED <<hubState, target, pending, slot, result, snap, wires, tmux, shown,
                   ghosts>>

\* A client goes: removeClient.
Leave(c) ==
    /\ handler[c] = "serving"
    /\ clients' = clients \ {c} /\ handler' = [handler EXCEPT ![c] = "gone"]
    /\ UNCHANGED <<agent, conn, callState, wires, tmux, shown, ghosts>>

\* The goroutine of a call ends, and its local variables with it.
Ends(r) ==
    /\ Goto(r, "done")
    /\ http' = http \ {r} /\ window' = [window EXCEPT ![r] = {}]

\* requestSessions up to its write: without an agent it fails; otherwise it
\* remembers the connection and registers the channel.
Ask(r) ==
    /\ pc[r] = "lookup"
    /\ IF agent = NoConn
       THEN Ends(r) /\ UNCHANGED <<target, pending>>
       ELSE /\ Goto(r, "write")
            /\ target' = [target EXCEPT ![r] = agent]
            /\ pending' = pending \union {r}
            /\ window' = [window EXCEPT ![r] = {live}]
            /\ UNCHANGED http
    /\ UNCHANGED <<hubState, slot, result, snap, wires, tmux, shown, alone, failed,
                   reached>>

\* list_sessions is written, to whatever has become of that connection, and
\* nobody looks whether that succeeds.  There is no timer yet: an agent that is
\* connected and does not read may hold the call here.
Write(r) ==
    /\ pc[r] = "write" /\ Goto(r, "wait")
    /\ toAgent' = IF conn[target[r]] = "up"
                  THEN [toAgent EXCEPT ![target[r]] = Append(@, r)] ELSE toAgent
    /\ target' = [target EXCEPT ![r] = NoConn]
    /\ UNCHANGED <<hubState, http, pending, slot, result, snap, toHub, listing, reader,
                   tmux, shown, ghosts>>

\* Mutant: the entry stays behind.
KeepPending(r) == pending

\* The deferred delete.
Forget(r) == pending \ {r}

Answer(r) ==
    /\ pc[r] = "wait" /\ slot[r] # <<>>
    /\ result' = [result EXCEPT ![r] = Head(slot[r])]
    /\ slot' = [slot EXCEPT ![r] = <<>>]
    /\ pending' = Forget(r)
    /\ Goto(r, IF r \in http THEN "reply" ELSE "snapshot")
    /\ UNCHANGED <<hubState, http, target, snap, wires, tmux, shown, ghosts>>

\* Mutant: the call waits for its answer, however long that takes.
NoTimer(r) == FALSE

\* The timer fires; if the answer is there too, select picks either.
TimerFires(r) == pc[r] = "wait"

Timeout(r) ==
    /\ TimerFires(r)
    /\ pending' = Forget(r)
    /\ Ends(r)
    /\ UNCHANGED <<hubState, target, slot, result, snap, wires, tmux, shown, alone,
                   failed, reached>>

\* SessionsHandler writes the list to its caller.
Reply(r) ==
    /\ pc[r] = "reply" /\ Ends(r)
    /\ UNCHANGED <<hubState, target, pending, slot, result, snap, wires, tmux, shown,
                   alone, failed, reached>>

\* The call goes on telling the clients in cs, or ends if there are none.
TellOrEnd(r, cs) ==
    /\ snap' = [snap EXCEPT ![r] = cs]
    /\ IF cs = {} THEN Ends(r) ELSE Goto(r, "tell") /\ UNCHANGED <<http, window>>

\* broadcastSessions: the clients there are now, not those there were when
\* the sync began.
Snapshot(r) ==
    /\ pc[r] = "snapshot" /\ TellOrEnd(r, clients)
    /\ UNCHANGED <<hubState, target, pending, slot, result, wires, tmux, shown, alone,
                   failed, reached>>

\* A client is told, which may wait for it to read.
Tell(r, c) ==
    /\ pc[r] = "tell" /\ c \in snap[r] /\ TellOrEnd(r, snap[r] \ {c})
    /\ shown' = [shown EXCEPT ![c] = result[r]]
    /\ reached' = [reached EXCEPT ![r] = @ \union {c}]
    /\ UNCHANGED <<hubState, target, pending, slot, result, wires, tmux, alone, failed>>

-----------------------------------------------------------------------------
CallStep(r) ==
    Ask(r) \/ Write(r) \/ Answer(r) \/ Timeout(r) \/ Reply(r) \/ Snapshot(r)
        \/ \E c \in Client : Tell(r, c)
ReaderStep(a) == ReaderTakes(a) \/ ReaderDelivers(a)
AgentStep(a)  == AgentLists(a) \/ AgentReplies(a)

Next ==
    \/ \E a \in AgentConn : \/ AgentConnect(a) \/ Break(a) \/ HubNotices(a)
                            \/ AgentStep(a) \/ ReaderStep(a)
    \/ \E s \in Session : SessionsChange(s)
    \/ \E c \in Client : Leave(c) \/ \E r \in Call : Join(c, r) \/ Resync(c, r)
    \/ \E r \in Call : HttpRequest(r) \/ CallStep(r)

Spec == Init /\ [][Next]_vars

\* The call is in a write that waits, perhaps forever, for somebody who is
\* connected to read: the agent, a client, or who made the HTTP request.
HeldUp(r) ==
    \/ pc[r] = "write" /\ conn[target[r]] = "up"
    \/ pc[r] = "tell" /\ \E c \in snap[r] : handler[c] = "serving"
    \/ pc[r] = "reply"

\* A goroutine that can go on does, and a timer fires.  Nothing is assumed of
\* the agent, of the reader of its connection, or of those who are written to.
FairSpec == Spec /\ \A r \in Call : WF_vars(~HeldUp(r) /\ CallStep(r))
-----------------------------------------------------------------------------
(* Properties *)

TypeOK ==
    /\ agent \in AgentConn \union {NoConn}
    /\ conn \in [AgentConn -> {"new", "up", "broken", "gone"}]
    /\ clients \subseteq Client
    /\ handler \in [Client -> {"new", "serving", "gone"}]
    /\ pc \in [Call -> {"idle", "lookup", "write", "wait", "reply", "snapshot", "tell", "done"}]
    /\ http \subseteq Call /\ pending \subseteq Call
    /\ target \in [Call -> AgentConn \union {NoConn}]
    /\ slot \in [Call -> Seq(Lists)]
    /\ result \in [Call -> Lists]
    /\ snap \in [Call -> SUBSET Client]
    /\ toAgent \in [AgentConn -> Seq(Call)]
    /\ toHub \in [AgentConn -> Seq(Answers)]
    /\ listing \in [AgentConn -> Seq(Answers)]
    /\ reader \in [AgentConn -> Seq(Answers)]
    /\ live \in Lists /\ changes \in Nat
    /\ shown \in [Client -> Lists]
    /\ window \in [Call -> SUBSET Lists]
    /\ alone \subseteq Call /\ failed \subseteq Call
    /\ reached \in [Call -> SUBSET Client]

\* A list that requestSessions returns was the truth at some instant of the
\* call, or is the empty list the agent sends when it cannot ask tmux: however
\* late or early an answer comes, and although answers to other calls and over
\* older connections are on their way (deliverSessions goes by the request id,
\* and a call that gave up has deleted its entry).
AnswerWasTrue ==
    \A r \in Call : pc[r] \in {"reply", "snapshot", "tell"} =>
        result[r] \in window[r] \union {{}}

\* h.pendingSessions holds exactly the calls that write or wait: none is left
\* behind by an answer, by a timeout, or by an answer that comes after a timeout,
\* and none is taken away while its call still waits.
PendingIsWaiting == pending = {r \in Call : pc[r] \in {"write", "wait"}}

\* The reader of the agent's connection never throws away the answer of a call
\* that still waits: the channel has room when deliverSessions gets there
\* although it looked the channel up before, outside the lock.
RoomForAnswer ==
    \A a \in AgentConn : reader[a] # <<>> =>
        slot[Head(reader[a]).call] = <<>>

\* A client that was told by a sync begun after the last change of the tmux
\* sessions, when no other sync was under way, shows the sessions there are;
\* whatever answers of earlier calls are still on their way, and whatever
\* syncs begin later.  Or it shows no session, because that sync or a later one
\* that told it was answered by an agent that could not ask tmux: the agent
\* sends that as an empty list (local.go:70-71, agent.go:165).
AloneSyncShowsTruth ==
    \A r \in alone : \A c \in reached[r] :
        \/ shown[c] = live
        \/ shown[c] = {} /\ \E o \in failed : c \in reached[o]

\* requestSessions returns and the sync ends, whether the agent answers, is
\* gone, does not answer, or comes back on another connection; unless the call
\* is in a write to somebody who is connected and does not read: the request to
\* the agent, which is written before the timer runs (hub.go:742), the list to a
\* client (hub.go:668), or the reply (hub.go:722).  A call takes each of its steps
\* once, so that in the end each call is over or stays in such a write.
CallsEnd ==
    (\E r \in Call : Running(r)) ~> (\A r \in Call : Running(r) => HeldUp(r))
-----------------------------------------------------------------------------
(* The inductive invariant behind AnswerWasTrue and PendingIsWaiting *)

Asked(r) == pc[r] \notin {"idle", "lookup", "write"}

\* If its call still waits, the answer was true during the call.
Good(m) == m.call \in pending => m.list \in window[m.call] \union {{}}

\* No message is about a call that has not written its request, and all answers
\* are good.
RequestsAsked ==
    \A a \in AgentConn : \A k \in 1..Len(toAgent[a]) : Asked(toAgent[a][k])
GoodOnes(q) ==
    \A a \in AgentConn : \A k \in 1..Len(q[a]) : Asked(q[a][k].call) /\ Good(q[a][k])
AnswersGood == GoodOnes(listing) /\ GoodOnes(toHub) /\ GoodOnes(reader)
SlotsGood ==
    \A r \in Call : slot[r] # <<>> =>
        Asked(r) /\ Good([call |-> r, list |-> Head(slot[r])])
WindowOpen == \A r \in pending : live \in window[r]

IInv ==
    /\ TypeOK /\ PendingIsWaiting /\ AnswerWasTrue
    /\ RequestsAsked /\ AnswersGood /\ SlotsGood /\ WindowOpen
-----------------------------------------------------------------------------
(* What asking for the list promises *)

\* An answer that was written and has not reached the channel of its call.
OnWay(m) ==
    \E b \in AgentConn :
        \/ \E k \in 1..Len(listing[b]) : m = listing[b][k]
        \/ \E k \in 1..Len(toHub[b]) : m = toHub[b][k]
        \/ \E k \in 1..Len(reader[b]) : m = reader[b][k]

\* The answer to a call, wherever it is.
AnswersTo(r) ==
    {l \in Lists : \/ OnWay([call |-> r, list |-> l])
                   \/ slot[r] # <<>> /\ Head(slot[r]) = l}

Phase(r) ==
    CASE pc[r] \in {"idle", "lookup"} -> "new" [] pc[r] \in {"write", "wait"} -> "asking"
      [] OTHER -> "over"

\* Each call gets a list taken for it alone, at one instant of the call, or
\* fails: requests and answers that overlap, come late, are lost with their
\* connection or come from an older one never show (hub.go:726-761).
Query == INSTANCE SessionQuery WITH
    truth <- live,
    phase <- [r \in Call |-> Phase(r)],
    taken <- [r \in Call |-> IF pc[r] \in {"write", "wait"} THEN AnswersTo(r) ELSE {}]
ImplementsQuery == Query!Spec
=============================================================================
