# runeshell in TLA+

Specifications, model-checking runs and machine-checked proofs for runeshell:
a hub that relays tmux sessions between an agent (the machine where the
sessions run) and browsers.  Every definition is translated from the Go source
of the repository; line numbers are in `PROJECT.json` (`map`).

    tlc -config HubSafe.cfg MCHub.tla          # one run, about a minute
    tlapm Hub_proofs.tla                       # one module of proofs

## 1. The system

    browser --WebSocket--> hub <--WebSocket-- agent --PTY--> tmux
    browser --WebSocket--> locald --PTY--> tmux        (local mode, no hub)

| Part | State it keeps | Operations | What makes it correct |
|---|---|---|---|
| **Hub** `internal/hub/hub.go` | `agents`: per agent id one `agentState` (connection, clients, `writer`, `write`, `sess`) under `mu` | `registerAgent`, `unregisterAgent`, `addClient`, `removeClient`, `setWriter`, `clearWriter`, `setWebWritable`, the loops `ServeAgentConn` and `ServeClientConn` | the write lease is held by a client that is there and may write; input is forwarded only under lease and no lock; an old connection does no harm to a new one; clients know who writes; clients end with their agent |
| **Session list** `hub.go` 653-761, `agent.go` 162-171 | `pendingSessions`: request id to one-slot channel, under `pendingMu` | `requestSessions`, `deliverSessions`, `syncSessions`, `SessionsHandler` | an answer reaches the call it is for and no other; no entry is left; every call ends |
| **Output and messages through the hub** `hub.go` 254-288, 375-492 | sockets with finite buffers, `writeMu` per connection | the reader of the agent's connection, the handlers, the agent's loop | each client gets its frames, once, in order; no circle of goroutines waiting for one another |
| **Agent** `internal/agent/agent.go` | the map of `agentSession`s of one connection | `RunWithRetry`, `Run`, `attachSession`, `closeSession`, `closeAll`, the forwarders | one PTY per tmux session; nothing outlives its connection; sessions are killed when closed |
| **PTY sessions** `internal/termserver/local.go` | a PTY, a process, an output channel of 32, a `sync.Once` | `Attach`, `Close`, `readLoop`, `wait`, `ListSessions` | `Close` from two goroutines is over once, for both; goroutines end |
| **Local server** `internal/termserver/server.go` | per connection a handler and a pump | `ServeConn` | shell and connection end each other |
| **Tokens and admin handlers** `token.go`, `hub.go` 134-245, 696-724 | none but the secrets | `Issue`, `Verify`, `authorizeClient`, `TokenHandler`, `LockHandler`, `SessionsHandler` | what a token allows, and for how long, also after a restart |
| **Mux frames** `internal/muxframe` | none | `Encode`, `Decode` | each inverts the other, up to the longest name |
| **Web client** `web/app.js` | `terminals`, `activeSession`, the WebSocket, `reconnectTimer`, `reconnectAttempt`, `agentOffline`, `reconnectPaused` | `addSession`, `closeSession`, `setActive`, `promptSession`, the open, message and close events, `scheduleReconnect` | the tabs follow the sessions; hub and browser agree on the active session when input arrives; a lost connection comes back, at a growing pace |
| **Commands** `cmd/*` | flags, the listener, `ctx` | start the parts, end them on a signal or by `log.Fatal` | a signal ends a process; the agent that is connected is the one that is registered; agents get through, in whatever order things start |

What is hard here is concurrency.  Every WebSocket has a goroutine; each helper
of the hub takes `mu` for itself, so a handler that asks `hasWriter` and then
calls `setWriter` is interruptible in between.  The agent may come back on a
new connection while the hub still serves the old one, and a handler keeps the
`agentState` it looked up first while all helpers look it up again by id.
Answers race with a two-second timer.  Writes have no deadline, so a full
socket holds its writer.  `Close` of a PTY is called from the goroutine that
waits for the process and from the owner at once.  The browser keeps an active
session, and so does the hub's handler of its connection, while the list of
sessions is changed by the user, by other browsers and by tmux.  Hub and agent
are started in any order, and an agent of one process may end up in the hub of
another.  `PROJECT.json` (`hazards`)
lists each of these at its line, with the properties that are about it.

## 2. The modules

| Module | Models | Extended by |
|---|---|---|
| `ClientAttach` | how the first message and the token are judged (constant operators) | `Hub` |
| `Hub` | registrations, clients, write lease, lock, input | `HubProperties` |
| `HubProperties` | the hub's properties and its inductive invariant | `MCHub`, `Hub_proofs` |
| `WriteLease` | the abstract lease that `HubProperties!Lease` refines | |
| `SessionSync` | the list of sessions: calls, timer, answers, broadcasts, reconnects | `MCSessionSync`, `SessionSync_proofs` |
| `SessionQuery` | what asking for the list promises, refined by `SessionSync!Query` | |
| `Relay` | output, pass-through and back-pressure with bounded connections | `MCRelay`, `Relay_proofs` |
| `PtySession` | one PTY with its process, its two goroutines and `Close` | `AgentSessions`, `TermServer`, `PtySession_proofs` |
| `AgentSessions` | the agent's loop, map and forwarders on top of `PtySession` | `MCAgentSessions`, `AgentSessions_proofs` |
| `TermServer` | the local server on top of `PtySession` | `MCTermServer`, `TermServer_proofs` |
| `MuxFrame` | the frames of input and output (constant operators) | `WebClient` |
| `WebClient` | a browser in hub mode with its handler in the hub, the agent's map and tmux | `MCWebClient`, `WebClient_proofs` |
| `Commands` | the commands as processes at one address, tokens, HTTP guards | `MCCommands`, `Commands_proofs` |
| `*_proofs` | theorems about the module they are named after; `PtySession_proofs` holds lemmas for two of them, `WebClient_proofs` also the theorems about `MuxFrame` | |
| `MC*` | the constants of the runs | |

How they correspond to the code:

* **Hub.**  An action is one critical section of `h.mu` with the handler's local
  work up to the next; `pc[c]` names the section that comes next.  So
  `RequestWrite` (the checks of lines 406-413), `HasWriter`, `CheckOwnLease`
  and `SetWriter` are four steps, and a broadcast is `Snapshot`, `ReadWriter`
  and one `Send` per client.  A write to a connection is a step of its own
  (`Refuse`, `Hello`, `FirstStatus`, `Send`, `Forward`, `Passed`), which need not
  be taken while the other end is connected and does not read (`HeldUp`).  `AgentConnect` is `registerAgent`, `AgentExit`
  the end of `ServeAgentConn`.  The variables `agent`, `clients`, `writer`,
  `write`, `sess` are the fields of the one registered `agentState`; the hub's
  binaries configure one agent.  A client id is never used twice, so a browser
  that reconnects is another member of `Client`.  `lawful`, `clash` and
  `orphans` are history variables.
* **SessionSync.**  `Call` is a call of `requestSessions`, its request id, and the
  goroutine it runs in.  The request is written (`Write`) before there is a
  timer; this write, those to clients (`Tell`) and the one to an HTTP caller
  (`Reply`) may wait for good (`HeldUp`).  An error of `tmux list-sessions` is an
  empty list (`Listed`); the history `failed` has the calls this happened to.  `deliverSessions` is two steps, as its send comes
  after the unlock.  A message that was written before the connection broke
  may still be read afterwards; what the agent had not read is lost.  The
  history `window[r]` is what the set of tmux sessions has been since call `r`
  asked.
* **Relay.**  A connection is a queue of `WireCap` messages; a write waits for
  room or, when the connection is lost, fails.  A lost connection stays full:
  nobody reads it.  The mutexes around writes add no state: who waits for one
  waits for what its holder waits for.  Every writer is there: the forwarders,
  the agent's loop with its lists and its `attach_failed`, the hub's reader, the
  handlers, and the goroutines of `syncSessions`, which ask the agent and tell
  all clients (an HTTP request for the list writes like a sync that tells
  nobody).  What the loop gives to tmux and to the PTYs is assumed to be taken.
* **PtySession.**  `once` is the `sync.Once` of `Close`: `Enter` begins the body if
  nobody has, and every caller goes on when `Returns` is true.  tmux is
  external: a client may exit at any moment, and must when its terminal or its
  session is gone, and it does not create its session once its terminal is
  closed (`WebClient` lets it).  `Target` is what tmux takes the name after `-t`
  for, since the code does not write `=name`: the session of that name, or, when
  there is none, the only one whose name begins with it (`Longer`).  Names with
  the characters of tmux's patterns and targets are left out.  Who calls `Attach`
  and `Close` is the business of the modules that extend this one.
* **AgentSessions.**  `loop` is the one goroutine that reads the hub's messages and
  alone changes the map.  A forwarder that writes may wait for good while the
  hub is connected and does not read (`HeldUp`).  `Combined` tells the command
  `run`, which does not wait for the agent, from the command `agent`, which does.
* **TermServer.**  Each connection has a handler (`pc`) and a pump; the deferred
  calls run in their order (`CloseSession`, then `CloseConn`).  Both may wait for
  good in a write to a browser that does not read (`HandlerHeld`, `PumpHeld`).
* **MuxFrame.**  `Base` is how many values a byte has, so that the runs can use
  two and the proofs hold for 256; a string is the sequence of its bytes.
* **WebClient.**  The browser's event loop runs one event at a time, so an action
  is one event: the page loads, the user does something, the connection opens or
  closes, a message comes, the timer fires.  `Add`, `DropTab` and `Activate` are
  `addSession`, `closeSession` and `setActive` on a record of the tabs, the active
  one and what has been sent, so that a handler that calls several of them is
  their composition.  `HubReads` is one message of `ServeClientConn`, with the
  variable `activeSession` of that handler (`hubActive`).  The agent has its map
  (`attached`), and tmux creates a session some time after the attach that asks
  for it (`starting`), also after it was told to kill it; an attach may fail
  (`AttachFails`), and a kill may take a session whose name is longer (`Target`,
  `CloseAll`).  A list is on its way in `lists` from the agent's answer to
  the browser's handler, in any order.  Simplified: the hub's handler of a
  connection has ended before the next one begins; the `list_sessions` of a sync
  follows at once what was sent before (`SessionSync` has all interleavings); the
  write lease, focus and resizes are left to `Hub`; tmux lists in a fixed order.
* **Commands.**  A process is a number, `prog` its command and flags.  `Listen` is
  `ListenAndServe` in its goroutine: it gets the address, or `log.Fatal` ends the
  process (`Exit`) with everything in it.  `Drain` and `MainReturns` are
  `server.Shutdown`, which refuses new connections, waits for requests, however
  long they take, and not for WebSockets.  The agent's loop is `Dial`, `Retry`,
  `RunEnds`, `AgentStops`.  `displaced` is a history variable: the connections whose entry `registerAgent`
  has replaced.  A token is its secret, its age and its lifetime.  Simplified: all
  processes use one address; a hub has noticed that an agent's old connection is
  gone before that agent's next one begins (`Hub` has the overlap); time passes in
  minutes; a secret is compared where the code checks a signature.

## 3. The runs

| Run | Constants | Shows |
|---|---|---|
| `HubSafe` | 2 connections of the agent, 2 clients with a writer's or a viewer's token, messages of every kind, lock and unlock | all safety properties of the hub, the refinement of `WriteLease` |
| `HubLive` | 2 connections, 2 clients in tailnet mode, first messages that are accepted and refused, requests and messages passed on | `LeaseFreed`, `HandlersEnd`, `AgentLossEndsClients` |
| `SyncTruth` | 2 calls, each a sync or an HTTP request, 1 client, 2 connections of which each may break, 1 session that is there or not at first and changes once, lists that fail | answers, pending map, room in the channel, what a sync shows, the refinement of `SessionQuery`, every call ends |
| `AgentPtys` | 2 PTYs, one of which has output, 2 sessions (`ai`, and `ai2`, which begins with it), channel of 1, command `agent` | the agent's safety; closed PTYs end, `Run` returns |
| `ServerEnds` | 1 connection, channel of 2 | shell and connection end each other |
| `RelayOrder` | clients of protocol 1 and 2, 2 sessions, 3 frames, 1 message of a client, no sync, connections of 1 | each client gets exactly its frames |
| `RelayFlow` | the same clients, 1 session, 1 frame, 1 message, of the client of protocol 2, 1 sync at a time | nobody waits forever and output arrives, unless a connected browser never reads |
| `WebTabs` | 2 sessions, the name of one beginning with that of the other, tailnet mode or a token for one of them, 2 things the user does, 1 event elsewhere, delays up to 2 s, bytes of two values | tabs, active sessions, syncs, back-off, being served again |
| `OneAddress` | 3 starts of `run` (tailnet), `hubd` (tokens, lifetime 0) and `agent` in any combination, 1 client | registration, admission by token, signals, agents getting through |
| `HubLockLost` | 2 connections, 1 client | *violated*: a re-registration lifts the lock |
| `HubSecondWriter` | 1 connection, 2 clients | *violated*: two overlapping requests are both granted |
| `AgentExit` | 1 PTY, command `run` | *violated*: the process exits before the sessions are killed |

Why the bounds are enough.  Every property of the hub is about one client, or
about two that compete, and about one connection of the agent and the one that
takes its place; the proofs lift the safety properties to any number.  In
`SyncTruth` one call gives up, or asks a connection that breaks, and its late
answer meets the other one, on that connection or while the next is already up;
more calls at once are left to the proofs.  `HubLive` has two connections of the
agent because one cannot orphan a client.  In `AgentPtys` the two PTYs are for one
session, or for two of which one's name begins with the other's: the cases in
which a kill by name can hit the wrong one.  `RelayFlow` has all writers that can
wait for each other; one of the two clients speaks (`Speaking`), the other is
one that is told, and may leave.  Of two syncs at once the second waits where the
first does, so one is followed (`Sync`).  A sync only adds control messages to
what browsers are sent, as requests do, so that `RelayOrder` has none and three
frames instead.
`MaxChanges` bounds how often sessions begin and end, `MaxOut` the frames, `MaxIn`
the messages of clients, `MaxActs` what the user does, `MaxEvents` what breaks or
changes around a browser, `Talking` the PTYs with output, `MaxStarts` the
processes, `MaxAge` the age of a token (beyond it the token is too old for every
hub of the run); the rest of the state
is finite by itself, since no client and no connection is used twice, or since
`NextAttempt` stops counting where the delay has reached its maximum.  Two things
the user does and one event are enough to close the last tab and lose the
connection, to open a tab and have a sync take it away, or to switch while a
list that removes the tab is on its way.  Three starts are enough for a `run`
that fails to listen beside a hub and an agent.  A channel of 1 or 2 in place of
32 reaches the full channel, and a connection of one message is the worst case
for waiting.  Only `HubSafe` uses symmetry; it has no liveness property.  Deadlock
is checked in the hub's runs, where `Terminating` marks the legitimate end; the
other models really stop, when calls, frames, PTYs, starts or events are used up.

Each property of a passing run has a mutant in `PROJECT.json`: a plausible bug
in the mapped code with which TLC finds the property violated.  The types of
`Hub`, `Relay`, `SessionSync` and `AgentSessions` and the inductive invariants are not run:
they are proved.

**Fairness.**  The Go scheduler runs every goroutine that can run: weak fairness of
each goroutine's next step.  A read error is given strong fairness (`ReadErr`,
`ReadError`): on a dead connection the messages already buffered can come first,
but only finitely many.  Goroutines that select between output and the end of a
session (`ForwarderStep`, `PumpStep`) have strong fairness for the same reason:
a channel that has become empty and is filled again is not passed over forever.
A tmux client that must exit does, and `kill-session` returns.  In `SyncTruth`
only the calls and their timers are fair: nothing is assumed of the agent.  In
`RelayFlow` something that can go on does (`WF_vars(Progress)`), which is enough as
every step brings one of finitely many messages further.  In `WebTabs` the
page's events and timers and the hub's handler are weakly fair, the agent comes
back, and a dial that is tried again and again succeeds at some time (strong
fairness of `Opens`): without that no retry leads anywhere.  In `OneAddress` the
goroutines of each process are weakly fair and a connection that is gone is
noticed; nothing is assumed of users, signals or starts, nor that a request is
answered.

**Nobody is assumed to read.**  No write of the program has a deadline, so a
goroutine that writes to somebody who stays connected and does not read may wait
forever.  In the models of these writes no browser, agent or hub is assumed to
read: a write is fair only once the other end is gone, or, in `Relay`, once there
is room.  The liveness properties name such a write as an exception: `[]HeldUp(c)` in
`LeaseFreed`, `HandlersEnd` and `AgentLossEndsClients`, `HeldUp` in `CallsEnd` and
`ClosedEnds`, `HandlerHeld` and `PumpHeld` in `ShellEndsConnection`, a browser whose
connection stays full (`[]Full(c)`) in `OutputArrives` and `NobodyIsStuck`, a request
that is never answered in `SignalEnds` and `AgentConnects`.  What they say is that
nothing else can hold a goroutine up: no lock, no channel, no timer, no other
goroutine in a circle, and no write to an end that is gone.  `RunReturns` and
`ConnectionEndsShell` start from a lost connection, where writes fail, and need no
exception of this kind.  `WebClient` and `Commands` look at other things and have no
writes that wait: `ServedAgain` assumes that the hub's handler of the connection
goes on, and `AgentConnects` that the hub's reader notices the end of an agent's
connection, which it does not while it is held up.

`ClosedEnds`, `CallsEnd` and `AgentConnects` have the form `(some is
unfinished) ~> (none is)`.  As a PTY, a call or a process is used once and their
number is bounded, this is the same as each one ending.

## 4. What is proved

For all values of the constants, with TLAPS:

| Theorems | Module |
|---|---|
| `TypeCorrect`, `WriterAlwaysServes`, `ClientsAlwaysServed`, `AlwaysAttachedUnlessOrphaned`, `InputAlwaysLawful`, `AlwaysToldWhenQuiet`, `OldConnectionAlwaysHarmless`, `HubImplementsLease` | `Hub_proofs` |
| `TypeCorrect`, `AnswersAlwaysTrue`, `PendingAlwaysWaiting`, `AlwaysRoomForAnswer`, `AloneAlwaysShowsTruth`, `SyncImplementsQuery` | `SessionSync_proofs` |
| `TypeCorrect`, `AlwaysOnePtyPerSession`, `KillsByNameAlone`, `NothingLeftOpen`, `SessionsKilled`, `ExitAlwaysKills` | `AgentSessions_proofs` |
| `TypeCorrect`, `AlwaysClosedOnReturn` | `TermServer_proofs` |
| `TypeCorrect`, `ConnectedAlwaysRegistered`, `AlwaysAdmittedInTime` | `Commands_proofs` |
| `TypeCorrect`, `AlwaysExactStream` | `Relay_proofs` |
| `TypeCorrect`, `InputAlwaysGoesThrough`, `TabsAlwaysFollowSessions`, `BackoffAlwaysGrows`, `DecodeInvertsEncode`, `EncodeInvertsDecode` | `WebClient_proofs` |

They assume the named `ASSUME`s of the modules only: that the constants for
"nobody" are not members, that tokens, flags and first messages have their type,
that a capacity is positive, and that a byte has at least two values.  For
`WebClient` the names of sessions are finitely many, as only finitely many ever
occur, and the cap of the back-off lies between the longest first pause (one
second) and 16 seconds; the code's is ten.

*Hub.*  `IInv` adds to the invariants what they rest on.  `WriterServes` is not
inductive alone: between `RequestWrite` and `SetWriter` the claim must be
remembered (`RequestsMayWrite`).  `LawfulInput` needs `PendingInputLawful`: between
the two checks of its input nobody but the handler itself, which is busy, can
make its client the writer.  `ToldWhenQuiet` needs `BroadcastInv`: without a
clash at most one handler broadcasts, what it has read is still so, and it has
still to tell whoever was not told the truth.  `OldConnectionHarmless` needs
`RegisteredServes`.  The refinement maps `members` to the clients whose handler
has still to remove them, and `holder` to `writer`; each action is a step of the lease
or a stutter.

*SessionSync.*  `IInv` says of every message anywhere on its way, and of every
channel, that it belongs to a call that has asked, and that if that call still
waits its list was true during the call (`Good`); `WindowOpen` keeps the set of
the truths of a waiting call up to date.  `RoomForAnswer` needs `Copies`: of the
request of a call and its answer there is one copy at a time, and while it is on
its way the channel of the call is empty.  `AloneSyncShowsTruth` needs `Truth`: while a
sync counts as alone, every list that a waiting call can still get, and every
list a sync has still to send, is what tmux has now, or the empty list of a call in `failed`.  `SyncImplementsQuery` maps
the answers to a call, wherever they are, to what was taken for it (`AnswersTo`):
by `Copies` that is one list at most (`OneAnswer`), it appears at the instant the
agent asks tmux (`ListsTakes`), and every other step moves or loses it
(`AnswersMove`).

*AgentSessions.*  `IInv` says that the map leads from a session to a PTY of that
session (`Entries`), that every PTY not yet closed is in it (`UnclosedIsHeld`),
and that the loop closes only what it holds (`ClosingIsHeld`).  A later PTY of
the same name can then exist only after the earlier one is closed, which gives
`OnePtyPerSession`, and `KillsOnlyItsOwn` together with what `Target` says: a kill
that misses the session of its own name takes one whose name is longer.

`SessionsKilled` and `ExitAlwaysKills` follow because a session that lives has a
PTY that is not closed, or one whose Close has begun and not yet killed, and a
loop that has stopped has closed all it held.

*TermServer.*  `IInv` adds to the types that a handler past `Accept` has a PTY of
its own (`HasSession`); that PTY stays closed once it is (`PtyStaysClosed`).
The lemmas of `PtySession_proofs` say what a step of a PTY leaves as it was, for
both modules that use it.

*Commands.*  `ConnectedMeansRegistered` is inductive together with `OneHub`, an
agent is connected to one hub at a time, and with `Running`, a process that is
gone holds nothing; `AdmittedInTime` rests on `Issued`: every token carries the
lifetime that some hub of its secret was given.

*MuxFrame.*  Dividing by the base and putting together again gives the length
back, by the laws of `\div` and `%`; the rest is about parts of a sequence.

*Relay.*  `ExactStream` is about what a browser has read and what is on its way to
it; it becomes inductive with what comes before that: the frames that the hub's
reader has not taken are in the agent's connection, in order (`NextInLine`); those
to whom it has still to write the current one want it and were there when it was
taken (`RestIsDue`); and a client that joins is one nobody has written to
(`NewIsUnknown`), whose stream begins no later than with the frame after the
current one (`StartsInTime`).  That a client which is added while a frame is being
distributed does not get that frame is where these meet.

*WebClient.*  The types contain the first property: one of the tabs is shown
whenever there is any.  `addSession` and `closeSession` are called for lists of
sessions, so that `AddAll` and `DropUnlisted` are recursive functions; lemmas say
that there is a list of pages, each made of the one before (`AddAllSteps`,
`DropSteps`, `DropUnlistedIsLast`), and an induction over this list, which takes
the least number where it would fail (`LeastElement`), gives `ApplySyncStays`:
the tabs are the sessions of the list, and the hub is told if another one is
shown.  `InputGoesThrough` looks at the first message on its way to the hub; the
inductive `InputsInForce` looks at every input on its way, at the last `active`
message before it (`InForce`), or at what the hub holds if there is none; and
`ActiveInForce` says that page and hub agree once all of it is read.
`TabsFollowSessions` needs `SyncInv`: unless something is stale, at most one
list is asked for or on its way, every attach on its way is followed by a
question, and a list that has been taken names the sessions there are.
`BackoffGrows` needs `DelayInv`: the last pause is the one of the attempt before
this one, at the pace of an agent that is offline if it is remembered so.

Model-checked only: all liveness, as the prover does not do fairness.  Every
invariant and every action property that a run checks is also proved.

## 5. What the code does not do

Three statements of the repository are refuted by runs of their own (`findings`):
`README.md:100-101` on the lock, `coverage_test.go:439-440` on a second writer,
`main.go:88` on killing sessions at the end.  While modelling, these further
limits were met; they have no run:

* No write has a deadline (`hub.go:59-89`, `agent.go:112-114`, `server.go:107`): a
  browser that stays connected and does not read holds up the hub's reader of the
  agent's connection, and with it all output and every list, the handler that
  broadcasts to it, and in the end the agent.  A handler that is held up so does
  not notice that its own client has gone, and that client keeps the write lease.
* `requestSessions` writes its request before it makes its timer (`hub.go:742`,
  `746`): the two seconds do not bound that write.
* A client whose `agentState` was replaced under it (`orphans`) is closed by nobody
  when the agent ends (`hub.go:495-500`, `510`): it stays connected to nothing.
* When tmux cannot be asked, the list of sessions is empty, and browsers close
  their tabs (`local.go:70-71`, `agent.go:165`, `app.js:346`).
* `kill-session -t name` without `=` (`local.go:104`) takes a session whose name
  begins with `name` when the session `name` has ended: closing an ended `ai` can
  kill `ai2`, although `local.go:20` speaks of "the tmux session".
* Two broadcasts that overlap may leave a client with the older `write_status`
  (`hub.go:636-651`); hence the condition `~clash` in `ToldWhenQuiet`.
* `syncSessions` calls are not ordered: the older list may be sent last
  (`hub.go:653-669`); hence `AloneSyncShowsTruth` is about a sync that was alone.
* A client can be added under a new `agentState` while its handler holds the
  `agentState` that is gone (`hub.go:334`, `347`); it is told `attached`, and its
  input goes nowhere.
* After the process of a PTY has exited, its entry stays in the agent's map and
  an attach of that session does nothing until a detach (`agent.go:88`).
* `readLoop` stays in its send forever when the channel is full and its reader
  has gone (`local.go:118`); `ClosedEnds` and `ConnectionEndsShell` say so.
* In the local server the pump and `sendError` may write at the same time
  (`server.go:107`, `124`).
* Two connections of the local server on one session share it, and the first to
  leave kills it.
* In local mode the browser never becomes the writer, since only the hub sends
  `write_status` (`app.js:264`, `448`): it does not send what is typed.
* A browser that has lost all its tabs sends `active` before its `attach` when it
  reconnects (`app.js:296`, `299`); the hub refuses it with `bad_request`, and the
  dial after that succeeds.
* With a token for one session, `sessions_sync` still shows the tabs of all
  sessions (`hub.go:653-669` looks at no claims); on a reconnect the browser
  attaches to each, is answered `not_authorized`, and stays paused
  (`app.js:300-305`, `332`).  `ServedAgain` excepts this.
* A tab that `sessions_sync` adds is not attached to (`app.js:350`), so it shows no
  output until the next reconnect.
* The back-off is reset by every successful open (`app.js:294`): a hub that
  accepts and then refuses is dialled every half second, or every second.
* An agent displaced by another of the same id is told nothing; it stays
  connected, and is not registered again when the other leaves
  (`hub.go:495-515`).  In particular, a second `runeshell run` on an address that
  is taken may displace the agent of the first before it fails to listen.
* `Shutdown` has no deadline, and a second signal does nothing (`main.go:104`,
  `130`): a request that does not end keeps the process, and the hub in it keeps
  the agents that are connected to it.
* `agentd` gives its pause between dials as `2`, which is two nanoseconds
  (`cmd/agentd/main.go:34`).
* `docs/tailscale.md` warns that the check of addresses may refuse requests which
  `tailscale serve` passes on from 127.0.0.1; `isTailnetRequest` lets loopback
  through (`hub.go:782-784`).

## 6. Not modelled, and the plan

Not modelled: HTTP routing, the wording of flags, QR codes and ports; what
`ensureTailnetServe` asks tailscale, beyond its failing, and that the `tailscale
serve` it starts stays on after the end; the commands `attach`, `lock`, `unlock`,
`qr` and `version`, which do one thing and end (what `lock` asks for is
`LockHandler` in `Hub`); the authorizer of `locald` before an upgrade; a signal
in the instant before `NotifyContext` is called; of the web client local mode,
the keys' transformations and the write requests, whose messages are in `Hub`;
`resize` and `heartbeat`, which change no state.

Done, in this order: `Hub` with `ClientAttach` and `WriteLease` (the most
important behaviour), `SessionSync`, `PtySession` with `AgentSessions` and
`TermServer`, `Relay`, `MuxFrame`, `WebClient`, `Commands`, with proofs for all of them.

Next:

1. Two browsers in `WebClient`, one of which closes what the other shows.
