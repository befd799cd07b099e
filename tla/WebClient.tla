----------------------------- MODULE WebClient ------------------------------
(***************************************************************************)
(* A browser in hub mode (web/app.js) and what it talks to: the handler of *)
(* its connection in the hub, which keeps an active session of its own     *)
(* (ServeClientConn, internal/hub/hub.go), the agent's map of sessions     *)
(* (internal/agent/agent.go), and tmux.  The browser's tabs follow the     *)
(* user, and the sessions_sync messages of the hub; the connection comes   *)
(* back with a back-off.                                                   *)
(*                                                                         *)
(* A session is its name, a sequence of bytes as it travels in frames.     *)
(* Who may write is module Hub's: here any tab may be typed in while the   *)
(* connection is open.  Resizes and focus change no state kept here.  The  *)
(* hub's handler of one connection ends before the next one begins, and a  *)
(* sync is one number or list on its way (module SessionSync has it in     *)
(* full).                                                                  *)
(***************************************************************************)
EXTENDS MuxFrame, FiniteSets, SequencesExt

CONSTANTS
    Session,     \* the names of tmux sessions
    Cfg,         \* the session in the page's URL
    Claim,       \* the sessions a token may be for, None in tailnet mode
    Cap,         \* the longest pause between two dials: 10000 ms in the code
    MaxActs,     \* bound: what the user does
    MaxEvents    \* bound: how often a connection breaks, a session begins or
                 \* ends elsewhere, or tmux cannot be started

None == <<>>     \* null, or the empty string

ASSUME SessionAssumption ==
    /\ Session \subseteq Bytes \ {None} /\ IsFiniteSet(Session) /\ Cfg \in Session
    /\ Claim \subseteq Session \union {None}
    /\ Cap \in 1000..16000

VARIABLES
    tabs,      \* the keys of terminals, in the order of the Map
    active,    \* activeSession
    socket,    \* ws.readyState; "none" while the page loads
    timer,     \* reconnectTimer is set
    attempt,   \* reconnectAttempt
    delay,     \* history: how long the last timer was set for, since the last open
    offline,   \* agentOffline
    paused,    \* reconnectPaused
    claim,     \* the session the token is for
    expired,   \* whether the token has expired
    handler,   \* the handler of the connection in the hub
    hubActive, \* its local variable activeSession
    toHub,     \* what the browser has sent
    error,     \* the code of the error message on its way to the browser, or ""
    agent,     \* whether the agent is connected
    attached,  \* the keys of the agent's map of sessions
    toAgent,   \* what the hub has sent to the agent
    lists,     \* the answers of the agent on their way to the browser
    live,      \* the tmux sessions
    starting,  \* the sessions a tmux client has been started for
    stale,     \* history: a list that is or may come to be shown is not the
               \* last truth: a session was still starting, or tmux could not
               \* be asked, or syncs overlap, or nobody syncs
    acts, events

page    == <<tabs, active>>
link    == <<socket, timer, attempt, delay, offline, paused>>
token   == <<claim, expired>>
hub     == <<handler, hubActive>>
syncing == <<lists, stale>>
tmux    == <<agent, attached, live, starting>>
bounds  == <<acts, events>>
vars == <<page, link, token, hub, toHub, error, toAgent, syncing, tmux, bounds>>

Msg(type, sid) == [type |-> type, sid |-> sid]
InOrder(S)     == IF S = {} THEN <<>> ELSE SetToSeq(S)  \* as tmux lists sessions

Init ==
    /\ tabs = <<>> /\ active = None
    /\ socket = "none" /\ timer = FALSE /\ attempt = 0 /\ delay = 0
    /\ offline = FALSE /\ paused = FALSE
    /\ claim \in Claim /\ expired = FALSE
    /\ handler = "none" /\ hubActive = None
    /\ toHub = <<>> /\ error = "" /\ toAgent = <<>>
    /\ lists = <<>> /\ stale = TRUE
    /\ agent \in BOOLEAN /\ attached = {}
    /\ live \in SUBSET Session /\ starting = {}
    /\ acts = 0 /\ events = 0

-----------------------------------------------------------------------------
(* The page: tabs, the active one, and what changing them sends *)

\* Mutant: the hub is not told which tab the user looks at.
ActivateQuietly(p, s) == IF s \in ToSet(p.tabs) THEN [p EXCEPT !.active = s] ELSE p

\* setActive
Activate(p, s) ==
    IF s \in ToSet(p.tabs)
    THEN [p EXCEPT !.active = s, !.out = Append(@, Msg("active", s))] ELSE p

\* addSession
Add(p, s) ==
    IF s \in ToSet(p.tabs) THEN p
    ELSE LET q == [p EXCEPT !.tabs = Append(@, s)]
         IN  IF p.active = None THEN Activate(q, s) ELSE q

\* The keys of a Map without one of them, in their order.
Without(keys, s) == RemoveAt(keys, CHOOSE k \in DOMAIN keys : keys[k] = s)

\* Mutant: the tab goes, and stays the active one.
RemoveOnly(p, s) ==
    IF s \in ToSet(p.tabs) THEN [p EXCEPT !.tabs = Without(@, s)] ELSE p

\* closeSession, after its detach
DropTab(p, s) ==
    LET q == [p EXCEPT !.tabs = Without(@, s)]
    IN  CASE s \notin ToSet(p.tabs) -> p
          [] s \in ToSet(p.tabs) /\ p.active # s -> q
          [] s \in ToSet(p.tabs) /\ p.active = s /\ q.tabs = <<>> ->
                 [q EXCEPT !.active = None]
          [] OTHER -> Activate(q, Head(q.tabs))

\* addSession for each of a list, and closeSession for each tab that is not in
\* a list.
AddAll(p, list) ==
    LET after[k \in 0 .. Len(list)] ==
            IF k = 0 THEN p ELSE Add(after[k - 1], list[k])
    IN  after[Len(list)]

DropUnlisted(p, list) ==
    LET after[k \in 0 .. Len(p.tabs)] ==
            IF k = 0 THEN p
            ELSE IF p.tabs[k] \in ToSet(list) THEN after[k - 1]
            ELSE DropTab(after[k - 1], p.tabs[k])
    IN  after[Len(p.tabs)]

\* Mutant: tabs are added, and never taken away.
OnlyAdded(p, incoming) == AddAll(p, incoming)

\* applySessionsSync, and what the message handler does with its result
ApplySync(p, incoming) == AddAll(DropUnlisted(p, incoming), incoming)

Page == [tabs |-> tabs, active |-> active, out |-> <<>>]

\* The page becomes p; what it sends is sent if the connection is open.
Show(p) ==
    /\ tabs' = p.tabs /\ active' = p.active
    /\ toHub' = IF socket = "open" THEN toHub \o p.out ELSE toHub

\* initSessions: the sessions /api/sessions lists, which is open without an
\* admin token in tailnet mode only, or else the session of the URL.
LoadPage ==
    /\ socket = "none" /\ socket' = "connecting"
    /\ LET list == IF claim = None /\ agent THEN InOrder(live) ELSE <<>>
       IN  Show(AddAll(Page, IF list = <<>> THEN <<Cfg>> ELSE list))
    /\ UNCHANGED <<timer, attempt, delay, offline, paused, token, hub, error,
                   toAgent, syncing, tmux, bounds>>

\* promptSession
NewTab(s) ==
    Show(IF s \in ToSet(tabs) THEN Activate(Page, s)
         ELSE LET p == Add(Page, s)
              IN  Activate([p EXCEPT !.out = Append(@, Msg("attach", s))], s))

\* The cross of a tab: closeSession with notify.
CloseTab(s) ==
    /\ s \in ToSet(tabs)
    /\ Show(DropTab([Page EXCEPT !.out = <<Msg("detach", s)>>], s))

Select(s) == s \in ToSet(tabs) /\ Show(Activate(Page, s))

\* handleInput: one frame; encodeFrame throws when the name is too long.
Type ==
    /\ socket = "open" /\ active # None /\ CanEncode(active)
    /\ toHub' = Append(toHub, [type |-> "input", tab |-> active,
                               frame |-> Encode(active, <<1>>)])
    /\ UNCHANGED page

UserActs ==
    /\ acts < MaxActs /\ acts' = acts + 1 /\ socket # "none"
    /\ Type \/ \E s \in Session : NewTab(s) \/ CloseTab(s) \/ Select(s)
    /\ UNCHANGED <<link, token, hub, error, toAgent, syncing, tmux, events>>

-----------------------------------------------------------------------------
(* The page: its connection *)

\* Bound: from here on every delay is Cap.
MaxStep == CHOOSE n \in 0..5 : 500 * 2^n >= Cap /\ \A k \in 0..(n - 1) : 500 * 2^k < Cap

\* getBackoffMs
Backoff(n, base) == LET d == base * 2^n IN IF d < Cap THEN d ELSE Cap

\* Mutant: a retry does not count.
SameAttempt(n) == n

NextAttempt(n) == IF n < MaxStep THEN n + 1 ELSE n

\* The close event, and scheduleReconnect.
Closed ==
    /\ socket' = "closed"
    /\ IF timer \/ paused
       THEN UNCHANGED <<timer, attempt, delay>>
       ELSE /\ timer' = TRUE
            /\ delay' = Backoff(attempt, IF offline THEN 1000 ELSE 500)
            /\ attempt' = NextAttempt(attempt)
    /\ toHub' = <<>> /\ error' = ""

\* The server cannot be reached, or answers 401 as the token has expired.
DialFails ==
    /\ socket = "connecting" /\ Closed
    /\ UNCHANGED <<page, offline, paused, token, hub, toAgent, syncing, tmux, bounds>>

\* The hub has ended the connection, and its last message is handled.
Ended ==
    /\ socket = "open" /\ handler = "ended" /\ error = "" /\ Closed
    /\ UNCHANGED <<page, offline, paused, token, hub, toAgent, syncing, tmux, bounds>>

\* The connection breaks: what either end has not read is lost.
Drop ==
    /\ socket = "open" /\ events < MaxEvents /\ events' = events + 1
    /\ Closed /\ handler' = "ended"
    /\ UNCHANGED <<page, offline, paused, token, hubActive, toAgent, syncing, tmux,
                   acts>>

\* The timer of scheduleReconnect fires: connect().
Redial ==
    /\ timer /\ timer' = FALSE /\ socket' = "connecting"
    /\ UNCHANGED <<page, attempt, delay, offline, paused, token, hub, toHub,
                   error, toAgent, syncing, tmux, bounds>>

\* The open event.  Without a tab addSession makes the session of the URL the
\* active one, and so sends active before the attach.
Opens ==
    /\ socket = "connecting" /\ ~expired
    /\ socket' = "open" /\ handler' = "attach" /\ hubActive' = None
    /\ offline' = FALSE /\ paused' = FALSE /\ attempt' = 0 /\ delay' = 0
    /\ LET p == IF tabs = <<>> THEN Add(Page, Cfg) ELSE Page
       IN  /\ tabs' = p.tabs /\ active' = p.active
           /\ toHub' = p.out \o [k \in DOMAIN p.tabs |-> Msg("attach", p.tabs[k])]
                             \o <<Msg("active", p.active)>>
    /\ error' = ""
    /\ UNCHANGED <<timer, token, toAgent, syncing, tmux, bounds>>

\* The message event: an error ...
ReceiveError ==
    /\ socket = "open" /\ error # "" /\ error' = ""
    /\ offline' = (offline \/ error = "agent_offline")
    /\ paused'  = (paused \/ error = "not_authorized")
    /\ UNCHANGED <<page, socket, timer, attempt, delay, token, hub, toHub, toAgent,
                   syncing, tmux, bounds>>

\* ... or a sessions_sync, in whatever order the syncs' goroutines broadcast;
\* a browser without a connection is told nothing.
ReceiveSync(k) ==
    /\ lists' = RemoveAt(lists, k)
    /\ IF socket = "open" /\ handler = "serving" THEN Show(ApplySync(Page, lists[k]))
                                                 ELSE UNCHANGED <<page, toHub>>
    /\ UNCHANGED <<link, token, hub, error, toAgent, stale, tmux, bounds>>

-----------------------------------------------------------------------------
(* The handler of the connection in the hub *)

SyncUnderWay ==
    lists # <<>> \/ \E k \in DOMAIN toAgent : toAgent[k].type = "list_sessions"

\* go h.syncSessions, after what else is sent to the agent: its list_sessions
\* is on its way, if there is an agent.
BeginSync(sent) ==
    /\ toAgent' = IF agent THEN toAgent \o sent \o <<[type |-> "list_sessions"]>>
                           ELSE toAgent
    /\ stale' = (SyncUnderWay \/ ~agent)
    /\ UNCHANGED lists

\* Mutant: the handler goes on.
RefuseAndStay(code) ==
    error' = code /\ UNCHANGED <<handler, hubActive, toAgent, syncing>>

\* sendError, or an error message, and the end of the handler.
Refuse(code) ==
    /\ error' = code /\ handler' = "ended"
    /\ UNCHANGED <<hubActive, toAgent, syncing>>

Mismatch(m) == claim # None /\ m.sid # claim

FirstMessage(m) ==
    CASE m.type # "attach" -> Refuse("bad_request")
      [] m.type = "attach" /\ Mismatch(m) -> Refuse("not_authorized")
      [] m.type = "attach" /\ ~Mismatch(m) /\ ~agent -> Refuse("agent_offline")
      [] OTHER -> /\ handler' = "serving"
                  /\ hubActive' = m.sid
                  /\ BeginSync(<<m>>)
                  /\ UNCHANGED error

PassOn(m) == BeginSync(<<m>>) /\ UNCHANGED <<hub, error>>

SetHubActive(m) ==
    /\ hubActive' = m.sid /\ UNCHANGED <<handler, error, toAgent, syncing>>

\* A binary message: passed on if it is for the active session.
Input(m) ==
    LET f == Decode(m.frame)
    IN  /\ toAgent' = IF f # Malformed /\ f.sid = hubActive
                      THEN Append(toAgent, [type |-> "input",
                                            frame |-> Encode(f.sid, f.payload)])
                      ELSE toAgent
        /\ UNCHANGED <<hub, error, syncing>>

Handle(m) ==
    CASE m.type = "attach" /\ Mismatch(m) -> Refuse("not_authorized")
      [] m.type = "attach" /\ ~Mismatch(m) -> PassOn(m)
      [] m.type = "detach" -> PassOn(m)
      [] m.type = "active" -> SetHubActive(m)
      [] OTHER -> Input(m)

HubReads ==
    /\ handler \in {"attach", "serving"} /\ toHub # <<>>
    /\ IF handler = "attach" THEN FirstMessage(Head(toHub)) ELSE Handle(Head(toHub))
    /\ toHub' = Tail(toHub)
    /\ UNCHANGED <<page, link, token, tmux, bounds>>

\* requestSessions gives up: the answer comes too late.
TimedOut(k) ==
    /\ lists' = RemoveAt(lists, k) /\ stale' = TRUE
    /\ UNCHANGED <<page, link, token, hub, toHub, error, toAgent, tmux, bounds>>

-----------------------------------------------------------------------------
(* The agent and tmux *)

\* What kill-session -t s ends: the session of that name, or if there is none
\* the only one whose name begins with it.
Extensions(s) == {t \in live : IsStrictPrefix(s, t)}
Target(s) ==
    IF s \in live THEN {s}
    ELSE {t \in Extensions(s) : Extensions(s) = {t}}

\* closeSession: the session is killed, unless its tmux client is only about
\* to start it and is not ended by its closed terminal.
CloseSession(s) ==
    IF s \in attached
    THEN /\ attached' = attached \ {s} /\ live' = live \ Target(s)
         /\ starting' \in {starting, starting \ {s}}
    ELSE UNCHANGED <<attached, live, starting>>

\* attachSession: tmux new -As is started and creates the session later.
AttachSession(s) ==
    /\ attached' = attached \union {s}
    /\ starting' = IF s \in attached \union live THEN starting ELSE starting \union {s}
    /\ UNCHANGED live

\* list_sessions: no session when tmux cannot be asked.
ListSessions ==
    /\ \E list \in {InOrder(live), <<>>} :
          /\ lists' = Append(lists, list)
          /\ stale' = (stale \/ starting # {} \/ ToSet(list) # live)
    /\ UNCHANGED <<attached, live, starting>>

AgentReads ==
    /\ agent /\ toAgent # <<>> /\ toAgent' = Tail(toAgent)
    /\ LET m == Head(toAgent)
       IN  \/ m.type = "attach" /\ AttachSession(m.sid) /\ UNCHANGED syncing
           \/ m.type = "detach" /\ CloseSession(m.sid) /\ UNCHANGED syncing
           \/ m.type = "list_sessions" /\ ListSessions
           \/ m.type = "input" /\ UNCHANGED <<attached, live, starting, syncing>>
    /\ UNCHANGED <<page, link, token, hub, toHub, error, agent, bounds>>

\* attachSession, when tmux cannot be started: nothing is left behind, and the
\* hub does nothing with the agent's attach_failed.
AttachFails ==
    /\ agent /\ toAgent # <<>> /\ toAgent' = Tail(toAgent)
    /\ Head(toAgent).type = "attach" /\ Head(toAgent).sid \notin attached
    /\ events < MaxEvents /\ events' = events + 1
    /\ UNCHANGED <<page, link, token, hub, toHub, error, syncing, tmux, acts>>

\* tmux new -As creates the session.
TmuxStarts(s) ==
    /\ s \in starting /\ starting' = starting \ {s} /\ live' = live \union {s}
    /\ UNCHANGED <<page, link, token, hub, toHub, error, toAgent, syncing,
                   agent, attached, bounds>>

\* A session begins or ends at a terminal, or by another browser, whose
\* handler then syncs.
SessionsChange(s) ==
    /\ events < MaxEvents /\ events' = events + 1
    /\ live' = IF s \in live THEN live \ {s} ELSE live \union {s}
    /\ \/ BeginSync(<<>>)
       \/ stale' = TRUE /\ UNCHANGED <<toAgent, lists>>
    /\ UNCHANGED <<page, link, token, hub, toHub, error, agent, attached, starting,
                   acts>>

\* closeAll, in the order of a map: each attached session is closed as by
\* closeSession, and those that have ended may take others along, whose names
\* begin with theirs.
CloseAll ==
    /\ attached' = {}
    /\ \E more \in SUBSET UNION {Extensions(s) : s \in attached} :
           live' = live \ (attached \union more)
    /\ \E ended \in SUBSET attached : starting' = starting \ ended

\* The agent's connection ends: it closes its sessions, and the hub the
\* clients.
AgentGoes ==
    /\ agent /\ events < MaxEvents /\ events' = events + 1
    /\ agent' = FALSE /\ CloseAll
    /\ toAgent' = <<>> /\ stale' = TRUE
    /\ handler' = IF handler = "serving" THEN "ended" ELSE handler
    /\ UNCHANGED <<page, link, token, hubActive, toHub, error, lists,
                   acts>>

AgentComes ==
    /\ ~agent /\ agent' = TRUE
    /\ UNCHANGED <<page, link, token, hub, toHub, error, toAgent, syncing,
                   attached, live, starting, bounds>>

TokenExpires ==
    /\ claim # None /\ ~expired /\ expired' = TRUE
    /\ UNCHANGED <<page, link, claim, hub, toHub, error, toAgent, syncing, tmux,
                   bounds>>

-----------------------------------------------------------------------------
Next ==
    \/ LoadPage \/ UserActs \/ DialFails \/ Ended \/ Drop \/ Redial \/ Opens \/ ReceiveError
    \/ HubReads \/ AgentReads \/ AttachFails \/ AgentGoes \/ AgentComes \/ TokenExpires
    \/ \E k \in DOMAIN lists : ReceiveSync(k) \/ TimedOut(k)
    \/ \E s \in Session : TmuxStarts(s) \/ SessionsChange(s)

Spec == Init /\ [][Next]_vars

\* What the page's event loop does by itself.
PageGoesOn == LoadPage \/ Redial \/ Ended \/ ReceiveError

\* The event loop runs, timers fire, the hub's handler goes on, as agent and
\* browser take what it writes; the agent comes back, and a dial succeeds now
\* and then.
FairSpec ==
    /\ Spec /\ WF_vars(PageGoesOn) /\ WF_vars(HubReads) /\ WF_vars(AgentComes)
    /\ SF_vars(Opens)
-----------------------------------------------------------------------------
(* Properties *)

TabMsgs   == [type : {"attach", "active", "detach"}, sid : Session]
ToHubMsgs == TabMsgs \union [type : {"input"}, tab : Session, frame : Bytes]
ToAgentMsgs ==
    [type : {"attach", "detach"}, sid : Session]
        \union [type : {"list_sessions"}] \union [type : {"input"}, frame : Bytes]

\* The types; and the browser shows one of its tabs whenever it has any,
\* through every order of closing, adding and syncing.
TypeOK ==
    /\ tabs \in Seq(Session) /\ IsInjective(tabs)
    /\ active \in (IF tabs = <<>> THEN {None} ELSE ToSet(tabs))
    /\ socket \in {"none", "connecting", "open", "closed"}
    /\ timer \in BOOLEAN /\ attempt \in 0..MaxStep /\ delay \in 0..Cap
    /\ offline \in BOOLEAN /\ paused \in BOOLEAN
    /\ claim \in Claim /\ expired \in BOOLEAN
    /\ handler \in {"none", "attach", "serving", "ended"}
    /\ hubActive \in Session \union {None}
    /\ toHub \in Seq(ToHubMsgs) /\ toAgent \in Seq(ToAgentMsgs)
    /\ error \in {"", "bad_request", "not_authorized", "agent_offline"}
    /\ lists \in Seq(Seq(Session)) /\ stale \in BOOLEAN
    /\ agent \in BOOLEAN
    /\ attached \subseteq Session /\ live \subseteq Session /\ starting \subseteq Session

\* The hub drops input that is not for the active session it knows of
\* (hub.go:478).  It never has to: what the user types in a tab arrives when the
\* hub's active session is that tab's, whatever switches, closes, syncs and
\* reconnects came before, and its frame is read as it was written.
InputGoesThrough ==
    handler = "serving" /\ toHub # <<>> =>
        LET m == Head(toHub)
        IN  m.type = "input" =>
                Decode(m.frame) = [sid |-> hubActive, payload |-> <<1>>] /\ m.tab = hubActive

Quiet ==
    /\ socket = "open" /\ handler = "serving" /\ starting = {} /\ ~SyncUnderWay
    /\ toHub = <<>> /\ error = "" /\ toAgent = <<>>

\* Once nothing is under way the tabs are the tmux sessions: also the tab of a
\* session that was created a moment before a list without it came, and that
\* sessions_sync took away (app.js:346).  Unless the last list was taken while a
\* session was starting, or failed, or syncs overlapped, or a session changed
\* that nobody syncs for (stale).
TabsFollowSessions == Quiet /\ ~stale => ToSet(tabs) = live

\* While dials fail the browser waits longer each time, until it waits ten
\* seconds: an agent that was offline when it last got through changes the pace
\* (scheduleReconnect), and never resets it.
BackoffGrows ==
    [][timer' /\ ~timer /\ delay > 0 => delay' > delay \/ delay' = Cap]_vars

\* A browser whose connection is gone is served again, whatever ended it, and
\* also if it has lost all its tabs and its first message is refused; unless
\* its token has expired, or is for one session and the hub answered
\* not_authorized, which ends the retries (app.js:332).
ServedAgain ==
    socket = "closed" ~> \/ handler = "serving"
                         \/ expired \/ (paused /\ claim # None)
-----------------------------------------------------------------------------
(* The inductive invariant behind the safety properties *)

\* The active message in force after the first k - 1 of toHub is for s.
InForce(k, s) ==
    \/ \E j \in 1 .. k - 1 :
          /\ toHub[j].type = "active" /\ toHub[j].sid = s
          /\ \A i \in j + 1 .. k - 1 : toHub[i].type # "active"
    \/ hubActive = s /\ \A i \in 1 .. k - 1 : toHub[i].type # "active"

\* A handler that has yet to see its first message has no active session.
FreshHandler == handler = "attach" => hubActive = None

\* What is typed is for the tab that the hub will take for the active one.
InputsInForce ==
    handler \in {"attach", "serving"} =>
        \A k \in DOMAIN toHub : toHub[k].type = "input" =>
            /\ InForce(k, toHub[k].tab) /\ CanEncode(toHub[k].tab)
            /\ toHub[k].frame = Encode(toHub[k].tab, <<1>>)

\* Once all is read, hub and browser agree on the active session.
ActiveInForce ==
    socket = "open" /\ handler \in {"attach", "serving"} /\ active # None =>
        InForce(Len(toHub) + 1, active)

ListAsked  == \E k \in DOMAIN toAgent : toAgent[k].type = "list_sessions"
SyncToCome == \E k \in DOMAIN toHub : toHub[k].type \in {"attach", "detach"}

\* After what attaches or detaches the agent is asked for its list.
AttachesAsk ==
    \A k \in DOMAIN toAgent : toAgent[k].type \in {"attach", "detach"} =>
        \E j \in k + 1 .. Len(toAgent) : toAgent[j].type = "list_sessions"

\* While nothing is stale: there is one sync, its list is true from the answer
\* on, and the tabs are the tmux sessions unless a sync is on its way.
OneSync ==
    /\ agent /\ Len(lists) <= 1 /\ (lists # <<>> => ~ListAsked)
    /\ \A j, k \in DOMAIN toAgent :
          toAgent[j].type = "list_sessions" /\ toAgent[k].type = "list_sessions" => j = k
NoneStarts == ListAsked \/ starting = {}
ListIsTrue == lists # <<>> => ToSet(lists[1]) = live
TabsAreTrue ==
    socket = "open" /\ handler = "serving" /\ ~SyncUnderWay =>
        SyncToCome \/ ToSet(tabs) = live
SyncInv == AttachesAsk /\ (~stale => OneSync /\ NoneStarts /\ ListIsTrue /\ TabsAreTrue)

\* delay is what was waited before the last attempt that failed.
DelayInv ==
    /\ timer => socket = "closed"
    /\ socket = "open" => delay = 0
    /\ delay > 0 => \E n \in 0..MaxStep :
          attempt = NextAttempt(n) /\ delay = Backoff(n, IF offline THEN 1000 ELSE 500)

IInv == TypeOK /\ FreshHandler /\ InputsInForce /\ ActiveInForce /\ SyncInv /\ DelayInv
=============================================================================
