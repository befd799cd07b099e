--------------------------- MODULE AgentSessions ----------------------------
(***************************************************************************)
(* The agent (internal/agent/agent.go): RunWithRetry dials the hub again   *)
(* and again; Run keeps a PTYSession for each tmux session the hub has     *)
(* asked for, forwards its output, and closes all of them when the         *)
(* connection ends.  The process around it is cmd/runeshell: the command   *)
(* "agent" runs RunWithRetry in its main goroutine, the command "run" in   *)
(* another one, and does not wait for it.                                  *)
(*                                                                         *)
(* One goroutine reads the hub's messages and handles each to its end; it  *)
(* is the only one that changes the map of sessions.  Resizes and input    *)
(* change no state kept here and are left out, list_sessions is in module  *)
(* SessionSync.                                                            *)
(***************************************************************************)
EXTENDS PtySession

CONSTANTS
    NoPty,     \* no entry in the map
    Combined   \* the process is "runeshell run"

ASSUME NoPtyAssumption    == NoPty \notin Pty
ASSUME CombinedAssumption == Combined \in BOOLEAN

VARIABLES
    loop,       \* what RunWithRetry and Run do next
    up,         \* the connection to the hub works
    cancelled,  \* a signal has come: ctx is done
    exited,     \* the process has exited
    sessions,   \* the map of Run
    closing,    \* the PTYSession the loop is closing
    done,       \* the channel done of each agentSession is closed
    forwarder   \* the goroutine that forwards the output of each

agentVars == <<loop, up, cancelled, exited, sessions, closing, done, forwarder>>
vars == <<ptyVars, agentVars>>

Init ==
    /\ PtyInit
    /\ loop = "dial" /\ up = FALSE /\ cancelled = FALSE /\ exited = FALSE
    /\ sessions = [s \in Session |-> NoPty]
    /\ closing = NoPty
    /\ done = [i \in Pty |-> FALSE]
    /\ forwarder = [i \in Pty |-> "none"]

-----------------------------------------------------------------------------
(* The connection and the process *)

\* Run dials.  AfterFunc closes the connection at once if ctx is done already.
Dial ==
    /\ loop = "dial"
    /\ loop' = "read" /\ up' = ~cancelled
    /\ UNCHANGED <<ptyVars, cancelled, exited, sessions, closing, done, forwarder>>

DialFails ==
    /\ loop = "dial"
    /\ loop' = IF cancelled THEN "stopped" ELSE "retry"
    /\ UNCHANGED <<ptyVars, up, cancelled, exited, sessions, closing, done,
                   forwarder>>

Drop ==
    /\ up /\ up' = FALSE
    /\ UNCHANGED <<ptyVars, loop, cancelled, exited, sessions, closing, done,
                   forwarder>>

\* SIGINT or SIGTERM: context.AfterFunc closes the connection.
Cancel ==
    /\ ~cancelled /\ cancelled' = TRUE /\ up' = FALSE
    /\ UNCHANGED <<ptyVars, loop, exited, sessions, closing, done, forwarder>>

\* RunWithRetry after Run has returned: the pause, or the end.
Retry ==
    /\ loop = "retry"
    /\ loop' \in IF cancelled THEN {"dial", "stopped"} ELSE {"dial"}
    /\ UNCHANGED <<ptyVars, up, cancelled, exited, sessions, closing, done,
                   forwarder>>

\* main returns, and with it every goroutine ends.
ProcessExits ==
    /\ cancelled /\ (Combined \/ loop = "stopped")
    /\ exited' = TRUE
    /\ UNCHANGED <<ptyVars, loop, up, cancelled, sessions, closing, done,
                   forwarder>>

-----------------------------------------------------------------------------
(* The hub's messages *)

\* Mutant: every attach opens a PTYSession.
NeverHeld(s) == FALSE

\* attachSession finds an entry.
Held(s) == sessions[s] # NoPty

\* attach: nothing happens when there is an entry.  (Nor when Attach fails:
\* the hub is told, and ignores it.)
HandleAttach(s) ==
    /\ loop = "read"
    /\ IF Held(s)
       THEN UNCHANGED <<ptyVars, sessions, forwarder>>
       ELSE \E i \in Pty :
               /\ Attach(i, s) /\ i = CHOOSE x \in Pty : Unused(x)
               /\ sessions' = [sessions EXCEPT ![s] = i]
               /\ forwarder' = [forwarder EXCEPT ![i] = "select"]
    /\ UNCHANGED <<loop, up, cancelled, exited, closing, done>>

\* closeSession and closeAll: close(s.done), then s.sess.Close().
BeginClose(s) ==
    /\ sessions[s] # NoPty
    /\ closing' = sessions[s]
    /\ done' = [done EXCEPT ![sessions[s]] = TRUE]
    /\ Enter(sessions[s])
    /\ UNCHANGED <<name, proc, reader, chunks, waiter, live, up, cancelled,
                   exited, sessions, forwarder>>

\* detach; without an entry nothing happens.
HandleDetach(s) ==
    /\ loop = "read" /\ BeginClose(s)
    /\ loop' = "detaching"

\* Close has returned, and the entry is deleted.
EndClose ==
    /\ loop \in {"detaching", "closing"} /\ Returns(closing)
    /\ sessions' = [sessions EXCEPT ![name[closing]] = NoPty]
    /\ closing' = NoPty
    /\ loop' = IF loop = "detaching" THEN "read" ELSE "closeall"
    /\ UNCHANGED <<ptyVars, up, cancelled, exited, done, forwarder>>

\* Mutant: Run returns at once.
ReturnAtOnce == "retry"

\* Where Run goes on when ReadMessage fails.
OnReadError == "closeall"

\* Messages that came before the failure may still be read.
ReadError ==
    /\ loop = "read" /\ ~up
    /\ loop' = OnReadError
    /\ UNCHANGED <<ptyVars, up, cancelled, exited, sessions, closing, done,
                   forwarder>>

CloseNext(s) ==
    /\ loop = "closeall" /\ BeginClose(s)
    /\ loop' = "closing"

\* closeAll is over, and Run returns: with ctx.Err() when ctx is done.
AllClosed ==
    /\ loop = "closeall" /\ \A s \in Session : sessions[s] = NoPty
    /\ loop' = IF cancelled THEN "stopped" ELSE "retry"
    /\ UNCHANGED <<ptyVars, up, cancelled, exited, sessions, closing, done,
                   forwarder>>

-----------------------------------------------------------------------------
(* The forwarder of each PTYSession.  What it writes to a connection that is *)
(* gone is lost; when it finds several cases ready, select picks any.  A     *)
(* write to the hub has no deadline: while the connection is up and the hub  *)
(* does not read, it need never return, nor, as all writes share the mutex   *)
(* writeMu, the write of another forwarder (HeldUp).                         *)

ForwarderTakes(i) ==
    /\ forwarder[i] = "select" /\ Take(i)
    /\ forwarder' = [forwarder EXCEPT ![i] = "write"]
    /\ UNCHANGED <<loop, up, cancelled, exited, sessions, closing, done>>

ForwarderWrites(i) ==
    /\ forwarder[i] = "write"
    /\ forwarder' = [forwarder EXCEPT ![i] = "select"]
    /\ UNCHANGED <<ptyVars, loop, up, cancelled, exited, sessions, closing, done>>

ForwarderEnds(i) ==
    /\ forwarder[i] = "select" /\ (done[i] \/ OutputEnds(i))
    /\ forwarder' = [forwarder EXCEPT ![i] = "done"]
    /\ UNCHANGED <<ptyVars, loop, up, cancelled, exited, sessions, closing, done>>

-----------------------------------------------------------------------------
LoopStep ==
    \/ EndClose \/ AllClosed
    \/ \E s \in Session : CloseNext(s)

ForwarderStep(i) == ForwarderTakes(i) \/ ForwarderWrites(i) \/ ForwarderEnds(i)

\* The forwarder is in a write that waits, perhaps forever, for the hub to read.
HeldUp(i) == forwarder[i] = "write" /\ up

Process ==
    /\ ~exited
    /\ \/ Dial \/ DialFails \/ Drop \/ Cancel \/ Retry \/ ProcessExits
       \/ ReadError \/ LoopStep
       \/ \E s \in Session : HandleAttach(s) \/ HandleDetach(s)
       \/ \E i \in Pty : ForwarderStep(i)
       \/ \E i \in Pty : PtyStep(i) /\ UNCHANGED agentVars

\* tmux and its users.
Tmux ==
    /\ UNCHANGED agentVars
    /\ \/ \E i \in Pty : ~exited /\ TmuxAttaches(i)
       \/ \E i \in Pty : TmuxExits(i)
       \/ \E s \in Session : SessionEnds(s)

Next == Process \/ Tmux

Spec == Init /\ [][Next]_vars

\* Goroutines that can run do, kill-session returns, and a tmux client that has
\* to exit does.  The read error comes in the end, after the messages that were
\* buffered; and a write whose connection breaks returns.  The hub need not read,
\* and nothing is assumed of the users or of the signals.
\* (For the goroutines of a PTYSession it is enough that one that can goes on, and
\* that one of the clients that have to exit does.)
Fairness ==
    /\ WF_vars(~exited /\ LoopStep) /\ SF_vars(~exited /\ ReadError)
    /\ WF_vars(UNCHANGED agentVars /\ \E i \in Pty : TmuxMustExit(i))
    /\ \A i \in Pty : /\ WF_vars(~exited /\ UNCHANGED agentVars /\ GoroutineStep(i))
                      /\ SF_vars(~HeldUp(i) /\ ~exited /\ ForwarderStep(i))

FairSpec == Spec /\ Fairness

-----------------------------------------------------------------------------
(* Properties *)

TypeOK ==
    /\ PtyTypeOK
    /\ loop \in {"dial", "read", "detaching", "closeall", "closing", "retry", "stopped"}
    /\ up \in BOOLEAN /\ cancelled \in BOOLEAN /\ exited \in BOOLEAN
    /\ sessions \in [Session -> Pty \union {NoPty}]
    /\ closing \in Pty \union {NoPty}
    /\ done \in [Pty -> BOOLEAN]
    /\ forwarder \in [Pty -> {"none", "select", "write", "done"}]

\* However connections break, come back and overlap with processes that exit
\* on their own, the agent has at most one PTYSession of a tmux session that
\* is not closed, so that no output is sent twice and no Close is forgotten.
OnePtyPerSession ==
    \A i, j \in Pty :
        ~Unused(i) /\ ~Unused(j) /\ i # j /\ name[i] = name[j] =>
            once[i] = "closed" \/ once[j] = "closed"

\* The kill-session that closes one PTYSession, which goes by the name of the
\* tmux session, never takes the session from under a later PTYSession of that
\* name: a Close that has begun, in whichever goroutine, is over before the hub's
\* next attach is read.  What it can take from another open PTYSession is a
\* session whose name begins with its own, and only when its own has ended:
\* local.go:104 passes the bare name, not "=name".
KillsOnlyItsOwn ==
    [][\A i, j \in Pty :
          /\ once[i] = "running" /\ once'[i] = "closed"
          /\ i # j /\ Opened(j) /\ name[j] \in live \ live'
          => name[i] \notin live /\ name[j] \in Longer[name[i]]]_vars

\* When RunWithRetry dials again, or has returned, no PTYSession of the
\* connection before is left open.
NothingOutlivesConnection ==
    loop \in {"dial", "retry", "stopped"} =>
        \A i \in Pty : ~Unused(i) => once[i] = "closed"

\* local.go: "KillOnClose terminates the tmux session when the PTY is closed":
\* for every tmux session whose PTYSessions are all closed.
ClosedMeansKilled ==
    KillOnClose => \A s \in live : \E i \in Pty : name[i] = s /\ once[i] # "closed"

\* The command "agent" exits only after it has killed the sessions.
ExitKills == exited /\ ~Combined /\ KillOnClose => live = {}

\* A PTYSession that is closed, and has a goroutine left that can still end.
\* Two need not: readLoop stays forever in its send when the channel is full and
\* the forwarder has gone, and the forwarder stays in its write as long as the hub
\* is connected and does not read.
Lingers(i) ==
    /\ once[i] # "open" /\ ~exited
    /\ \/ waiter[i] # "done"
       \/ forwarder[i] # "done" /\ ~HeldUp(i)
       \/ reader[i] # "done" /\ ~(reader[i] = "sending" /\ chunks[i] = OutputCap)

\* PTYSessions that are closed, by the loop or because their process exited,
\* leave no goroutine behind, but for that send and that write.
ClosedEnds == (\E i \in Pty : Lingers(i)) ~> (\A i \in Pty : ~Lingers(i))

\* When the hub goes away, Run closes every PTYSession and returns: no Close
\* waits for a goroutine that waits for the loop.
RunReturns == loop = "read" /\ ~up ~> loop \in {"retry", "stopped"} \/ exited

\* Disagreement.  cmd/runeshell kills the sessions on disconnect unless asked
\* to keep them; but "run" returns from main without waiting for closeAll.
RunExitKills == exited /\ KillOnClose => live = {}

-----------------------------------------------------------------------------
(* The inductive invariant behind the safety properties *)

\* The map leads from a session to a PTYSession of that session, ...
Entries == \A s \in Session : sessions[s] # NoPty => name[sessions[s]] = s

\* ... and every PTYSession that is not closed is in it.
UnclosedIsHeld ==
    \A i \in Pty : ~Unused(i) /\ once[i] # "closed" => sessions[name[i]] = i

\* The loop closes a PTYSession that is in the map, and only then.
ClosingIsHeld ==
    /\ closing # NoPty <=> loop \in {"detaching", "closing"}
    /\ closing # NoPty => sessions[name[closing]] = closing /\ name[closing] \in Session

\* Between two connections the map is empty.
EmptyWhenAway ==
    loop \in {"dial", "retry", "stopped"} => \A s \in Session : sessions[s] = NoPty

\* The command "agent" exits from RunWithRetry's end only.
ExitsStopped == exited /\ ~Combined => loop = "stopped"

IInv ==
    /\ TypeOK /\ Unborn
    /\ Entries /\ UnclosedIsHeld /\ ClosingIsHeld /\ EmptyWhenAway
    /\ ClosedMeansKilled /\ ExitsStopped
=============================================================================
