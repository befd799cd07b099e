----------------------------- MODULE PtySession -----------------------------
(***************************************************************************)
(* A tmux client on a pseudo-terminal (PTYSession and LocalSessionManager, *)
(* internal/termserver/local.go).  Attach starts "tmux new -As <session>", *)
(* which joins the tmux session or creates it, and two goroutines: readLoop*)
(* moves output from the terminal to a bounded channel, wait closes the    *)
(* PTYSession when the process has exited.  Close, under a sync.Once,      *)
(* closes the terminal and then, if so configured, kills the tmux session  *)
(* by its name, or what tmux takes for it.                                 *)
(*                                                                         *)
(* tmux itself is outside the repository; only what the code relies on is  *)
(* modelled: a client attaches while its terminal is open, and exits when  *)
(* the terminal or the session is gone, or when its user detaches; it does *)
(* not create its session once its terminal is closed.  Sessions that other*)
(* programs create are left out.                                           *)
(*                                                                         *)
(* Who opens a PTYSession, reads its channel and closes it is the business *)
(* of the modules that extend this one: AgentSessions and TermServer.      *)
(***************************************************************************)
EXTENDS Integers

CONSTANTS
    Pty,          \* the PTYSessions, one for each successful Attach
    Session,      \* the names of tmux sessions
    Longer,       \* the other names that begin with a name
    NoSession,    \* the name of a PTYSession that does not exist yet
    KillOnClose,  \* the manager's option; false with -keep-sessions
    OutputCap,    \* the capacity of the output channel (32 in the code)
    Talking       \* bound: the PTYSessions that have output

ASSUME NoSessionAssumption   == NoSession \notin Session
ASSUME LongerAssumption ==
    /\ Longer \in [Session -> SUBSET Session]
    /\ \A s \in Session : s \notin Longer[s]
ASSUME KillOnCloseAssumption == KillOnClose \in BOOLEAN
ASSUME OutputCapAssumption   == OutputCap \in Nat \ {0}

VARIABLES
    name,    \* sessionID
    proc,    \* the tmux client
    once,    \* the sync.Once of Close: not begun, running, or over
    reader,  \* readLoop; when it is done the channel is closed
    chunks,  \* how many chunks the output channel holds
    waiter,  \* wait
    live     \* the tmux sessions there are

ptyVars == <<name, proc, once, reader, chunks, waiter, live>>

PtyTypeOK ==
    /\ name \in [Pty -> Session \union {NoSession}]
    /\ proc \in [Pty -> {"none", "starting", "attached", "exited"}]
    /\ once \in [Pty -> {"open", "running", "closed"}]
    /\ reader \in [Pty -> {"none", "reading", "sending", "done"}]
    /\ chunks \in [Pty -> 0..OutputCap]
    /\ waiter \in [Pty -> {"none", "waiting", "closing", "done"}]
    /\ live \subseteq Session

PtyInit ==
    /\ name   = [i \in Pty |-> NoSession]
    /\ proc   = [i \in Pty |-> "none"]
    /\ once   = [i \in Pty |-> "open"]
    /\ reader = [i \in Pty |-> "none"]
    /\ chunks = [i \in Pty |-> 0]
    /\ waiter = [i \in Pty |-> "none"]
    /\ live = {}

Unused(i)  == name[i] = NoSession
Opened(i)  == ~Unused(i) /\ once[i] = "open"
Running(i) == proc[i] \in {"starting", "attached"}

\* A PTYSession that does not exist yet is in its initial state.
Unborn ==
    \A i \in Pty : Unused(i) =>
        proc[i] = "none" /\ once[i] = "open" /\ reader[i] = "none" /\ waiter[i] = "none"

-----------------------------------------------------------------------------
(* What tmux and its users do *)

TmuxAttaches(i) ==
    /\ proc[i] = "starting" /\ once[i] = "open"
    /\ proc' = [proc EXCEPT ![i] = "attached"]
    /\ live' = live \union {name[i]}
    /\ UNCHANGED <<name, once, reader, chunks, waiter>>

TmuxExits(i) ==
    /\ Running(i)
    /\ proc' = [proc EXCEPT ![i] = "exited"]
    /\ UNCHANGED <<name, once, reader, chunks, waiter, live>>

\* It cannot go on: the terminal is closed, or the session has ended.
TmuxMustExit(i) ==
    /\ \/ once[i] # "open"
       \/ proc[i] = "attached" /\ name[i] \notin live
    /\ TmuxExits(i)

\* The shell in the session exits.
SessionEnds(s) ==
    /\ s \in live
    /\ live' = live \ {s}
    /\ UNCHANGED <<name, proc, once, reader, chunks, waiter>>

-----------------------------------------------------------------------------
(* The PTYSession *)

\* Attach, when ptyStart succeeds.
Attach(i, s) ==
    /\ Unused(i)
    /\ name' = [name EXCEPT ![i] = s]
    /\ proc' = [proc EXCEPT ![i] = "starting"]
    /\ reader' = [reader EXCEPT ![i] = "reading"]
    /\ waiter' = [waiter EXCEPT ![i] = "waiting"]
    /\ UNCHANGED <<once, chunks, live>>

\* Close is called: the first caller runs the body, the terminal is closed.
Enter(i) == once' = [once EXCEPT ![i] = IF @ = "open" THEN "running" ELSE @]

\* Mutant: a caller that is not the first does not wait for the body.
NoWait(i) == TRUE

\* Mutant: Close waits until readLoop has ended.
AfterReader(i) == once[i] = "closed" /\ reader[i] = "done"

\* Close returns: to every caller only when the body is over (sync.Once).
Returns(i) == once[i] = "closed"

\* The session that tmux takes "-t s" for: the one of that name, or else the
\* only one whose name begins with it.  (With "new -As s" it looks for that
\* name alone.)
Target(s) == IF s \in live THEN {s} ELSE {t \in live : live \intersect Longer[s] = {t}}

\* Mutant: the session is left alone.
LeaveSession(s) == live

\* tmux kill-session -t s, which fails when there is no such session.
KillSession(s) == IF KillOnClose THEN live \ Target(s) ELSE live

\* The body of Close ends.
CloseBody(i) ==
    /\ once[i] = "running"
    /\ once' = [once EXCEPT ![i] = "closed"]
    /\ live' = KillSession(name[i])
    /\ UNCHANGED <<name, proc, reader, chunks, waiter>>

\* wait: the process is over, Close is called and returns.
WaiterCloses(i) ==
    /\ waiter[i] = "waiting" /\ proc[i] = "exited"
    /\ waiter' = [waiter EXCEPT ![i] = "closing"]
    /\ Enter(i)
    /\ UNCHANGED <<name, proc, reader, chunks, live>>

WaiterEnds(i) ==
    /\ waiter[i] = "closing" /\ Returns(i)
    /\ waiter' = [waiter EXCEPT ![i] = "done"]
    /\ UNCHANGED <<name, proc, once, reader, chunks, live>>

\* readLoop: Read returns output; it is sent once the channel has room; Read
\* fails when the terminal is closed or the process has exited.
ReaderReads(i) ==
    /\ reader[i] = "reading" /\ proc[i] = "attached" /\ once[i] = "open"
    /\ i \in Talking
    /\ reader' = [reader EXCEPT ![i] = "sending"]
    /\ UNCHANGED <<name, proc, once, chunks, waiter, live>>

\* (HasRoom's mutant: a channel without a bound.)
AlwaysRoom(i) == TRUE
HasRoom(i) == chunks[i] < OutputCap

ReaderSends(i) ==
    /\ reader[i] = "sending" /\ HasRoom(i)
    /\ chunks' = [chunks EXCEPT ![i] = @ + 1]
    /\ reader' = [reader EXCEPT ![i] = "reading"]
    /\ UNCHANGED <<name, proc, once, waiter, live>>

ReaderEnds(i) ==
    /\ reader[i] = "reading" /\ (once[i] # "open" \/ proc[i] = "exited")
    /\ reader' = [reader EXCEPT ![i] = "done"]
    /\ UNCHANGED <<name, proc, once, chunks, waiter, live>>

\* A consumer of Output() takes a chunk, or finds the channel closed.
Take(i) ==
    /\ chunks[i] > 0
    /\ chunks' = [chunks EXCEPT ![i] = @ - 1]
    /\ UNCHANGED <<name, proc, once, reader, waiter, live>>

\* Mutant: readLoop does not close the channel.
NeverEnds(i) == FALSE

OutputEnds(i) == chunks[i] = 0 /\ reader[i] = "done"

\* What a goroutine does without waiting for the shell to write.
GoroutineStep(i) ==
    \/ CloseBody(i) \/ WaiterCloses(i) \/ WaiterEnds(i)
    \/ ReaderSends(i) \/ ReaderEnds(i)

PtyStep(i) == GoroutineStep(i) \/ ReaderReads(i)
=============================================================================
