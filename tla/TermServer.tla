----------------------------- MODULE TermServer -----------------------------
(***************************************************************************)
(* The server of the local mode (ServeConn, internal/termserver/server.go, *)
(* behind cmd/locald).  Every WebSocket connection gets a PTYSession of its*)
(* own.  Its handler reads the browser's messages; a second goroutine, the *)
(* pump, writes the session's output to the browser.  Either may end the   *)
(* other: the pump closes the connection, which makes the handler's read   *)
(* fail; the handler's deferred Close ends the output.                     *)
(*                                                                         *)
(* Resizes and input change no state kept here.  What is checked before    *)
(* the upgrade (TokenAuthorizer) is left out: a connection here is one     *)
(* that has been accepted.                                                 *)
(*                                                                         *)
(* A write to the browser has no deadline, and while the browser stays     *)
(* connected without reading, it need never return: the step is then not   *)
(* taken (HandlerHeld, PumpHeld).                                          *)
(***************************************************************************)
EXTENDS PtySession

CONSTANTS
    Conn,   \* the WebSocket connections
    NoPty   \* no PTYSession

ASSUME NoPtyAssumption == NoPty \notin Pty

VARIABLES
    pc,    \* what the handler of each connection does next
    up,    \* whether each connection still carries messages
    sess,  \* the local variable session
    pump   \* the goroutine that writes the output

serverVars == <<pc, up, sess, pump>>
vars == <<ptyVars, serverVars>>

Init ==
    /\ PtyInit
    /\ pc   = [c \in Conn |-> "new"]
    /\ up   = [c \in Conn |-> TRUE]
    /\ sess = [c \in Conn |-> NoPty]
    /\ pump = [c \in Conn |-> "none"]

Goto(c, l) == pc' = [pc EXCEPT ![c] = l]
Hangup(c)  == up' = [up EXCEPT ![c] = FALSE]

-----------------------------------------------------------------------------
(* The handler *)

\* A first message that cannot be read, is no attach, or has another version
\* than 0 or 1; or Attach fails.  Nothing has been opened yet.
Reject(c) ==
    /\ pc[c] = "new"
    /\ Goto(c, "closed") /\ Hangup(c)
    /\ UNCHANGED <<ptyVars, sess, pump>>

Accept(c, i, s) ==
    /\ pc[c] = "new" /\ up[c]
    /\ Attach(i, s)
    /\ sess' = [sess EXCEPT ![c] = i]
    /\ Goto(c, "hello")
    /\ UNCHANGED <<up, pump>>

\* The attached message: when it cannot be written the handler returns.
Hello(c) ==
    /\ pc[c] = "hello"
    /\ IF up[c]
       THEN /\ Goto(c, "loop")
            /\ pump' = [pump EXCEPT ![c] = "range"]
       ELSE Goto(c, "leave") /\ UNCHANGED pump
    /\ UNCHANGED <<ptyVars, up, sess>>

\* A text message that is no JSON: the handler writes an error and returns.
\* The write is a step of its own.
BadMessage(c) ==
    /\ pc[c] = "loop" /\ Goto(c, "error")
    /\ UNCHANGED <<ptyVars, up, sess, pump>>

SendError(c) ==
    /\ pc[c] = "error" /\ Goto(c, "leave")
    /\ UNCHANGED <<ptyVars, up, sess, pump>>

ReadErr(c) ==
    /\ pc[c] = "loop" /\ ~up[c] /\ Goto(c, "leave")
    /\ UNCHANGED <<ptyVars, up, sess, pump>>

\* The deferred calls, last first: session.Close(), then conn.Close().
CloseSession(c) ==
    /\ pc[c] = "leave"
    /\ Enter(sess[c])
    /\ Goto(c, "closing")
    /\ UNCHANGED <<name, proc, reader, chunks, waiter, live, up, sess, pump>>

CloseConn(c) ==
    /\ pc[c] = "closing" /\ Returns(sess[c])
    /\ Goto(c, "closed") /\ Hangup(c)
    /\ UNCHANGED <<ptyVars, sess, pump>>

-----------------------------------------------------------------------------
(* The pump *)

PumpTakes(c) ==
    /\ pump[c] = "range" /\ Take(sess[c])
    /\ pump' = [pump EXCEPT ![c] = "write"]
    /\ UNCHANGED <<pc, up, sess>>

PumpWrites(c) ==
    /\ pump[c] = "write"
    /\ IF up[c] THEN pump' = [pump EXCEPT ![c] = "range"]
                ELSE pump' = [pump EXCEPT ![c] = "done"]
    /\ UNCHANGED <<ptyVars, pc, up, sess>>

\* Mutant: the pump ends and leaves the connection open.
LeaveOpen(c) == up

\* closeConn.
Shut(c) == [up EXCEPT ![c] = FALSE]

PumpEnds(c) ==
    /\ pump[c] = "range" /\ OutputEnds(sess[c])
    /\ pump' = [pump EXCEPT ![c] = "done"]
    /\ up' = Shut(c)
    /\ UNCHANGED <<ptyVars, pc, sess>>

\* The network or the browser ends the connection.
Drop(c) ==
    /\ pc[c] # "closed" /\ up[c] /\ Hangup(c)
    /\ UNCHANGED <<ptyVars, pc, sess, pump>>

-----------------------------------------------------------------------------
HandlerStep(c) == Hello(c) \/ SendError(c) \/ CloseSession(c) \/ CloseConn(c)
PumpStep(c) == PumpTakes(c) \/ PumpWrites(c) \/ PumpEnds(c)

\* Handler or pump is in a write that waits, perhaps forever, for the browser.
HandlerHeld(c) == up[c] /\ pc[c] \in {"hello", "error"}
PumpHeld(c)    == up[c] /\ pump[c] = "write"

Next ==
    \/ \E c \in Conn : \/ HandlerStep(c) \/ PumpStep(c)
                       \/ Reject(c) \/ BadMessage(c) \/ ReadErr(c) \/ Drop(c)
                       \/ \E i \in Pty, s \in Session : Accept(c, i, s)
    \/ /\ \/ \E i \in Pty : PtyStep(i) \/ TmuxAttaches(i) \/ TmuxExits(i)
          \/ \E s \in Session : SessionEnds(s)
       /\ UNCHANGED serverVars

Spec == Init /\ [][Next]_vars

\* As in AgentSessions: goroutines that can run do, kill-session returns, a
\* tmux client that has to exit does, and a read error comes in the end.  The
\* browser need not read.
Fairness ==
    /\ \A c \in Conn : /\ WF_vars(~HandlerHeld(c) /\ HandlerStep(c))
                       /\ SF_vars(~PumpHeld(c) /\ PumpStep(c))
                       /\ SF_vars(ReadErr(c))
    /\ \A i \in Pty : /\ WF_vars(CloseBody(i) /\ UNCHANGED serverVars)
                      /\ WF_vars((WaiterCloses(i) \/ WaiterEnds(i)) /\ UNCHANGED serverVars)
                      /\ WF_vars((ReaderSends(i) \/ ReaderEnds(i)) /\ UNCHANGED serverVars)
                      /\ WF_vars(TmuxMustExit(i) /\ UNCHANGED serverVars)

FairSpec == Spec /\ Fairness

-----------------------------------------------------------------------------
(* Properties *)

TypeOK ==
    /\ PtyTypeOK
    /\ pc \in [Conn -> {"new", "hello", "loop", "error", "leave", "closing", "closed"}]
    /\ up \in [Conn -> BOOLEAN]
    /\ sess \in [Conn -> Pty \union {NoPty}]
    /\ pump \in [Conn -> {"none", "range", "write", "done"}]

\* When the handler of a connection has returned, its PTYSession is closed and
\* the connection is too, whichever of handler, pump, process and browser was
\* the first to go.
ReturnedMeansClosed ==
    \A c \in Conn :
        pc[c] = "closed" => ~up[c] /\ (sess[c] # NoPty => once[sess[c]] = "closed")

\* The connection does not outlive the shell: when the tmux client of a
\* connection exits, the handler returns, although it only ever waits for the
\* browser's messages; unless handler or pump stay in a write to a browser that
\* is connected and does not read (server.go:107).
ShellEndsConnection ==
    \A c \in Conn, i \in Pty :
        sess[c] = i /\ proc[i] = "exited" ~>
            pc[c] = "closed" \/ [](HandlerHeld(c) \/ PumpHeld(c))

\* And the shell's terminal does not outlive the connection, nor do the
\* goroutines, but for a readLoop whose channel filled up after the pump had
\* met a write error and gone.
ConnectionEndsShell ==
    \A c \in Conn, i \in Pty :
        sess[c] = i /\ ~up[c] ~>
            /\ pc[c] = "closed" /\ proc[i] = "exited" /\ pump[c] \in {"none", "done"}
            /\ reader[i] = "done" \/ (reader[i] = "sending" /\ chunks[i] = OutputCap)
=============================================================================
