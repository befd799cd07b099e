-------------------------- MODULE TermServer_proofs --------------------------
(***************************************************************************)
(* Proofs about the local server, for any number of connections, of        *)
(* PTYSessions and of tmux sessions.                                       *)
(***************************************************************************)
EXTENDS TermServer, PtySession_proofs, TLAPS

USE NoPtyAssumption

\* A handler or a pump that is under way has a PTYSession of its own.
HasSession ==
    \A c \in Conn :
        /\ pc[c] = "new" => sess[c] = NoPty
        /\ pc[c] \notin {"new", "closed"} \/ pump[c] # "none" =>
              sess[c] \in Pty /\ ~Unused(sess[c])

IInv == TypeOK /\ Unborn /\ HasSession /\ ReturnedMeansClosed

LEMMA InvInit == Init => IInv
<1> SUFFICES ASSUME Init PROVE IInv
  OBVIOUS
<1>1. PtyTypeOK /\ Unborn
  BY PtyTypeInit DEF Init
<1>2. up \in [Conn -> BOOLEAN]
  BY Zenon DEF Init
<1>3. TypeOK
  BY <1>1, <1>2 DEF Init, TypeOK
<1>4. HasSession /\ ReturnedMeansClosed
  BY DEF Init, HasSession, ReturnedMeansClosed
<1> QED
  BY <1>1, <1>3, <1>4 DEF IInv

-----------------------------------------------------------------------------
(* The steps *)

\* What leaves the PTYSessions alone leaves their invariants, too.
LEMMA PtyUnchanged ==
    ASSUME PtyTypeOK, Unborn, UNCHANGED ptyVars
    PROVE  PtyTypeOK' /\ Unborn'
  BY DEF PtyTypeOK, Unborn, Unused, ptyVars

LEMMA HandlerKeeps ==
    ASSUME IInv, NEW c \in Conn,
           \/ Reject(c) \/ Hello(c) \/ BadMessage(c) \/ SendError(c) \/ ReadErr(c)
           \/ CloseConn(c)
    PROVE  IInv'
<1> USE DEF IInv, TypeOK, HasSession, ReturnedMeansClosed, Goto, Hangup, Unused
<1>0. UNCHANGED ptyVars
  BY DEF Reject, Hello, BadMessage, SendError, ReadErr, CloseConn
<1>a. PtyTypeOK' /\ Unborn' /\ name' = name /\ once' = once
  BY <1>0, PtyUnchanged DEF ptyVars
<1> HIDE DEF Unused
<1>1. CASE Reject(c)
  BY <1>a, <1>1 DEF Reject, Unused
<1>2. CASE Hello(c)
  BY <1>a, <1>2 DEF Hello, Unused
<1>3. CASE BadMessage(c) \/ SendError(c) \/ ReadErr(c)
  BY <1>a, <1>3 DEF BadMessage, SendError, ReadErr, Unused
<1>4. CASE CloseConn(c)
  BY <1>a, <1>4 DEF CloseConn, Returns, Unused
<1> QED
  BY <1>1, <1>2, <1>3, <1>4

LEMMA PumpKeeps ==
    ASSUME IInv, NEW c \in Conn, PumpStep(c) \/ Drop(c)
    PROVE  IInv'
<1> USE DEF IInv, TypeOK, HasSession, ReturnedMeansClosed, Hangup
<1>1. CASE PumpTakes(c)
  <2>1. sess[c] \in Pty /\ Take(sess[c])
    BY <1>1 DEF PumpTakes
  <2>2. PtyTypeOK' /\ Unborn' /\ name' = name /\ once' = once
    BY <2>1, TakeTypes DEF Take
  <2> QED
    BY <1>1, <2>2 DEF PumpTakes, Unused
<1>2. ASSUME PumpWrites(c) \/ PumpEnds(c) \/ Drop(c) PROVE IInv'
  <2>1. PtyTypeOK' /\ Unborn' /\ name' = name /\ once' = once
    BY <1>2, PtyUnchanged DEF PumpWrites, PumpEnds, Drop, ptyVars
  <2> QED
    BY <1>2, <2>1 DEF PumpWrites, PumpEnds, Drop, Shut, Unused
<1> QED
  BY <1>1, <1>2 DEF PumpStep

LEMMA InvStep == IInv /\ [Next]_vars => IInv'
<1> SUFFICES ASSUME IInv, [Next]_vars PROVE IInv'
  OBVIOUS
<1> USE DEF IInv, TypeOK, HasSession, ReturnedMeansClosed
<1>1. ASSUME NEW c \in Conn, NEW i \in Pty, NEW s \in Session, Accept(c, i, s)
      PROVE  IInv'
  <2>1. PtyTypeOK' /\ Unborn'
    BY <1>1, AttachTypes DEF Accept
  <2>2. /\ ~Unused(i)' /\ once' = once
        /\ \A j \in Pty : ~Unused(j) => ~Unused(j)'
    BY <1>1, NoSessionAssumption DEF Accept, Attach, Unused, PtyTypeOK
  <2> QED
    BY <1>1, <2>1, <2>2 DEF Accept, Goto
<1>2. ASSUME NEW c \in Conn, CloseSession(c) PROVE IInv'
  <2>1. sess[c] \in Pty /\ ~Unused(sess[c])
    BY <1>2 DEF CloseSession
  <2>2. PtyTypeOK' /\ Unborn' /\ name' = name
    BY <1>2, <2>1, EnterTypes DEF CloseSession
  <2>3. \A j \in Pty : once[j] = "closed" => once'[j] = "closed"
    BY <1>2 DEF CloseSession, Enter, PtyTypeOK
  <2> QED
    BY <1>2, <2>2, <2>3 DEF CloseSession, Goto, Unused
<1>3. CASE PtyOnly /\ UNCHANGED serverVars
  <2>1. PtyTypeOK' /\ Unborn' /\ name' = name
    BY <1>3, PtyTypeStep
  <2>2. \A j \in Pty : once[j] = "closed" => once'[j] = "closed"
    BY <1>3, PtyStaysClosed
  <2> QED
    BY <1>3, <2>1, <2>2 DEF serverVars, Unused
<1>4. CASE UNCHANGED vars
  <2>1. PtyTypeOK' /\ Unborn' /\ name' = name /\ once' = once
    BY <1>4, PtyUnchanged DEF vars, ptyVars
  <2> QED
    BY <1>4, <2>1 DEF vars, serverVars, Unused
<1> QED
  BY <1>1, <1>2, <1>3, <1>4, HandlerKeeps, PumpKeeps DEF Next, HandlerStep, PtyOnly

LEMMA Invariance == Spec => []IInv
<1> QED
  BY InvInit, InvStep, PTL DEF Spec
-----------------------------------------------------------------------------
(* The theorems *)

\* The types of ServeConn's state, with the bound on the output channel
\* (termserver/local.go:48).
THEOREM TypeCorrect == Spec => []TypeOK
<1>1. IInv => TypeOK
  BY DEF IInv
<1> QED
  BY <1>1, Invariance, PTL

\* No handler of ServeConn returns before its connection and its PTYSession are
\* closed, also when the PTYSession is being closed by its own goroutine.
THEOREM AlwaysClosedOnReturn == Spec => []ReturnedMeansClosed
<1>1. IInv => ReturnedMeansClosed
  BY DEF IInv
<1> QED
  BY <1>1, Invariance, PTL
=============================================================================
