------------------------ MODULE AgentSessions_proofs ------------------------
(***************************************************************************)
(* Proofs about the agent, for any number of tmux sessions, of PTYSessions *)
(* and of connections.                                                     *)
(***************************************************************************)
EXTENDS AgentSessions, PtySession_proofs, TLAPS

USE NoSessionAssumption, LongerAssumption, KillOnCloseAssumption, OutputCapAssumption,
    NoPtyAssumption, CombinedAssumption

-----------------------------------------------------------------------------
(* Type correctness *)

LEMMA TypeInit == Init => TypeOK /\ Unborn
<1> SUFFICES ASSUME Init PROVE TypeOK /\ Unborn
  OBVIOUS
<1>2. PtyTypeOK /\ Unborn
  BY PtyTypeInit DEF Init
<1>3. up \in BOOLEAN /\ cancelled \in BOOLEAN /\ exited \in BOOLEAN
  BY Zenon DEF Init
<1>4. done \in [Pty -> BOOLEAN]
  BY Zenon DEF Init
<1> QED
  BY <1>2, <1>3, <1>4 DEF Init, TypeOK

\* Every step opens a PTYSession, begins a Close, takes a chunk, is a step of
\* the PTYSessions alone, or leaves all PTYSessions as they are.
LEMMA StepKinds ==
    ASSUME [Next]_vars
    PROVE  \/ \E s \in Session : HandleAttach(s) /\ ~Held(s)
           \/ \E s \in Session : HandleDetach(s) \/ CloseNext(s)
           \/ \E i \in Pty : ForwarderTakes(i)
           \/ PtyOnly /\ UNCHANGED agentVars
           \/ UNCHANGED ptyVars
<1>1. CASE UNCHANGED vars
  BY <1>1 DEF vars
<1>2. CASE Tmux
  BY <1>2 DEF Tmux, PtyOnly
<1>3. CASE \E i \in Pty : PtyStep(i) /\ UNCHANGED agentVars
  BY <1>3 DEF PtyOnly, agentVars
<1>4. CASE \E s \in Session : HandleAttach(s) \/ HandleDetach(s)
  BY <1>4 DEF HandleAttach
<1>5. CASE LoopStep
  BY <1>5 DEF LoopStep, EndClose, AllClosed
<1>6. CASE \E i \in Pty : ForwarderStep(i)
  BY <1>6 DEF ForwarderStep, ForwarderWrites, ForwarderEnds
<1>7. CASE Dial \/ DialFails \/ Drop \/ Cancel \/ Retry \/ ProcessExits \/ ReadError
  BY <1>7 DEF Dial, DialFails, Drop, Cancel, Retry, ProcessExits, ReadError
<1> QED
  BY <1>1, <1>2, <1>3, <1>4, <1>5, <1>6, <1>7 DEF Next, Process

\* What an attach that opens a PTYSession does to the map.
LEMMA AttachEffect ==
    ASSUME IInv, NEW s \in Session, HandleAttach(s), ~Held(s)
    PROVE  \E i \in Pty :
              /\ Unused(i) /\ loop = "read" /\ sessions[s] = NoPty
              /\ name' = [name EXCEPT ![i] = s]
              /\ proc' = [proc EXCEPT ![i] = "starting"]
              /\ sessions' = [sessions EXCEPT ![s] = i]
              /\ UNCHANGED <<once, live, loop, up, cancelled, exited, closing, done>>
  BY DEF HandleAttach, Attach, Held

\* What the beginning of a Close does.
LEMMA CloseEffect ==
    ASSUME IInv, NEW s \in Session, HandleDetach(s) \/ CloseNext(s)
    PROVE  /\ sessions[s] \in Pty /\ name[sessions[s]] = s
           /\ loop \in {"read", "closeall"} /\ loop' \in {"detaching", "closing"}
           /\ closing' = sessions[s]
           /\ once' = [once EXCEPT ![sessions[s]] = IF @ = "open" THEN "running" ELSE @]
           /\ done' = [done EXCEPT ![sessions[s]] = TRUE]
           /\ UNCHANGED <<name, proc, reader, chunks, waiter, live, up, cancelled,
                          exited, sessions, forwarder>>
  BY DEF HandleDetach, CloseNext, BeginClose, Enter, IInv, TypeOK, Entries

LEMMA TypeStep ==
    ASSUME IInv, [Next]_vars
    PROVE  PtyTypeOK' /\ Unborn'
<1> USE DEF TypeOK, PtyTypeOK, Unborn, Unused
<1>0. TypeOK /\ Unborn
  BY DEF IInv
<1>1. ASSUME NEW s \in Session, HandleAttach(s), ~Held(s)
      PROVE  PtyTypeOK' /\ Unborn'
  BY <1>0, <1>1, AttachTypes DEF HandleAttach
<1>2. ASSUME NEW s \in Session, HandleDetach(s) \/ CloseNext(s)
      PROVE  PtyTypeOK' /\ Unborn'
  BY <1>0, <1>2, CloseEffect
<1>3. ASSUME NEW i \in Pty, ForwarderTakes(i)
      PROVE  PtyTypeOK' /\ Unborn'
  BY <1>0, <1>3, TakeTypes DEF ForwarderTakes
<1>4. CASE PtyOnly
  BY <1>0, <1>4, PtyTypeStep
<1>5. CASE UNCHANGED ptyVars
  BY <1>0, <1>5 DEF ptyVars
<1> QED
  BY <1>1, <1>2, <1>3, <1>4, <1>5, StepKinds

-----------------------------------------------------------------------------
(* The map of sessions *)

LEMMA AgentTypeStep ==
    ASSUME IInv, [Next]_vars
    PROVE  TypeOK'
<1> USE DEF TypeOK
<1>0. TypeOK
  BY DEF IInv
<1>a. PtyTypeOK'
  BY TypeStep
<1>1. CASE UNCHANGED vars
  BY <1>0, <1>a, <1>1 DEF vars, agentVars
<1>2. CASE Tmux
  BY <1>0, <1>a, <1>2 DEF Tmux, agentVars
<1>3. CASE \E i \in Pty : PtyStep(i) /\ UNCHANGED agentVars
  BY <1>0, <1>a, <1>3 DEF agentVars
<1>4. ASSUME NEW s \in Session, HandleAttach(s) PROVE TypeOK'
  BY <1>0, <1>a, <1>4 DEF HandleAttach
<1>5. ASSUME NEW s \in Session, HandleDetach(s) \/ CloseNext(s) PROVE TypeOK'
  BY <1>0, <1>a, <1>5, CloseEffect
<1>6. CASE EndClose
  BY <1>0, <1>a, <1>6 DEF EndClose
<1>7. CASE AllClosed
  BY <1>0, <1>a, <1>7 DEF AllClosed
<1>8. ASSUME NEW i \in Pty, ForwarderStep(i) PROVE TypeOK'
  BY <1>0, <1>a, <1>8 DEF ForwarderStep, ForwarderTakes, ForwarderWrites, ForwarderEnds
<1>9. CASE Dial
  <2>1. up' \in BOOLEAN
    BY <1>0, <1>9 DEF Dial
  <2> QED
    BY <1>0, <1>a, <1>9, <2>1 DEF Dial
<1>10. CASE DialFails \/ Retry
  BY <1>0, <1>a, <1>10 DEF DialFails, Retry
<1>11. CASE Drop
  <2>1. up' \in BOOLEAN
    BY Zenon, <1>11 DEF Drop
  <2> QED
    BY <1>0, <1>a, <1>11, <2>1 DEF Drop
<1>12. CASE Cancel
  <2>1. up' \in BOOLEAN /\ cancelled' \in BOOLEAN
    BY Zenon, <1>12 DEF Cancel
  <2> QED
    BY <1>0, <1>a, <1>12, <2>1 DEF Cancel
<1>13. CASE ProcessExits
  <2>1. exited' \in BOOLEAN
    BY Zenon, <1>13 DEF ProcessExits
  <2> QED
    BY <1>0, <1>a, <1>13, <2>1 DEF ProcessExits
<1>14. CASE ReadError
  BY <1>0, <1>a, <1>14 DEF ReadError, OnReadError
<1> QED
  BY <1>1, <1>2, <1>3, <1>4, <1>5, <1>6, <1>7, <1>8, <1>9, <1>10, <1>11, <1>12,
     <1>13, <1>14 DEF Next, Process, LoopStep

\* A PTYSession on its own keeps its name, and does not get from closed back to
\* open.
LEMMA PtyEffect ==
    ASSUME IInv, PtyOnly
    PROVE  /\ name' = name
           /\ \A i \in Pty : once[i] = "closed" => once'[i] = "closed"
  BY PtyTypeStep, PtyStaysClosed DEF IInv, TypeOK

MapInv == Entries /\ UnclosedIsHeld /\ ClosingIsHeld /\ EmptyWhenAway

LEMMA MapStep ==
    ASSUME IInv, [Next]_vars
    PROVE  MapInv'
<1> USE DEF TypeOK, PtyTypeOK, MapInv, Entries, UnclosedIsHeld, ClosingIsHeld,
            EmptyWhenAway, Unused
<1>0. TypeOK /\ Unborn /\ MapInv
  BY DEF IInv
<1>1. CASE UNCHANGED <<name, once, sessions, closing, loop>>
  BY <1>0, <1>1
<1>2. CASE PtyOnly /\ UNCHANGED <<sessions, closing, loop>>
  BY <1>0, <1>2, PtyEffect
<1>3. ASSUME NEW s \in Session, HandleAttach(s), ~Held(s) PROVE MapInv'
  <2>1. PICK i \in Pty :
              /\ Unused(i) /\ loop = "read" /\ sessions[s] = NoPty
              /\ name' = [name EXCEPT ![i] = s]
              /\ sessions' = [sessions EXCEPT ![s] = i]
              /\ UNCHANGED <<once, loop, closing>>
    BY <1>3, AttachEffect
  <2>2. \A t \in Session : sessions[t] # i
    BY <1>0, <2>1
  <2> QED
    BY <1>0, <2>1, <2>2
<1>4. ASSUME NEW s \in Session, HandleDetach(s) \/ CloseNext(s) PROVE MapInv'
  BY <1>0, <1>4, CloseEffect
<1>5. CASE EndClose
  BY <1>0, <1>5 DEF EndClose, Returns, ptyVars
<1>6. CASE Dial \/ DialFails \/ Retry \/ ReadError \/ AllClosed
  BY <1>0, <1>6 DEF Dial, DialFails, Retry, ReadError, AllClosed, OnReadError, ptyVars
<1>7. CASE Drop \/ Cancel \/ ProcessExits
  BY <1>1, <1>7 DEF Drop, Cancel, ProcessExits, ptyVars
<1>8. ASSUME NEW i \in Pty, ForwarderStep(i) PROVE MapInv'
  BY <1>1, <1>8 DEF ForwarderStep, ForwarderTakes, ForwarderWrites, ForwarderEnds, Take, ptyVars
<1>9. ASSUME NEW s \in Session, HandleAttach(s), Held(s) PROVE MapInv'
  BY <1>1, <1>9 DEF HandleAttach, ptyVars
<1>10. CASE UNCHANGED vars
  BY <1>1, <1>10 DEF vars, ptyVars, agentVars
<1>11. CASE Tmux
  BY <1>2, <1>11 DEF Tmux, PtyOnly, agentVars
<1>12. CASE \E i \in Pty : PtyStep(i) /\ UNCHANGED agentVars
  BY <1>2, <1>12 DEF PtyOnly, agentVars
<1> QED
  BY <1>3, <1>4, <1>5, <1>6, <1>7, <1>8, <1>9, <1>10, <1>11, <1>12
     DEF Next, Process, LoopStep

-----------------------------------------------------------------------------
(* Killing sessions *)

\* A tmux session that is alive keeps the PTYSession that will kill it: a
\* session appears only under an open one, and the end of its Close takes the
\* session along.
LEMMA KilledStep ==
    ASSUME IInv, [Next]_vars
    PROVE  ClosedMeansKilled'
<1> SUFFICES ASSUME KillOnClose, NEW s \in live'
             PROVE  \E i \in Pty : name'[i] = s /\ once'[i] # "closed"
  BY DEF ClosedMeansKilled
<1> USE DEF TypeOK, PtyTypeOK, Unused
<1>0. /\ TypeOK /\ Unborn
      /\ \A t \in live : \E i \in Pty : name[i] = t /\ once[i] # "closed"
  BY DEF IInv, ClosedMeansKilled
<1>1. CASE UNCHANGED <<name, once, live>>
  BY <1>0, <1>1
<1>2. ASSUME NEW t \in Session, HandleAttach(t), ~Held(t)
      PROVE  \E i \in Pty : name'[i] = s /\ once'[i] # "closed"
  <2>1. PICK j \in Pty : /\ Unused(j) /\ name' = [name EXCEPT ![j] = t]
                         /\ once' = once /\ live' = live
    BY <1>2, AttachEffect
  <2>2. PICK i \in Pty : name[i] = s /\ once[i] # "closed"
    BY <1>0, <2>1
  <2>3. i # j
    BY <1>0, <2>1, <2>2
  <2> QED
    BY <1>0, <2>1, <2>2, <2>3
<1>3. ASSUME NEW t \in Session, HandleDetach(t) \/ CloseNext(t)
      PROVE  \E i \in Pty : name'[i] = s /\ once'[i] # "closed"
  BY <1>0, <1>3, CloseEffect
<1>4. ASSUME NEW j \in Pty, CloseBody(j)
      PROVE  \E i \in Pty : name'[i] = s /\ once'[i] # "closed"
  <2>1. s \in live /\ s # name[j]
    BY <1>4 DEF CloseBody, KillSession, Target
  <2>2. PICK i \in Pty : name[i] = s /\ once[i] # "closed"
    BY <1>0, <2>1
  <2> QED
    BY <1>0, <1>4, <2>1, <2>2 DEF CloseBody
<1>5. ASSUME NEW j \in Pty, WaiterCloses(j)
      PROVE  \E i \in Pty : name'[i] = s /\ once'[i] # "closed"
  BY <1>0, <1>5 DEF WaiterCloses, Enter
<1>6. ASSUME NEW j \in Pty, \/ WaiterEnds(j) \/ ReaderReads(j) \/ ReaderSends(j)
                            \/ ReaderEnds(j) \/ TmuxExits(j) \/ Take(j)
      PROVE  \E i \in Pty : name'[i] = s /\ once'[i] # "closed"
  BY <1>1, <1>6 DEF WaiterEnds, ReaderReads, ReaderSends, ReaderEnds, TmuxExits, Take
<1>7. ASSUME NEW j \in Pty, TmuxAttaches(j)
      PROVE  \E i \in Pty : name'[i] = s /\ once'[i] # "closed"
  BY <1>0, <1>7 DEF TmuxAttaches
<1>8. ASSUME NEW t \in Session, SessionEnds(t)
      PROVE  \E i \in Pty : name'[i] = s /\ once'[i] # "closed"
  BY <1>0, <1>8 DEF SessionEnds
<1>9. CASE UNCHANGED ptyVars
  BY <1>1, <1>9 DEF ptyVars
<1> QED
  BY <1>2, <1>3, <1>4, <1>5, <1>6, <1>7, <1>8, <1>9, StepKinds
     DEF PtyOnly, PtyStep, GoroutineStep, ForwarderTakes

\* A Close ends with its body, and with nothing else.
LEMMA EndOfClose ==
    ASSUME IInv, [Next]_vars, NEW i \in Pty, once[i] = "running", once'[i] = "closed"
    PROVE  CloseBody(i)
<1> USE DEF TypeOK, PtyTypeOK
<1>0. TypeOK
  BY DEF IInv
<1>1. ASSUME NEW j \in Pty, PtyStep(j) PROVE CloseBody(i)
  <2>1. CASE CloseBody(j)
    BY <1>0, <2>1 DEF CloseBody
  <2>2. CASE WaiterCloses(j)
    BY <1>0, <2>2 DEF WaiterCloses, Enter
  <2>3. CASE WaiterEnds(j) \/ ReaderReads(j) \/ ReaderSends(j) \/ ReaderEnds(j)
    BY <2>3 DEF WaiterEnds, ReaderReads, ReaderSends, ReaderEnds
  <2> QED
    BY <1>1, <2>1, <2>2, <2>3 DEF PtyStep, GoroutineStep
<1>2. ASSUME NEW j \in Pty, TmuxAttaches(j) \/ TmuxExits(j) \/ ForwarderTakes(j)
      PROVE  FALSE
  BY <1>2 DEF TmuxAttaches, TmuxExits, ForwarderTakes, Take
<1>3. ASSUME NEW s \in Session, SessionEnds(s) PROVE FALSE
  BY <1>3 DEF SessionEnds
<1>4. ASSUME NEW s \in Session, HandleAttach(s), ~Held(s) PROVE FALSE
  BY <1>4, AttachEffect
<1>5. ASSUME NEW s \in Session, HandleDetach(s) \/ CloseNext(s) PROVE FALSE
  BY <1>0, <1>5, CloseEffect
<1>6. CASE UNCHANGED ptyVars
  BY <1>6 DEF ptyVars
<1> QED
  BY <1>1, <1>2, <1>3, <1>4, <1>5, <1>6, StepKinds DEF PtyOnly

LEMMA ExitStep ==
    ASSUME IInv, [Next]_vars
    PROVE  ExitsStopped'
<1> USE DEF ExitsStopped
<1>0. ExitsStopped
  BY DEF IInv
<1>1. CASE exited
  <2>1. UNCHANGED <<exited, loop>>
    BY <1>1 DEF Next, Process, Tmux, vars, agentVars
  <2> QED
    BY <1>0, <2>1
<1>2. CASE ProcessExits
  BY <1>2 DEF ProcessExits
<1>3. CASE ~exited /\ exited' = exited
  BY <1>3
<1>4. exited' = exited \/ ProcessExits
  BY DEF Next, Process, Tmux, vars, agentVars, Dial, DialFails, Drop, Cancel, Retry,
         ReadError, LoopStep, EndClose, AllClosed, CloseNext, BeginClose,
         HandleAttach, HandleDetach, ForwarderStep, ForwarderTakes,
         ForwarderWrites, ForwarderEnds
<1> QED
  BY <1>1, <1>2, <1>3, <1>4

-----------------------------------------------------------------------------
(* The theorems *)

LEMMA InvInit == Init => IInv
<1> SUFFICES ASSUME Init PROVE IInv
  OBVIOUS
<1>1. TypeOK /\ Unborn
  BY TypeInit
<1>2. Entries /\ UnclosedIsHeld /\ EmptyWhenAway
  BY DEF Init, PtyInit, Entries, UnclosedIsHeld, EmptyWhenAway, Unused
<1>3. ClosingIsHeld
  BY DEF Init, ClosingIsHeld
<1>4. ClosedMeansKilled
  BY DEF Init, PtyInit, ClosedMeansKilled
<1>5. ExitsStopped
  BY Zenon DEF Init, ExitsStopped
<1> QED
  BY <1>1, <1>2, <1>3, <1>4, <1>5 DEF IInv

LEMMA InvStep == IInv /\ [Next]_vars => IInv'
  BY AgentTypeStep, TypeStep, MapStep, KilledStep, ExitStep DEF IInv, MapInv

LEMMA Invariance == Spec => []IInv
  BY InvInit, InvStep, PTL DEF Spec

\* Every variable keeps its type; in particular no output channel ever holds
\* more than its capacity (local.go, Attach and readLoop).
THEOREM TypeCorrect == Spec => []TypeOK
<1>1. IInv => TypeOK
  BY DEF IInv
<1> QED
  BY <1>1, Invariance, PTL

\* At most one PTYSession of a tmux session is not closed (agent.go,
\* attachSession and closeSession; local.go, Close).
THEOREM AlwaysOnePtyPerSession == Spec => []OnePtyPerSession
<1>1. IInv => OnePtyPerSession
  BY DEF IInv, UnclosedIsHeld, OnePtyPerSession
<1> QED
  BY <1>1, Invariance, PTL

\* Closing one PTYSession never kills the tmux session of another that is open,
\* unless its own session has ended and the other's name begins with its name
\* (agent.go, closeSession; local.go, Close and wait).
THEOREM KillsByNameAlone == Spec => KillsOnlyItsOwn
<1>1. IInv /\ [Next]_vars =>
        [\A i, j \in Pty :
            /\ once[i] = "running" /\ once'[i] = "closed"
            /\ i # j /\ Opened(j) /\ name[j] \in live \ live'
            => name[i] \notin live /\ name[j] \in Longer[name[i]]]_vars
  <2> SUFFICES ASSUME IInv, [Next]_vars, NEW i \in Pty, NEW j \in Pty,
                      once[i] = "running", once'[i] = "closed",
                      i # j, Opened(j), name[j] \in live \ live'
               PROVE  name[i] \notin live /\ name[j] \in Longer[name[i]]
    OBVIOUS
  <2>1. ~Unused(i) /\ ~Unused(j) /\ once[i] # "closed" /\ once[j] # "closed"
    BY DEF IInv, Unborn, Opened
  <2>2. name[j] # name[i]
    BY <2>1 DEF IInv, UnclosedIsHeld
  <2>3. CloseBody(i)
    BY EndOfClose
  <2>4. name[j] \in Target(name[i])
    BY <2>3 DEF CloseBody, KillSession
  <2> QED
    BY <2>2, <2>4 DEF Target
<1> QED
  BY <1>1, Invariance, PTL DEF Spec, KillsOnlyItsOwn

\* No PTYSession is left open between two connections (agent.go, closeAll).
THEOREM NothingLeftOpen == Spec => []NothingOutlivesConnection
<1>1. IInv => NothingOutlivesConnection
  BY DEF IInv, TypeOK, PtyTypeOK, UnclosedIsHeld, EmptyWhenAway, Unused,
         NothingOutlivesConnection
<1> QED
  BY <1>1, Invariance, PTL

\* With KillOnClose a tmux session whose PTYSessions are all closed is gone
\* (local.go, Close).
THEOREM SessionsKilled == Spec => []ClosedMeansKilled
<1>1. IInv => ClosedMeansKilled
  BY DEF IInv
<1> QED
  BY <1>1, Invariance, PTL

\* The command "agent" leaves no session of its own behind when it exits
\* (agentCmd, cmd/runeshell/main.go, which returns only after closeAll).
THEOREM ExitAlwaysKills == Spec => []ExitKills
<1>1. IInv => ExitKills
  <2> SUFFICES ASSUME IInv, exited, ~Combined, KillOnClose, NEW s \in live
               PROVE  FALSE
    BY DEF ExitKills
  <2>1. PICK i \in Pty : name[i] = s /\ once[i] # "closed"
    BY DEF IInv, ClosedMeansKilled
  <2>2. s \in Session /\ ~Unused(i)
    BY <2>1 DEF IInv, TypeOK, PtyTypeOK, Unused
  <2>3. sessions[s] = NoPty
    BY <2>2 DEF IInv, ExitsStopped, EmptyWhenAway
  <2> QED
    BY <2>1, <2>2, <2>3 DEF IInv, UnclosedIsHeld
<1> QED
  BY <1>1, Invariance, PTL
=============================================================================
