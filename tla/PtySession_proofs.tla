-------------------------- MODULE PtySession_proofs --------------------------
(***************************************************************************)
(* What the steps of PTYSessions preserve, whoever owns the PTYSessions.   *)
(***************************************************************************)
EXTENDS PtySession, TLAPS

USE NoSessionAssumption, LongerAssumption, KillOnCloseAssumption, OutputCapAssumption

\* The actions on PTYSessions that leave the owner's variables alone.
PtyOnly ==
    \/ \E i \in Pty : PtyStep(i) \/ TmuxAttaches(i) \/ TmuxExits(i)
    \/ \E s \in Session : SessionEnds(s)

LEMMA PtyTypeInit == PtyInit => PtyTypeOK /\ Unborn
<1>1. 0 \in 0..OutputCap
  OBVIOUS
<1> QED
  BY <1>1 DEF PtyInit, PtyTypeOK, Unborn, Unused

\* What a PTYSession does on its own.
LEMMA PtyTypeStep ==
    ASSUME PtyTypeOK, Unborn, PtyOnly
    PROVE  PtyTypeOK' /\ Unborn' /\ name' = name
<1> USE DEF PtyTypeOK, Unborn, Unused
<1>1. ASSUME NEW i \in Pty, CloseBody(i) PROVE PtyTypeOK' /\ Unborn' /\ name' = name
  BY <1>1 DEF CloseBody, KillSession
<1>2. ASSUME NEW i \in Pty, WaiterCloses(i) PROVE PtyTypeOK' /\ Unborn' /\ name' = name
  BY <1>2 DEF WaiterCloses, Enter
<1>3. ASSUME NEW i \in Pty, WaiterEnds(i) PROVE PtyTypeOK' /\ Unborn' /\ name' = name
  BY <1>3 DEF WaiterEnds
<1>4. ASSUME NEW i \in Pty, ReaderReads(i) PROVE PtyTypeOK' /\ Unborn' /\ name' = name
  BY <1>4 DEF ReaderReads
<1>5. ASSUME NEW i \in Pty, ReaderSends(i) PROVE PtyTypeOK' /\ Unborn' /\ name' = name
  <2>1. chunks[i] \in 0..OutputCap /\ chunks[i] < OutputCap
    BY <1>5 DEF ReaderSends, HasRoom
  <2>2. chunks[i] + 1 \in 0..OutputCap
    BY <2>1
  <2>3. chunks' \in [Pty -> 0..OutputCap]
    BY <1>5, <2>2 DEF ReaderSends
  <2> QED
    BY <1>5, <2>3 DEF ReaderSends
<1>6. ASSUME NEW i \in Pty, ReaderEnds(i) PROVE PtyTypeOK' /\ Unborn' /\ name' = name
  BY <1>6 DEF ReaderEnds
<1>7. ASSUME NEW i \in Pty, TmuxAttaches(i) PROVE PtyTypeOK' /\ Unborn' /\ name' = name
  BY <1>7 DEF TmuxAttaches
<1>8. ASSUME NEW i \in Pty, TmuxExits(i) PROVE PtyTypeOK' /\ Unborn' /\ name' = name
  BY <1>8 DEF TmuxExits, Running
<1>9. ASSUME NEW s \in Session, SessionEnds(s) PROVE PtyTypeOK' /\ Unborn' /\ name' = name
  BY <1>9 DEF SessionEnds
<1> QED
  BY <1>1, <1>2, <1>3, <1>4, <1>5, <1>6, <1>7, <1>8, <1>9 DEF PtyOnly, PtyStep, GoroutineStep

\* What an owner does to it: it is opened, ...
LEMMA AttachTypes ==
    ASSUME PtyTypeOK, Unborn, NEW i \in Pty, NEW s \in Session, Attach(i, s)
    PROVE  PtyTypeOK' /\ Unborn'
  BY DEF Attach, PtyTypeOK, Unborn, Unused

\* ... a chunk of its output is taken, ...
LEMMA TakeTypes ==
    ASSUME PtyTypeOK, Unborn, NEW i \in Pty, Take(i)
    PROVE  PtyTypeOK' /\ Unborn'
<1> USE DEF PtyTypeOK, Unborn, Unused
<1>1. chunks[i] \in 0..OutputCap /\ chunks[i] > 0
  BY DEF Take
<1>2. chunks[i] - 1 \in 0..OutputCap
  BY <1>1
<1>3. chunks' \in [Pty -> 0..OutputCap]
  BY <1>2 DEF Take
<1> QED
  BY <1>3 DEF Take

\* ... and its Close is called.
LEMMA EnterTypes ==
    ASSUME PtyTypeOK, Unborn, NEW i \in Pty, ~Unused(i), Enter(i),
           UNCHANGED <<name, proc, reader, chunks, waiter, live>>
    PROVE  PtyTypeOK' /\ Unborn'
  BY DEF Enter, PtyTypeOK, Unborn, Unused

\* A PTYSession on its own does not get from closed back to open.
LEMMA PtyStaysClosed ==
    ASSUME PtyTypeOK, PtyOnly, NEW i \in Pty, once[i] = "closed"
    PROVE  once'[i] = "closed"
<1> USE DEF PtyTypeOK
<1>1. ASSUME NEW j \in Pty, PtyStep(j) PROVE once'[i] = "closed"
  BY <1>1 DEF PtyStep, GoroutineStep, CloseBody, WaiterCloses, WaiterEnds, ReaderReads, ReaderSends,
              ReaderEnds, Enter
<1>2. ASSUME NEW j \in Pty, TmuxAttaches(j) \/ TmuxExits(j) PROVE once'[i] = "closed"
  BY <1>2 DEF TmuxAttaches, TmuxExits
<1>3. ASSUME NEW s \in Session, SessionEnds(s) PROVE once'[i] = "closed"
  BY <1>3 DEF SessionEnds
<1> QED
  BY <1>1, <1>2, <1>3 DEF PtyOnly
=============================================================================
