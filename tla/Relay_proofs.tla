---------------------------- MODULE Relay_proofs -----------------------------
(***************************************************************************)
(* Proofs about module Relay: every variable keeps its type and no         *)
(* connection holds more than it can; and each client is sent exactly the  *)
(* frames it is to have, once and in order, for any number of clients,     *)
(* sessions and frames and any capacity of the connections.                *)
(***************************************************************************)
EXTENDS Relay, TLAPS

-----------------------------------------------------------------------------
(* Sequences *)

LEMMA SeqMono ==
    ASSUME NEW S, NEW T, S \subseteq T, NEW q \in Seq(S)
    PROVE  q \in Seq(T)
  OBVIOUS

LEMMA AppendKeeps ==
    ASSUME NEW S, NEW q \in Seq(S), NEW x \in S
    PROVE  Append(q, x) \in Seq(S) /\ Len(Append(q, x)) = Len(q) + 1
  OBVIOUS

LEMMA TailKeeps ==
    ASSUME NEW S, NEW q \in Seq(S), q # <<>>
    PROVE  Head(q) \in S /\ Tail(q) \in Seq(S) /\ Len(Tail(q)) = Len(q) - 1
  OBVIOUS

-----------------------------------------------------------------------------
(* Types *)

Handlers == {"new", "attach", "hello", "status", "loop", "pass", "tell",
             "refuse", "leave", "bye", "close", "gone"}

LEMMA TypeInit == Init => TypeOK
  BY WireCapAssumption, BoundsAssumption DEF Init, TypeOK, Types

\* The variables that say how many frames there are grow together.
LEMMA TypeForward ==
    ASSUME TypeOK, NEW s \in Session, Forward(s)
    PROVE  TypeOK'
<1> USE DEF TypeOK, Types, Forward, readerVars, clientVars, syncVars, Room
<1>1. out' \in Seq(Session) /\ Len(out') = Len(out) + 1
  BY AppendKeeps
<1>2. 0..Len(out) \subseteq 0..Len(out') /\ 1..Len(out) \subseteq 1..Len(out')
  BY <1>1
<1>3. toHub' \in Seq(0..Len(out')) /\ Len(toHub') <= WireCap
  <2>1. toHub \in Seq(0..Len(out')) /\ Len(out) + 1 \in 0..Len(out')
    BY <1>1, <1>2, SeqMono
  <2> QED
    BY <2>1, AppendKeeps, WireCapAssumption
<1>4. toBrowser' \in [Client -> Seq(0..Len(out'))]
  BY <1>2, SeqMono
<1>5. got' \in [Client -> Seq(1..Len(out'))]
  BY <1>2, SeqMono
<1>6. cur' \in 0..Len(out')
  BY <1>2
<1> QED
  BY <1>1, <1>3, <1>4, <1>5, <1>6

LEMMA TypeAgent ==
    ASSUME TypeOK, (\E s \in Session : Output(s)) \/ LoopStep
    PROVE  TypeOK'
<1> USE DEF TypeOK, Types, readerVars, clientVars, syncVars, Room
<1>1. CASE \E s \in Session : Output(s)
  BY <1>1 DEF Output
<1>2. CASE LoopReads
  <2>1. Tail(toAgent) \in Seq({"list", "attach", "other"}) /\ Len(Tail(toAgent)) = Len(toAgent) - 1
    BY <1>2, TailKeeps DEF LoopReads
  <2> QED
    BY <1>2, <2>1, WireCapAssumption DEF LoopReads
<1>3. CASE LoopReplies
  <2>1. toHub' \in Seq(0..Len(out)) /\ Len(toHub') <= WireCap
    BY <1>3, AppendKeeps, WireCapAssumption DEF LoopReplies
  <2> QED
    BY <1>3, <2>1 DEF LoopReplies
<1> QED
  BY <1>1, <1>2, <1>3 DEF LoopStep

\* A write leaves the queue of its connection of its type and no longer than
\* it may be.
LEMMA TypeWrite ==
    ASSUME TypeOK, NEW c \in Client, NEW m \in 0..Len(out), WriteTo(c, m)
    PROVE  /\ toBrowser' \in [Client -> Seq(0..Len(out))]
           /\ \A d \in Client : Len(toBrowser'[d]) <= WireCap
<1> USE DEF TypeOK, Types, WriteTo, Writable, Room
<1>1. CASE link[c] = "up"
  <2>1. Append(toBrowser[c], m) \in Seq(0..Len(out))
        /\ Len(Append(toBrowser[c], m)) <= WireCap
    BY <1>1, AppendKeeps, WireCapAssumption
  <2> QED
    BY <1>1, <2>1
<1>2. CASE link[c] # "up"
  BY <1>2
<1> QED
  BY <1>1, <1>2

LEMMA TypeReader ==
    ASSUME TypeOK, ReaderStep
    PROVE  TypeOK'
<1> USE DEF TypeOK, Types, agentVars, clientVars, syncVars
<1>1. CASE TakeFrame \/ TakeAnswer
  <2>1. /\ Head(toHub) \in 0..Len(out) /\ Tail(toHub) \in Seq(0..Len(out))
        /\ Len(Tail(toHub)) = Len(toHub) - 1
    BY <1>1, TailKeeps DEF TakeFrame, TakeAnswer
  <2>2. CASE TakeFrame
    BY <2>1, <2>2, WireCapAssumption DEF TakeFrame, Recipients
  <2>3. CASE TakeAnswer
    BY <2>1, <2>3, WireCapAssumption DEF TakeAnswer, readerVars
  <2> QED
    BY <1>1, <2>2, <2>3
<1>3. ASSUME NEW c \in Client, Distribute(c) PROVE TypeOK'
  <2>1. WriteTo(c, cur)
    BY <1>3 DEF Distribute
  <2>2. /\ toBrowser' \in [Client -> Seq(0..Len(out))]
        /\ \A d \in Client : Len(toBrowser'[d]) <= WireCap
    BY <2>1, TypeWrite
  <2> QED
    BY <1>3, <2>2 DEF Distribute
<1> QED
  BY <1>1, <1>3 DEF ReaderStep

\* The end of a connection.
LEMMA TypeLose ==
    ASSUME TypeOK, NEW c \in Client, Lose(c)
    PROVE  /\ link' \in [Client -> {"up", "down"}]
           /\ toBrowser' \in [Client -> Seq(0..Len(out))]
           /\ \A d \in Client : Len(toBrowser'[d]) <= WireCap
           /\ got' \in [Client -> Seq(1..Len(out))]
<1> DEFINE full == [k \in 1..WireCap |-> 0]
<1>1. full \in Seq(0..Len(out)) /\ Len(full) = WireCap
  BY WireCapAssumption DEF TypeOK, Types
<1>2. <<>> \in Seq(1..Len(out))
  OBVIOUS
<1> HIDE DEF full
<1>3. toBrowser' = [toBrowser EXCEPT ![c] = full]
  BY DEF Lose, full
<1> QED
  BY <1>1, <1>2, <1>3, WireCapAssumption DEF Lose, TypeOK, Types

LEMMA TypeTelling ==
    ASSUME TypeOK, NEW c \in Client, NEW who \in SUBSET Client,
           NEW from \in Handlers, NEW to \in Handlers, Telling(c, who, from, to)
    PROVE  todo' \in [Client -> SUBSET Client] /\ pc' \in [Client -> Handlers]
  BY DEF Telling, Goto, TypeOK, Types, Handlers

LEMMA TypeStartSync ==
    ASSUME TypeOK, StartSync
    PROVE  sync' \in [Sync -> {"idle", "ask", "wait", "tell"}] /\ untold' = untold
  BY DEF StartSync, TypeOK, Types

LEMMA TypeSync ==
    ASSUME TypeOK, NEW y \in Sync, SyncStep(y)
    PROVE  TypeOK'
<1> USE DEF TypeOK, Types, agentVars, readerVars, clientVars
<1>1. CASE Ask(y)
  <2>1. toAgent' \in Seq({"list", "attach", "other"}) /\ Len(toAgent') <= WireCap
    BY <1>1, AppendKeeps, WireCapAssumption DEF SyncStep, Ask, SyncGoesOn, SyncTells,
       Room
  <2> QED
    BY <1>1, <2>1 DEF Ask
<1>2. CASE SyncGoesOn(y)
  BY <1>2 DEF SyncGoesOn, Owes
<1>3. ASSUME NEW d \in Client, SyncTells(y, d) PROVE TypeOK'
  <2>1. WriteTo(d, 0) /\ 0 \in 0..Len(out)
    BY <1>3 DEF SyncTells
  <2>2. /\ toBrowser' \in [Client -> Seq(0..Len(out))]
        /\ \A e \in Client : Len(toBrowser'[e]) <= WireCap
    BY <2>1, TypeWrite
  <2> QED
    BY <1>3, <2>2 DEF SyncTells, Owes
<1> QED
  BY <1>1, <1>2, <1>3 DEF SyncStep

LEMMA TypeHandler ==
    ASSUME TypeOK, NEW c \in Client,
           HandlerStep(c) \/ ReadErr(c) \/ Join(c) \/ Message(c) \/ Request(c)
    PROVE  TypeOK'
<1> USE DEF TypeOK, Types, agentVars, readerVars, syncVars, Goto
<1>1. CASE Attach(c) \/ Pass(c)
  <2>1. /\ \E m \in {"attach", "other"} : toAgent' = Append(toAgent, m)
        /\ Len(toAgent) < WireCap
    BY <1>1 DEF Attach, Pass, PassOn, Room
  <2>0. toAgent' \in Seq({"list", "attach", "other"}) /\ Len(toAgent') <= WireCap
    BY <2>1, AppendKeeps, WireCapAssumption
  <2>2. CASE Attach(c)
    BY <2>0, <2>2 DEF Attach, PassOn
  <2>3. CASE Pass(c)
    <3>1. sync' \in [Sync -> {"idle", "ask", "wait", "tell"}] /\ untold' = untold
      BY <2>3, TypeStartSync DEF Pass
    <3>2. pc' = [pc EXCEPT ![c] = "loop"]
      BY <2>3 DEF Pass, PassOn
    <3> QED
      BY <2>0, <2>3, <3>1, <3>2 DEF Pass
  <2> QED
    BY <1>1, <2>2, <2>3
<1>2. CASE Hello(c) \/ FirstStatus(c)
  <2>1. WriteTo(c, 0) /\ 0 \in 0..Len(out)
    BY <1>2 DEF Hello, FirstStatus
  <2>2. /\ toBrowser' \in [Client -> Seq(0..Len(out))]
        /\ \A d \in Client : Len(toBrowser'[d]) <= WireCap
    BY <2>1, TypeWrite
  <2>3. CASE Hello(c)
    BY <2>2, <2>3 DEF Hello
  <2>4. CASE FirstStatus(c)
    <3>1. sync' \in [Sync -> {"idle", "ask", "wait", "tell"}] /\ untold' = untold
      BY <2>4, TypeStartSync DEF FirstStatus
    <3> QED
      BY <2>2, <2>4, <3>1 DEF FirstStatus
  <2> QED
    BY <1>2, <2>3, <2>4
<1>3. ASSUME NEW d \in Client, Tell(c, d) PROVE TypeOK'
  <2>1. WriteTo(d, 0) /\ 0 \in 0..Len(out)
    BY <1>3 DEF Tell
  <2>2. /\ toBrowser' \in [Client -> Seq(0..Len(out))]
        /\ \A e \in Client : Len(toBrowser'[e]) <= WireCap
    BY <2>1, TypeWrite
  <2>3. \E from, to \in Handlers : Telling(c, todo[c] \ {d}, from, to)
    BY <1>3 DEF Tell, Handlers
  <2> QED
    BY <1>3, <2>2, <2>3, TypeTelling DEF Tell, Handlers
<1>4. CASE Leave(c)
  BY <1>4 DEF Leave, Telling
<1>5. CASE Close(c)
  <2>1. CASE link[c] = "up"
    BY <1>5, <2>1, TypeLose DEF Close
  <2>2. CASE link[c] # "up"
    BY <1>5, <2>2 DEF Close
  <2> QED
    BY <2>1, <2>2
<1>6. CASE ReadErr(c)
  BY <1>6 DEF ReadErr
<1>7. CASE Join(c)
  BY <1>7 DEF Join
<1>8. CASE Message(c)
  BY <1>8, BoundsAssumption DEF Message
<1>9. CASE Request(c)
  <2>1. \E from, to \in Handlers, who \in SUBSET Client : Telling(c, who, from, to)
    BY <1>9 DEF Request, Handlers
  <2>2. said' \in 0..MaxIn
    BY <1>9, BoundsAssumption DEF Request
  <2> QED
    BY <1>9, <2>1, <2>2, TypeTelling DEF Request, Handlers
<1> QED
  BY <1>1, <1>2, <1>3, <1>4, <1>5, <1>6, <1>7, <1>8, <1>9 DEF HandlerStep

LEMMA TypeBrowser ==
    ASSUME TypeOK, NEW c \in Client, BrowserReads(c) \/ Drop(c)
    PROVE  TypeOK'
<1> USE DEF TypeOK, Types, agentVars, readerVars, clientVars, syncVars
<1>1. CASE BrowserReads(c)
  <2>1. /\ Head(toBrowser[c]) \in 0..Len(out)
        /\ Tail(toBrowser[c]) \in Seq(0..Len(out))
        /\ Len(Tail(toBrowser[c])) = Len(toBrowser[c]) - 1
    BY <1>1, TailKeeps DEF BrowserReads
  <2>2. Head(toBrowser[c]) # 0 =>
            Append(got[c], Head(toBrowser[c])) \in Seq(1..Len(out))
    BY <2>1, AppendKeeps
  <2>3. got' \in [Client -> Seq(1..Len(out))]
    BY <1>1, <2>2 DEF BrowserReads
  <2>4. toBrowser' \in [Client -> Seq(0..Len(out))]
        /\ \A d \in Client : Len(toBrowser'[d]) <= WireCap
    BY <1>1, <2>1, WireCapAssumption DEF BrowserReads
  <2> QED
    BY <1>1, <2>3, <2>4 DEF BrowserReads
<1>2. CASE Drop(c)
  BY <1>2, TypeLose DEF Drop
<1> QED
  BY <1>1, <1>2

LEMMA TypeStep == TypeOK /\ [Next]_vars => TypeOK'
<1> SUFFICES ASSUME TypeOK, [Next]_vars PROVE TypeOK'
  OBVIOUS
<1>1. CASE UNCHANGED vars
  BY <1>1 DEF vars, agentVars, readerVars, clientVars, syncVars, TypeOK, Types
<1> QED
  BY <1>1, TypeForward, TypeAgent, TypeReader, TypeSync, TypeHandler,
     TypeBrowser DEF Next

\* Every variable has its type, and no connection ever holds more messages
\* than it can, whoever writes to it.
THEOREM TypeCorrect == Spec => []TypeOK
  BY TypeInit, TypeStep, PTL DEF Spec

-----------------------------------------------------------------------------
(* Sequences of frames, in which 0 is a message that is not a frame *)

LEMMA IsFrame ==
    ASSUME NEW q, NEW n
    PROVE  n \in FramesIn(q) <=> n # 0 /\ \E k \in DOMAIN q : q[k] = n
  BY DEF FramesIn

LEMMA FramesOfAppend ==
    ASSUME NEW q \in Seq(Nat), NEW n \in Nat
    PROVE  /\ FramesIn(Append(q, n)) = FramesIn(q) \union ({n} \ {0})
           /\ Ascending(q) /\ (n # 0 => \A m \in FramesIn(q) : m < n)
                 => Ascending(Append(q, n))
<1> DEFINE new == Append(q, n)
<1>1. /\ DOMAIN new = DOMAIN q \union {Len(q) + 1} /\ new[Len(q) + 1] = n
      /\ \A k \in DOMAIN q : new[k] = q[k]
  OBVIOUS
<1>2. DOMAIN q = 1..Len(q) /\ Len(q) \in Nat
  OBVIOUS
<1> HIDE DEF new
<1>3. \A m : m \in FramesIn(new) <=> m \in FramesIn(q) \union ({n} \ {0})
  BY <1>1, IsFrame
<1>4. ASSUME Ascending(q), n # 0 => \A m \in FramesIn(q) : m < n
      PROVE  Ascending(new)
  <2>1. \A j \in DOMAIN q : n # 0 /\ q[j] # 0 => q[j] < n
    BY <1>4, IsFrame
  <2> QED
    BY <1>1, <1>2, <1>4, <2>1 DEF Ascending
<1> QED
  BY <1>3, <1>4 DEF new

LEMMA FramesOfTail ==
    ASSUME NEW q \in Seq(Nat), q # <<>>, Ascending(q)
    PROVE  /\ Ascending(Tail(q))
           /\ Head(q) = 0 => FramesIn(Tail(q)) = FramesIn(q)
           /\ Head(q) # 0 => /\ FramesIn(Tail(q)) = FramesIn(q) \ {Head(q)}
                             /\ Head(q) \in FramesIn(q)
                             /\ \A m \in FramesIn(q) : Head(q) <= m
<1>1. Ascending(Tail(q))
  BY DEF Ascending
<1>2. \A k \in DOMAIN q : k = 1 \/ (k - 1 \in DOMAIN Tail(q) /\ q[k] = Tail(q)[k - 1])
  OBVIOUS
<1>3. \A k \in DOMAIN Tail(q) : k + 1 \in DOMAIN q /\ Tail(q)[k] = q[k + 1]
  OBVIOUS
<1>4. Head(q) = q[1] /\ 1 \in DOMAIN q
  OBVIOUS
<1>5. FramesIn(q) = FramesIn(Tail(q)) \union ({Head(q)} \ {0})
  <2> DEFINE t == Tail(q)
             h == Head(q)
  <2>0. /\ \A k \in DOMAIN q : k = 1 \/ (k - 1 \in DOMAIN t /\ q[k] = t[k - 1])
        /\ \A k \in DOMAIN t : k + 1 \in DOMAIN q /\ t[k] = q[k + 1]
        /\ h = q[1] /\ 1 \in DOMAIN q
    BY <1>2, <1>3, <1>4
  <2> HIDE DEF t, h
  <2>1. \A n : n \in FramesIn(q) <=> n \in FramesIn(t) \union ({h} \ {0})
    <3> TAKE n
    <3>1. n \in FramesIn(q) => n \in FramesIn(t) \union ({h} \ {0})
      BY <2>0, IsFrame
    <3>2. n \in FramesIn(t) \union ({h} \ {0}) => n \in FramesIn(q)
      BY <2>0, IsFrame
    <3> QED
      BY <3>1, <3>2
  <2> QED
    BY <2>1 DEF t, h
<1>6. Head(q) # 0 => \A m \in FramesIn(Tail(q)) : Head(q) < m
  <2> SUFFICES ASSUME Head(q) # 0, NEW k \in DOMAIN Tail(q), Tail(q)[k] # 0
               PROVE  Head(q) < Tail(q)[k]
    BY DEF FramesIn
  <2>1. k + 1 \in DOMAIN q /\ 1 < k + 1 /\ q[k + 1] # 0
    BY <1>3
  <2> QED
    BY <1>3, <1>4, <2>1 DEF Ascending
<1>7. FramesIn(Tail(q)) \subseteq Nat /\ Head(q) \in Nat
  BY DEF FramesIn
<1> QED
  BY <1>1, <1>5, <1>6, <1>7

\* What has been read and what is still on its way, as one sequence: a message
\* that is sent comes last, and reading changes nothing but that messages that
\* are not frames go.
LEMMA FramesOnSending ==
    ASSUME NEW p \in Seq(Nat), NEW q \in Seq(Nat), NEW n \in Nat
    PROVE  p \o Append(q, n) = Append(p \o q, n)
  OBVIOUS

LEMMA FramesOnReading ==
    ASSUME NEW p \in Seq(Nat), NEW q \in Seq(Nat), q # <<>>
    PROVE  /\ Append(p, Head(q)) \o Tail(q) = p \o q
           /\ Head(q) = 0 /\ Ascending(p \o q) =>
                 /\ FramesIn(p \o Tail(q)) = FramesIn(p \o q)
                 /\ Ascending(p \o Tail(q))
<1>1. Append(p, Head(q)) \o Tail(q) = p \o q
  OBVIOUS
<1>2. ASSUME Head(q) = 0, Ascending(p \o q)
      PROVE  /\ FramesIn(p \o Tail(q)) = FramesIn(p \o q)
             /\ Ascending(p \o Tail(q))
  <2> DEFINE old == p \o q
             new == p \o Tail(q)
             at(k) == IF k <= Len(p) THEN k ELSE k + 1
  <2>1. /\ old \in Seq(Nat) /\ new \in Seq(Nat) /\ Len(new) = Len(old) - 1
        /\ old[Len(p) + 1] = 0 /\ Len(p) + 1 \in DOMAIN old
    BY <1>2
  <2>2. \A k \in DOMAIN new : at(k) \in DOMAIN old /\ new[k] = old[at(k)]
    OBVIOUS
  <2>3. \A k \in DOMAIN old : \/ k = Len(p) + 1
                              \/ \E j \in DOMAIN new : new[j] = old[k]
    <3> SUFFICES ASSUME NEW k \in DOMAIN old, k # Len(p) + 1
                 PROVE  \E j \in DOMAIN new : new[j] = old[k]
      OBVIOUS
    <3>1. CASE k <= Len(p)
      BY <3>1
    <3>2. CASE k > Len(p) + 1
      <4>1. k - 1 \in DOMAIN new /\ at(k - 1) = k
        BY <2>1, <3>2
      <4> QED
        BY <2>2, <4>1
    <3> QED
      BY <3>1, <3>2
  <2>4. \A j, k \in DOMAIN new : j < k => at(j) < at(k)
    OBVIOUS
  <2> HIDE DEF old, new, at
  <2>5. FramesIn(new) = FramesIn(old)
    <3>1. ASSUME NEW n \in FramesIn(new) PROVE n \in FramesIn(old)
      BY <2>2, <3>1, IsFrame
    <3>2. ASSUME NEW n \in FramesIn(old) PROVE n \in FramesIn(new)
      <4>1. PICK k \in DOMAIN old : old[k] = n /\ n # 0
        BY <3>2, IsFrame
      <4>2. k # Len(p) + 1
        BY <2>1, <4>1
      <4> QED
        BY <2>3, <4>1, <4>2, IsFrame
    <3> QED
      BY <3>1, <3>2
  <2>6. Ascending(new)
    BY <1>2, <2>2, <2>4 DEF Ascending, old
  <2> QED
    BY <2>5, <2>6 DEF old, new
<1> QED
  BY <1>1, <1>2

-----------------------------------------------------------------------------
(* The frames on their way to the hub *)

LEMMA NaturalQueues ==
    ASSUME TypeOK
    PROVE  /\ toHub \in Seq(Nat) /\ cur \in Nat /\ Len(out) \in Nat
           /\ \A c \in Client : /\ toBrowser[c] \in Seq(Nat) /\ got[c] \in Seq(Nat)
                                /\ Sent(c) \in Seq(Nat)
<1>1. Len(out) \in Nat
  BY DEF TypeOK, Types
<1>2. 0..Len(out) \subseteq Nat /\ 1..Len(out) \subseteq Nat
  BY <1>1
<1>3. toHub \in Seq(Nat) /\ cur \in Nat
  BY <1>2, SeqMono DEF TypeOK, Types
<1>4. \A c \in Client : toBrowser[c] \in Seq(Nat) /\ got[c] \in Seq(Nat)
  BY <1>2, SeqMono DEF TypeOK, Types
<1> QED
  BY <1>1, <1>3, <1>4 DEF Sent

\* What the reader takes is the frame after the one it had.
LEMMA TakesNext ==
    ASSUME TypeOK, NextInLine, TakeFrame
    PROVE  cur' = cur + 1 /\ cur + 1 \in 1..Len(out)
<1>1. /\ toHub \in Seq(Nat) /\ toHub # <<>> /\ Head(toHub) # 0
      /\ FramesIn(toHub) = cur + 1 .. Len(out) /\ Ascending(toHub)
  BY NaturalQueues DEF TakeFrame, NextInLine
<1>2. /\ Head(toHub) \in FramesIn(toHub)
      /\ \A m \in FramesIn(toHub) : Head(toHub) <= m
  BY <1>1, FramesOfTail
<1>3. Head(toHub) \in cur + 1 .. Len(out) /\ cur \in Nat /\ Len(out) \in Nat
  BY <1>1, <1>2, NaturalQueues
<1>4. cur + 1 \in FramesIn(toHub)
  BY <1>1, <1>3
<1> QED
  BY <1>2, <1>3, <1>4 DEF TakeFrame

LEMMA NextInLineStep ==
    ASSUME TypeOK, NextInLine, [Next]_vars
    PROVE  NextInLine'
<1>1. /\ toHub \in Seq(Nat) /\ cur \in Nat /\ Len(out) \in Nat /\ cur <= Len(out)
      /\ FramesIn(toHub) = cur + 1 .. Len(out) /\ Ascending(toHub)
  BY NaturalQueues DEF NextInLine, TypeOK, Types
<1>2. ASSUME NEW s \in Session, Forward(s) PROVE NextInLine'
  <2>1. toHub' = Append(toHub, Len(out) + 1) /\ Len(out') = Len(out) + 1 /\ cur' = cur
    BY <1>2 DEF Forward, readerVars, TypeOK, Types
  <2>2. FramesIn(toHub') = (cur + 1 .. Len(out)) \union {Len(out) + 1}
        /\ Ascending(toHub')
    BY <1>1, <2>1, FramesOfAppend
  <2>3. (cur + 1 .. Len(out)) \union {Len(out) + 1} = cur' + 1 .. Len(out')
    BY <1>1, <2>1
  <2> QED
    BY <2>2, <2>3 DEF NextInLine
<1>3. CASE LoopReplies
  <2>1. FramesIn(Append(toHub, 0)) = FramesIn(toHub) /\ Ascending(Append(toHub, 0))
    BY <1>1, FramesOfAppend
  <2> QED
    BY <1>1, <1>3, <2>1 DEF LoopReplies, NextInLine, readerVars
<1>4. CASE TakeFrame
  <2>1. /\ FramesIn(Tail(toHub)) = FramesIn(toHub) \ {Head(toHub)}
        /\ Ascending(Tail(toHub)) /\ cur' = cur + 1 /\ Head(toHub) = cur + 1
    BY <1>1, <1>4, FramesOfTail, TakesNext DEF TakeFrame
  <2>2. (cur + 1 .. Len(out)) \ {cur + 1} = cur' + 1 .. Len(out)
    BY <1>1, <2>1
  <2>3. toHub' = Tail(toHub) /\ out' = out
    BY <1>4 DEF TakeFrame, agentVars
  <2> QED
    BY <1>1, <2>1, <2>2, <2>3 DEF NextInLine
<1>5. CASE TakeAnswer
  <2>1. FramesIn(Tail(toHub)) = FramesIn(toHub) /\ Ascending(Tail(toHub))
    BY <1>1, <1>5, FramesOfTail DEF TakeAnswer
  <2> QED
    BY <1>1, <1>5, <2>1 DEF TakeAnswer, NextInLine, readerVars, agentVars
<1>6. \/ UNCHANGED <<toHub, out, cur>>
      \/ \E s \in Session : Forward(s)
      \/ LoopReplies \/ TakeFrame \/ TakeAnswer
  BY DEF Next, vars, agentVars, readerVars, LoopStep, ReaderStep, HandlerStep, Output,
         LoopReads, Distribute, SyncStep, Ask, SyncGoesOn, SyncTells, Attach, Hello,
         FirstStatus, Tell, Pass, Leave,
         Close, ReadErr, Join, Message, Request, BrowserReads, Drop
<1> QED
  BY <1>2, <1>3, <1>4, <1>5, <1>6 DEF NextInLine

-----------------------------------------------------------------------------
(* The clients: what a step does to who is served, and from which frame on *)

LEMMA ServedStep ==
    ASSUME TypeOK, NextInLine, [Next]_vars
    PROVE  \/ UNCHANGED <<cur, rest, clients, first, out>>
           \/ UNCHANGED <<cur, rest, clients, first>> /\ \E s \in Session : out' = Append(out, s)
           \/ UNCHANGED <<clients, first, out>> /\ cur' = cur + 1 /\ cur < Len(out)
                /\ rest = {} /\ rest' = {c \in clients : Wants(c, out[cur'])}
           \/ UNCHANGED <<cur, clients, first, out>> /\ \E c \in rest :
                Distribute(c) /\ rest' = rest \ {c}
           \/ UNCHANGED <<cur, rest, first, out>> /\ clients' \subseteq clients
           \/ UNCHANGED <<cur, rest, out>> /\ \E c \in Client :
                /\ pc[c] = "new" /\ clients' = clients \union {c}
                /\ first' = [first EXCEPT ![c] = cur + 1]
<1>1. ASSUME NEW s \in Session, Forward(s)
      PROVE  UNCHANGED <<cur, rest, clients, first>> /\ out' = Append(out, s)
  BY <1>1 DEF Forward, readerVars, clientVars
<1>2. ASSUME TakeFrame
      PROVE  /\ UNCHANGED <<clients, first, out>> /\ cur' = cur + 1 /\ cur < Len(out)
             /\ rest = {} /\ rest' = {c \in clients : Wants(c, out[cur'])}
  <2>1. cur' = cur + 1 /\ cur < Len(out)
    BY <1>2, TakesNext, NaturalQueues
  <2> QED
    BY <1>2, <2>1 DEF TakeFrame, Recipients, agentVars, clientVars
<1>3. ASSUME NEW c \in Client, Distribute(c)
      PROVE  /\ UNCHANGED <<cur, clients, first, out>>
             /\ c \in rest /\ rest' = rest \ {c}
  BY <1>3 DEF Distribute, agentVars, clientVars
<1>4. ASSUME NEW c \in Client, Join(c)
      PROVE  /\ UNCHANGED <<cur, rest, out>>
             /\ pc[c] = "new" /\ clients' = clients \union {c}
             /\ first' = [first EXCEPT ![c] = cur + 1]
  BY <1>4 DEF Join, agentVars, readerVars
<1>5. ASSUME NEW c \in Client, Leave(c)
      PROVE  UNCHANGED <<cur, rest, first, out>> /\ clients' \subseteq clients
  BY <1>5 DEF Leave, agentVars, readerVars
<1>6. \/ UNCHANGED <<cur, rest, clients, first, out>>
      \/ \E s \in Session : Forward(s)
      \/ TakeFrame
      \/ \E c \in Client : Distribute(c) \/ Join(c) \/ Leave(c)
  BY DEF Next, vars, agentVars, readerVars, clientVars, syncVars, LoopStep, ReaderStep,
         HandlerStep, Output, LoopReads, LoopReplies, TakeAnswer, SyncStep, Ask,
         SyncGoesOn, SyncTells, Attach, Hello,
         FirstStatus, Tell, Pass, Close, ReadErr, Message, Request, BrowserReads, Drop
<1> QED
  BY <1>1, <1>2, <1>3, <1>4, <1>5, <1>6

LEMMA NewIsUnknownStep ==
    ASSUME TypeOK, NewIsUnknown, [Next]_vars
    PROVE  NewIsUnknown'
<1> SUFFICES ASSUME NEW c \in Client, pc'[c] = "new" PROVE Unknown(c)'
  BY DEF NewIsUnknown
<1> USE DEF Goto, PassOn, WriteTo, agentVars, readerVars, clientVars, syncVars, Unknown
<1>0. /\ rest \subseteq Client /\ clients \subseteq Client
      /\ pc \in [Client -> Handlers] /\ todo \in [Client -> SUBSET Client]
      /\ untold \in [Sync -> SUBSET Client]
      /\ DOMAIN toBrowser = Client /\ DOMAIN got = Client
  BY DEF TypeOK, Types, Handlers
<1>1. pc[c] = "new" => Unknown(c)
  BY DEF NewIsUnknown
<1>2. CASE UNCHANGED vars
  BY <1>1, <1>2 DEF vars
<1>3. CASE \/ \E s \in Session : Output(s) \/ Forward(s)
           \/ LoopStep \/ TakeFrame \/ TakeAnswer
  BY <1>1, <1>3 DEF Output, Forward, LoopStep, LoopReads, LoopReplies, TakeFrame,
                    TakeAnswer, Recipients
<1>4. ASSUME NEW d \in Client, Distribute(d) PROVE Unknown(c)'
  BY <1>0, <1>1, <1>4 DEF Distribute
<1>5. ASSUME NEW d \in Client, Join(d) PROVE Unknown(c)'
  BY <1>0, <1>1, <1>5 DEF Join, Handlers
<1>6. ASSUME NEW d \in Client,
             Attach(d) \/ Pass(d) \/ ReadErr(d) \/ Message(d)
      PROVE  Unknown(c)'
  BY <1>0, <1>1, <1>6 DEF Attach, Pass, StartSync, ReadErr, Message
<1>7. ASSUME NEW d \in Client, Hello(d) \/ FirstStatus(d) PROVE Unknown(c)'
  BY <1>0, <1>1, <1>7 DEF Hello, FirstStatus, StartSync
<1>8. ASSUME NEW e \in Client, NEW d \in Client, Tell(e, d) PROVE Unknown(c)'
  <2>1. pc[c] = "new"
    BY <1>0, <1>8 DEF Tell, Telling
  <2> QED
    BY <1>0, <1>1, <1>8, <2>1 DEF Tell, Telling
<1>9. ASSUME NEW d \in Client, Request(d) PROVE Unknown(c)'
  <2>1. pc[c] = "new" /\ c # d
    BY <1>0, <1>9 DEF Request, Telling
  <2> QED
    BY <1>0, <1>1, <1>9, <2>1 DEF Request, Telling
<1>10. ASSUME NEW d \in Client, Leave(d) PROVE Unknown(c)'
  <2>1. pc[c] = "new" /\ c # d
    BY <1>0, <1>10 DEF Leave, Telling
  <2> QED
    BY <1>0, <1>1, <1>10, <2>1 DEF Leave, Telling
<1>11. ASSUME NEW d \in Client, Close(d) \/ Drop(d) PROVE Unknown(c)'
  BY <1>0, <1>1, <1>11 DEF Close, Drop, Lose
<1>12. ASSUME NEW d \in Client, BrowserReads(d) PROVE Unknown(c)'
  BY <1>0, <1>1, <1>12 DEF BrowserReads
<1>13. ASSUME NEW y \in Sync, SyncStep(y) PROVE Unknown(c)'
  <2>1. CASE Ask(y) \/ SyncGoesOn(y)
    BY <1>0, <1>1, <2>1 DEF Ask, SyncGoesOn, Owes
  <2>2. ASSUME NEW d \in Client, SyncTells(y, d) PROVE Unknown(c)'
    BY <1>0, <1>1, <2>2 DEF SyncTells, Owes
  <2> QED
    BY <1>13, <2>1, <2>2 DEF SyncStep
<1> QED
  BY <1>2, <1>3, <1>4, <1>5, <1>6, <1>7, <1>8, <1>9, <1>10, <1>11, <1>12, <1>13
     DEF Next, ReaderStep, HandlerStep

LEMMA StartsInTimeStep ==
    ASSUME TypeOK, NextInLine, StartsInTime, [Next]_vars
    PROVE  StartsInTime'
<1>1. cur \in Nat /\ clients \subseteq Client /\ first \in [Client -> Nat]
  BY NaturalQueues DEF TypeOK, Types
<1> QED
  BY <1>1, ServedStep DEF StartsInTime

LEMMA RestIsDueStep ==
    ASSUME TypeOK, NextInLine, StartsInTime, NewIsUnknown, RestIsDue, [Next]_vars
    PROVE  RestIsDue'
<1>1. /\ cur \in 0..Len(out) /\ Len(out) \in Nat /\ out \in Seq(Session)
      /\ clients \subseteq Client /\ rest \subseteq Client
      /\ first \in [Client -> Nat]
  BY NaturalQueues DEF TypeOK, Types
<1>2. CASE UNCHANGED <<cur, rest, clients, first>> /\ \E s \in Session : out' = Append(out, s)
  BY <1>1, <1>2 DEF RestIsDue, Wants
<1>3. CASE /\ UNCHANGED <<clients, first, out>> /\ cur' = cur + 1 /\ cur < Len(out)
           /\ rest = {} /\ rest' = {c \in clients : Wants(c, out[cur'])}
  BY <1>1, <1>3 DEF RestIsDue, StartsInTime, Wants
<1>4. CASE \E c \in Client :
              /\ UNCHANGED <<cur, rest, out>> /\ pc[c] = "new"
              /\ first' = [first EXCEPT ![c] = cur + 1]
  BY <1>1, <1>4 DEF RestIsDue, NewIsUnknown, Unknown, Wants
<1>5. CASE UNCHANGED <<cur, first, out>> /\ rest' \subseteq rest
  BY <1>5 DEF RestIsDue, Wants
<1> QED
  BY <1>2, <1>3, <1>4, <1>5, ServedStep

-----------------------------------------------------------------------------
(* What is sent to a client *)

\* A step changes what a client that stays connected has been sent in one way:
\* the current frame or a message that is not a frame is appended, or it reads.
LEMMA SentStep ==
    ASSUME TypeOK, NextInLine, NewIsUnknown, ExactStream, [Next]_vars,
           NEW c \in clients, link'[c] = "up"
    PROVE  /\ link[c] = "up"
           /\ \/ FramesIn(Sent(c))' = FramesIn(Sent(c)) /\ Ascending(Sent(c))'
              \/ Distribute(c) /\ Sent(c)' = Append(Sent(c), cur)
<1> USE DEF Goto, PassOn, agentVars, readerVars, clientVars
<1>0. /\ clients \subseteq Client
      /\ \A d \in Client : got[d] \in Seq(Nat) /\ toBrowser[d] \in Seq(Nat)
                           /\ Sent(d) \in Seq(Nat)
      /\ DOMAIN toBrowser = Client /\ DOMAIN got = Client
      /\ link \in [Client -> {"up", "down"}]
  BY NaturalQueues DEF TypeOK, Types
<1>1. link[c] = "up" /\ (link' = link \/ \E d \in Client : d # c /\ Lose(d))
  <2>1. link' = link \/ \E d \in Client : Lose(d)
    BY DEF Next, vars, LoopStep, ReaderStep, HandlerStep, Output, Forward, LoopReads,
           LoopReplies, TakeFrame, TakeAnswer, Distribute, SyncStep, Ask, SyncGoesOn,
           SyncTells, Attach, Hello,
           FirstStatus, Tell, Pass, Leave, Close, ReadErr, Join, Message, Request,
           BrowserReads, Drop
  <2> QED
    BY <1>0, <2>1 DEF Lose
<1>2. Ascending(Sent(c))
  BY <1>1 DEF ExactStream
<1>3. CASE UNCHANGED <<got, toBrowser>>
  <2>1. Sent(c)' = Sent(c)
    BY <1>3 DEF Sent
  <2> QED
    BY <1>1, <1>2, <2>1
<1>4. ASSUME NEW d \in Client, Lose(d), d # c
      PROVE  Sent(c)' = Sent(c)
  BY <1>0, <1>4 DEF Lose, Sent
<1>5. ASSUME NEW d \in Client, NEW m \in Nat, WriteTo(d, m), got' = got
      PROVE  \/ Sent(c)' = Sent(c)
             \/ d = c /\ Sent(c)' = Append(Sent(c), m)
  <2>1. CASE link[d] = "up"
    <3>1. CASE d = c
      BY <1>0, <1>5, <2>1, <3>1, FramesOnSending DEF WriteTo, Sent
    <3>2. CASE d # c
      BY <1>0, <1>5, <2>1, <3>2 DEF WriteTo, Sent
    <3> QED
      BY <3>1, <3>2
  <2>2. CASE link[d] # "up"
    BY <1>5, <2>2 DEF WriteTo, Sent
  <2> QED
    BY <2>1, <2>2
<1>6. FramesIn(Append(Sent(c), 0)) = FramesIn(Sent(c)) /\ Ascending(Append(Sent(c), 0))
  BY <1>0, <1>2, FramesOfAppend
<1>7. ASSUME NEW d \in Client, Distribute(d)
      PROVE  Sent(c)' = Sent(c) \/ (Distribute(c) /\ Sent(c)' = Append(Sent(c), cur))
  BY <1>5, <1>7, NaturalQueues DEF Distribute
<1>8. ASSUME NEW d \in Client, BrowserReads(d)
      PROVE  FramesIn(Sent(c))' = FramesIn(Sent(c)) /\ Ascending(Sent(c))'
  <2>1. CASE d # c
    BY <1>0, <1>2, <1>8, <2>1 DEF BrowserReads, Sent
  <2>2. CASE d = c
    <3>1. toBrowser[c] # <<>> /\ toBrowser'[c] = Tail(toBrowser[c])
      BY <1>0, <1>8, <2>2 DEF BrowserReads
    <3>2. CASE Head(toBrowser[c]) = 0
      BY <1>0, <1>2, <1>8, <2>2, <3>1, <3>2, FramesOnReading DEF BrowserReads, Sent
    <3>3. CASE Head(toBrowser[c]) # 0
      <4>1. got'[c] = Append(got[c], Head(toBrowser[c]))
        BY <1>0, <1>8, <2>2, <3>3 DEF BrowserReads
      <4>2. Append(got[c], Head(toBrowser[c])) \o Tail(toBrowser[c])
                = got[c] \o toBrowser[c]
        BY <1>0, <3>1, FramesOnReading
      <4>3. Sent(c)' = Sent(c)
        BY <3>1, <4>1, <4>2 DEF Sent
      <4> QED
        BY <1>2, <4>3
    <3> QED
      BY <3>2, <3>3
  <2> QED
    BY <2>1, <2>2
<1>9. \/ UNCHANGED <<got, toBrowser>>
      \/ \E d \in Client : Distribute(d) \/ BrowserReads(d) \/ Lose(d)
                           \/ (WriteTo(d, 0) /\ got' = got)
  BY DEF Next, vars, LoopStep, ReaderStep, HandlerStep, Output, Forward, LoopReads,
         LoopReplies, TakeFrame, TakeAnswer, SyncStep, Ask, SyncGoesOn, SyncTells,
         Attach, Hello, FirstStatus, Tell,
         Pass, Leave, Close, ReadErr, Join, Message, Request, Drop
<1>10. ASSUME NEW d \in Client, Lose(d) PROVE d # c
  BY <1>0, <1>10 DEF Lose
<1> QED
  BY <1>1, <1>2, <1>3, <1>4, <1>5, <1>6, <1>7, <1>8, <1>9, <1>10

LEMMA ExactStreamStep ==
    ASSUME IInv, [Next]_vars
    PROVE  ExactStream'
<1> SUFFICES ASSUME NEW c \in clients', link'[c] = "up"
             PROVE  FramesIn(Sent(c))' = Due(c)' /\ Ascending(Sent(c))'
  BY DEF ExactStream
<1>0. /\ TypeOK /\ NextInLine /\ NewIsUnknown /\ ExactStream /\ RestIsDue /\ StartsInTime
      /\ cur \in 0..Len(out) /\ Len(out) \in Nat /\ out \in Seq(Session)
      /\ clients \subseteq Client /\ rest \subseteq Client /\ first \in [Client -> Nat]
  BY NaturalQueues DEF IInv, TypeOK, Types
<1>1. CASE c \notin clients
  <2>1. pc[c] = "new" /\ c \in Client /\ first'[c] = cur + 1 /\ cur' = cur
    BY <1>0, <1>1, ServedStep
  <2>2. Join(c)
    BY <1>0, <1>1, <2>1 DEF Next, vars, agentVars, readerVars, clientVars, syncVars,
       LoopStep,
       ReaderStep, HandlerStep, Output, Forward, LoopReads, LoopReplies, TakeFrame,
       TakeAnswer, Distribute, SyncStep, Ask, SyncGoesOn, SyncTells, Attach, Hello,
       FirstStatus, Tell, Pass, Leave,
       Close, ReadErr, Join, Message, Request, BrowserReads, Drop
  <2>3. toBrowser'[c] = <<>> /\ got'[c] = <<>>
    BY <1>0, <2>1, <2>2 DEF Join, NewIsUnknown, Unknown
  <2>4. Sent(c)' = <<>>
    BY <2>3 DEF Sent
  <2>5. Due(c)' = {}
    BY <1>0, <2>1 DEF Due
  <2> QED
    BY <2>4, <2>5 DEF FramesIn, Ascending
<1>2. CASE c \in clients
  <2>1. link[c] = "up"
        /\ \/ FramesIn(Sent(c))' = FramesIn(Sent(c)) /\ Ascending(Sent(c))'
           \/ Distribute(c) /\ Sent(c)' = Append(Sent(c), cur)
    BY <1>0, <1>2, SentStep
  <2>2. FramesIn(Sent(c)) = Due(c) /\ Ascending(Sent(c))
    BY <1>0, <1>2, <2>1 DEF ExactStream
  <2>3. CASE Distribute(c)
    <3>0. Sent(c)' = Append(Sent(c), cur)
      <4>1. /\ got'[c] = got[c] /\ toBrowser'[c] = Append(toBrowser[c], cur)
            /\ got[c] \in Seq(Nat) /\ toBrowser[c] \in Seq(Nat) /\ cur \in Nat
        BY <1>0, <2>1, <2>3, NaturalQueues DEF Distribute, WriteTo, TypeOK, Types
      <4> QED
        BY <4>1, FramesOnSending DEF Sent
    <3>1. /\ c \in rest /\ rest' = rest \ {c} /\ cur' = cur /\ first' = first
          /\ out' = out
      BY <2>3 DEF Distribute, agentVars, clientVars
    <3>2. cur > 0 /\ first[c] \in 1..cur /\ Wants(c, out[cur])
      BY <1>0, <3>1 DEF RestIsDue
    <3>3. Due(c)' = Due(c) \union {cur}
      BY <1>0, <3>1, <3>2 DEF Due, Wants
    <3>4. \A m \in Due(c) : m < cur
      BY <1>0, <3>1, <3>2 DEF Due
    <3>5. Sent(c) \in Seq(Nat) /\ cur \in Nat /\ cur # 0
      BY <1>0, <1>2, <3>2, NaturalQueues
    <3>6. /\ FramesIn(Append(Sent(c), cur)) = Due(c) \union {cur}
          /\ Ascending(Append(Sent(c), cur))
      BY <2>2, <3>4, <3>5, FramesOfAppend
    <3> QED
      BY <3>0, <3>3, <3>6
  <2>4. CASE ~Distribute(c)
    <3>1. Due(c)' = Due(c)
      <4>1. CASE /\ UNCHANGED <<cur, rest, clients, first>>
                 /\ \E s \in Session : out' = Append(out, s)
        BY <1>0, <1>2, <4>1 DEF Due, Wants, StartsInTime
      <4>2. CASE /\ UNCHANGED <<clients, first, out>> /\ cur' = cur + 1 /\ cur < Len(out)
                 /\ rest = {} /\ rest' = {d \in clients : Wants(d, out[cur'])}
        BY <1>0, <1>2, <4>2 DEF Due, Wants, StartsInTime
      <4>3. CASE /\ UNCHANGED <<cur, clients, first, out>>
                 /\ \E d \in rest : Distribute(d) /\ rest' = rest \ {d}
        BY <1>2, <2>4, <4>3 DEF Due, Wants
      <4>4. CASE UNCHANGED <<cur, rest, out>> /\ first'[c] = first[c]
        BY <4>4 DEF Due, Wants
      <4>5. ASSUME NEW d \in Client, pc[d] = "new", first' = [first EXCEPT ![d] = cur + 1]
            PROVE  first'[c] = first[c]
        BY <1>0, <1>2, <4>5 DEF NewIsUnknown, Unknown
      <4> QED
        BY <1>0, <4>1, <4>2, <4>3, <4>4, <4>5, ServedStep
    <3> QED
      BY <2>1, <2>2, <2>4, <3>1
  <2> QED
    BY <2>3, <2>4, <2>1
<1> QED
  BY <1>1, <1>2

LEMMA InvInit == Init => IInv
<1> SUFFICES ASSUME Init PROVE IInv
  OBVIOUS
<1>1. NextInLine
  BY DEF Init, NextInLine, FramesIn, Ascending
<1>2. RestIsDue /\ StartsInTime /\ ExactStream
  BY DEF Init, RestIsDue, StartsInTime, ExactStream
<1>3. NewIsUnknown
  BY DEF Init, NewIsUnknown, Unknown
<1> QED
  BY <1>1, <1>2, <1>3, TypeInit DEF IInv

LEMMA InvStep == IInv /\ [Next]_vars => IInv'
  BY TypeStep, NextInLineStep, RestIsDueStep, NewIsUnknownStep, StartsInTimeStep,
     ExactStreamStep DEF IInv

\* Each client that is connected has been sent exactly the frames it is to have
\* of those written since it was added, each once and in the order of writing,
\* while clients come and go, and connections are full or lost.
THEOREM AlwaysExactStream == Spec => []ExactStream
<1>1. IInv => ExactStream
  BY DEF IInv
<1> QED
  BY <1>1, InvInit, InvStep, PTL DEF Spec
=============================================================================
