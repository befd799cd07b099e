------------------------- MODULE SessionSync_proofs -------------------------
(***************************************************************************)
(* Proofs about the list of sessions: for any number of calls, clients and *)
(* connections, and any bound on the changes of the tmux sessions.         *)
(***************************************************************************)
EXTENDS SessionSync, TLAPS

USE NoConnAssumption

LEMMA InvInit == Init => IInv
<1> SUFFICES ASSUME Init PROVE IInv
  OBVIOUS
<1>1. TypeOK
  BY DEF Init, TypeOK, Lists, Answers
<1>2. PendingIsWaiting /\ AnswerWasTrue /\ WindowOpen
  BY DEF Init, PendingIsWaiting, AnswerWasTrue, WindowOpen
<1>3. RequestsAsked /\ AnswersGood /\ SlotsGood
  BY DEF Init, RequestsAsked, AnswersGood, GoodOnes, SlotsGood
<1> QED
  BY <1>1, <1>2, <1>3 DEF IInv

-----------------------------------------------------------------------------
(* Type correctness, one lemma for each group of actions *)

LEMMA AgentTypes ==
    ASSUME TypeOK, NEW a \in AgentConn,
           \/ AgentConnect(a) \/ Break(a) \/ HubNotices(a)
           \/ AgentStep(a) \/ ReaderStep(a)
    PROVE  TypeOK'
<1> USE DEF TypeOK
<1>1. CASE AgentConnect(a)
  BY <1>1 DEF AgentConnect, callState, wires, tmux, ghosts
<1>2. CASE Break(a)
  BY <1>2 DEF Break, callState, tmux, ghosts
<1>3. CASE HubNotices(a)
  BY <1>3 DEF HubNotices, callState, tmux, ghosts
<1>4. CASE AgentLists(a)
  <2>1. PICK fails \in BOOLEAN :
           /\ listing' = [listing EXCEPT
                 ![a] = <<[call |-> Head(toAgent[a]), list |-> Listed(fails)]>>]
           /\ failed' \in {failed, failed \union {Head(toAgent[a])}}
    BY <1>4 DEF AgentLists
  <2>2. [call |-> Head(toAgent[a]), list |-> Listed(fails)] \in Answers
    BY <1>4 DEF AgentLists, Answers, Listed, Lists
  <2>3. listing' \in [AgentConn -> Seq(Answers)]
    BY <2>1, <2>2
  <2>4. toAgent' \in [AgentConn -> Seq(Call)]
    BY <1>4 DEF AgentLists
  <2>5. failed' \subseteq Call
    BY <1>4, <2>1 DEF AgentLists
  <2> QED
    BY <1>4, <2>3, <2>4, <2>5 DEF AgentLists, hubState, callState, tmux
<1>5. CASE AgentReplies(a)
  <2>1. Head(listing[a]) \in Answers
    BY <1>5 DEF AgentReplies
  <2> QED
    BY <1>5, <2>1 DEF AgentReplies, hubState, callState, tmux, ghosts
<1>6. CASE ReaderTakes(a)
  <2>1. Head(toHub[a]) \in Answers /\ Tail(toHub[a]) \in Seq(Answers)
    BY <1>6 DEF ReaderTakes
  <2>2. FindPending(Head(toHub[a])) \in Seq(Answers)
    BY <2>1 DEF FindPending
  <2> QED
    BY <1>6, <2>1, <2>2 DEF ReaderTakes, hubState, callState, tmux, ghosts
<1>7. CASE ReaderDelivers(a)
  <2>0. Head(reader[a]) \in Answers
    BY <1>7 DEF ReaderDelivers
  <2>1. Head(reader[a]).call \in Call /\ Head(reader[a]).list \in Lists
    BY <2>0 DEF Answers
  <2>2. <<Head(reader[a]).list>> \in Seq(Lists)
    BY <2>1
  <2>3. slot' = [slot EXCEPT ![Head(reader[a]).call] =
                     IF @ = <<>> THEN <<Head(reader[a]).list>> ELSE @]
    BY <1>7 DEF ReaderDelivers
  <2>4. slot' \in [Call -> Seq(Lists)]
    BY <2>1, <2>2, <2>3
  <2> QED
    BY <1>7, <2>4 DEF ReaderDelivers, hubState, tmux, ghosts
<1> QED
  BY <1>1, <1>2, <1>3, <1>4, <1>5, <1>6, <1>7 DEF AgentStep, ReaderStep

LEMMA CallTypes ==
    ASSUME TypeOK, NEW r \in Call, HttpRequest(r) \/ CallStep(r)
    PROVE  TypeOK'
<1> USE DEF TypeOK, Goto
<1>0. http \ {r} \subseteq Call /\ [window EXCEPT ![r] = {}] \in [Call -> SUBSET Lists]
  OBVIOUS
<1>1. CASE HttpRequest(r)
  BY <1>1 DEF HttpRequest, Begin, hubState, wires, tmux, ghosts
<1>2. CASE Ask(r)
  <2>1. CASE agent = NoConn
    BY <1>0, <1>2, <2>1 DEF Ask, Ends, hubState, wires, tmux
  <2>2. CASE agent # NoConn
    <3>1. agent \in AgentConn /\ {live} \in SUBSET Lists
      BY <2>2
    <3>2. /\ window' \in [Call -> SUBSET Lists]
          /\ target' \in [Call -> AgentConn \union {NoConn}]
      <4>1. /\ window' = [window EXCEPT ![r] = {live}]
            /\ target' = [target EXCEPT ![r] = agent]
        BY <1>2, <2>2 DEF Ask
      <4> QED
        BY <3>1, <4>1
    <3>3. pending' \subseteq Call /\ pc' = [pc EXCEPT ![r] = "write"] /\ http' = http
      BY <1>2, <2>2 DEF Ask
    <3>4. UNCHANGED <<hubState, slot, result, snap, wires, tmux, shown, alone, failed,
                      reached>>
      BY <1>2 DEF Ask
    <3> QED
      BY <3>2, <3>3, <3>4 DEF hubState, wires, tmux
  <2> QED
    BY <2>1, <2>2
<1>3. CASE Write(r)
  <2>1. toAgent' \in [AgentConn -> Seq(Call)]
    <3>1. ASSUME NEW a \in AgentConn PROVE Append(toAgent[a], r) \in Seq(Call)
      OBVIOUS
    <3>2. CASE target[r] \in AgentConn
      BY <1>3, <3>1, <3>2 DEF Write
    <3>3. CASE target[r] \notin AgentConn
      <4>1. [toAgent EXCEPT ![target[r]] = Append(@, r)] = toAgent
        BY <3>3
      <4> QED
        BY <1>3, <4>1 DEF Write
    <3> QED
      BY <3>2, <3>3
  <2> QED
    BY <1>3, <2>1 DEF Write, hubState, tmux, ghosts
<1>4. CASE Answer(r)
  BY <1>4 DEF Answer, Forget, hubState, wires, tmux, ghosts
<1>5. CASE Timeout(r)
  BY <1>0, <1>5 DEF Timeout, Ends, Forget, hubState, wires, tmux
<1>6. CASE Reply(r)
  BY <1>0, <1>6 DEF Reply, Ends, hubState, wires, tmux
<1>7. CASE Snapshot(r)
  BY <1>0, <1>7 DEF Snapshot, TellOrEnd, Ends, hubState, wires, tmux
<1>8. ASSUME NEW c \in Client, Tell(r, c) PROVE TypeOK'
  <2>1. /\ snap' \in [Call -> SUBSET Client] /\ http' \subseteq Call
        /\ window' \in [Call -> SUBSET Lists]
        /\ pc' \in [Call -> {"idle", "lookup", "write", "wait", "reply", "snapshot",
                            "tell", "done"}]
    BY <1>0, <1>8 DEF Tell, TellOrEnd, Ends
  <2>2. shown' \in [Client -> Lists] /\ reached' \in [Call -> SUBSET Client]
    BY <1>8 DEF Tell
  <2> QED
    BY <1>8, <2>1, <2>2 DEF Tell, hubState, wires, tmux
<1> QED
  BY <1>1, <1>2, <1>3, <1>4, <1>5, <1>6, <1>7, <1>8 DEF CallStep

LEMMA TypeStep ==
    ASSUME TypeOK, [Next]_vars
    PROVE  TypeOK'
<1>1. CASE UNCHANGED vars
  BY <1>1 DEF TypeOK, vars, hubState, callState, wires, tmux, ghosts
<1>2. ASSUME NEW s \in Session, SessionsChange(s) PROVE TypeOK'
  BY <1>2 DEF TypeOK, SessionsChange, Lists, hubState, callState, wires
<1>3. ASSUME NEW c \in Client, Leave(c) PROVE TypeOK'
  BY <1>3 DEF TypeOK, Leave, callState, wires, tmux, ghosts
<1>4. ASSUME NEW c \in Client, NEW r \in Call, Join(c, r) \/ Resync(c, r) PROVE TypeOK'
  <2>1. alone' \subseteq Call
    BY <1>4 DEF TypeOK, Join, Resync, BeginSync
  <2>2. pc' = [pc EXCEPT ![r] = "lookup"]
    BY <1>4 DEF Join, Resync, BeginSync, Begin, Goto
  <2>3. CASE Join(c, r)
    BY <2>1, <2>2, <2>3 DEF TypeOK, Join, wires, tmux
  <2>4. CASE Resync(c, r)
    BY <2>1, <2>2, <2>4 DEF TypeOK, Resync, hubState, wires, tmux
  <2> QED
    BY <1>4, <2>3, <2>4
<1> QED
  BY <1>1, <1>2, <1>3, <1>4, AgentTypes, CallTypes DEF Next

-----------------------------------------------------------------------------
(* The steps, by what they do to the calls *)

\* A call begins, asks, stops waiting or goes on after that, tmux changes, or
\* nothing of that happens.
LEMMA CallEffect ==
    ASSUME TypeOK, [Next]_vars
    PROVE  \/ \E r \in Call : /\ pc[r] = "idle" /\ pc' = [pc EXCEPT ![r] = "lookup"]
                              /\ UNCHANGED <<pending, window, live, result>>
           \/ \E r \in Call : Ask(r)
           \/ \E r \in Call : Write(r)
           \/ \E r \in Call : Answer(r) \/ Timeout(r)
           \/ \E r \in Call : /\ pc[r] \in {"reply", "snapshot", "tell"}
                              /\ \/ /\ pc' = [pc EXCEPT ![r] = "tell"] /\ pc[r] # "reply"
                                    /\ window' = window
                                 \/ /\ pc' = [pc EXCEPT ![r] = "done"]
                                    /\ window' = [window EXCEPT ![r] = {}]
                              /\ UNCHANGED <<pending, live, result>>
           \/ \E s \in Session : SessionsChange(s)
           \/ UNCHANGED <<pc, pending, window, live, result>>
<1>1. CASE UNCHANGED vars
  BY <1>1 DEF vars, callState, tmux, ghosts
<1>2. ASSUME NEW a \in AgentConn,
             \/ AgentConnect(a) \/ Break(a) \/ HubNotices(a) \/ AgentStep(a) \/ ReaderStep(a)
      PROVE  UNCHANGED <<pc, pending, window, live, result>>
  BY <1>2 DEF AgentConnect, Break, HubNotices, AgentStep, AgentLists, AgentReplies,
              ReaderStep, ReaderTakes, ReaderDelivers, callState, tmux, ghosts
<1>3. ASSUME NEW c \in Client, Leave(c)
      PROVE  UNCHANGED <<pc, pending, window, live, result>>
  BY <1>3 DEF Leave, callState, tmux, ghosts
<1>4. ASSUME NEW c \in Client, NEW r \in Call, Join(c, r) \/ Resync(c, r)
      PROVE  /\ pc[r] = "idle" /\ pc' = [pc EXCEPT ![r] = "lookup"]
             /\ UNCHANGED <<pending, window, live, result>>
  BY <1>4 DEF Join, Resync, BeginSync, Begin, Goto, tmux
<1>5. ASSUME NEW r \in Call, HttpRequest(r)
      PROVE  /\ pc[r] = "idle" /\ pc' = [pc EXCEPT ![r] = "lookup"]
             /\ UNCHANGED <<pending, window, live, result>>
  BY <1>5 DEF HttpRequest, Begin, Goto, tmux, ghosts
<1>6. ASSUME NEW r \in Call, Reply(r) \/ Snapshot(r) \/ \E c \in Client : Tell(r, c)
      PROVE  /\ pc[r] \in {"reply", "snapshot", "tell"}
             /\ \/ /\ pc' = [pc EXCEPT ![r] = "tell"] /\ pc[r] # "reply"
                   /\ window' = window
                \/ /\ pc' = [pc EXCEPT ![r] = "done"]
                   /\ window' = [window EXCEPT ![r] = {}]
             /\ UNCHANGED <<pending, live, result>>
  BY <1>6 DEF Reply, Snapshot, Tell, TellOrEnd, Ends, Goto, tmux
<1> QED
  BY <1>1, <1>2, <1>3, <1>4, <1>5, <1>6 DEF Next, CallStep

LEMMA PendingStep ==
    ASSUME IInv, [Next]_vars
    PROVE  PendingIsWaiting'
<1> USE DEF PendingIsWaiting
<1>0. TypeOK /\ PendingIsWaiting
  BY DEF IInv
<1>1. ASSUME NEW r \in Call, Ask(r) PROVE PendingIsWaiting'
  BY <1>0, <1>1 DEF Ask, Ends, Goto, TypeOK
<1>2. ASSUME NEW r \in Call, Answer(r) PROVE PendingIsWaiting'
  BY <1>0, <1>2 DEF Answer, Forget, Goto, TypeOK
<1>3. ASSUME NEW r \in Call, Timeout(r) PROVE PendingIsWaiting'
  BY <1>0, <1>3 DEF Timeout, TimerFires, Ends, Forget, Goto, TypeOK
<1>4. ASSUME NEW s \in Session, SessionsChange(s) PROVE PendingIsWaiting'
  BY <1>0, <1>4 DEF SessionsChange, callState
<1>5. ASSUME NEW r \in Call, Write(r) PROVE PendingIsWaiting'
  BY <1>0, <1>5 DEF Write, Goto, TypeOK
<1> QED
  BY <1>0, <1>1, <1>2, <1>3, <1>4, <1>5, CallEffect DEF TypeOK

LEMMA WindowStep ==
    ASSUME IInv, [Next]_vars
    PROVE  WindowOpen'
<1> USE DEF WindowOpen, PendingIsWaiting
<1>0. TypeOK /\ PendingIsWaiting /\ WindowOpen
  BY DEF IInv
<1>1. ASSUME NEW r \in Call, Ask(r) PROVE WindowOpen'
  <2>1. CASE agent = NoConn
    BY <1>0, <1>1, <2>1 DEF Ask, Ends, tmux, TypeOK
  <2>2. CASE agent # NoConn
    BY <1>0, <1>1, <2>2 DEF Ask, tmux, TypeOK
  <2> QED
    BY <2>1, <2>2
<1>2. ASSUME NEW r \in Call, Answer(r) \/ Timeout(r) \/ Write(r) PROVE WindowOpen'
  BY <1>0, <1>2 DEF Answer, Timeout, Write, Ends, Forget, tmux, ghosts, TypeOK
<1>3. ASSUME NEW s \in Session, SessionsChange(s) PROVE WindowOpen'
  BY <1>0, <1>3 DEF SessionsChange, callState, TypeOK
<1>4. ASSUME NEW r \in Call, pc[r] \in {"reply", "snapshot", "tell"},
             window' \in {window, [window EXCEPT ![r] = {}]},
             UNCHANGED <<pending, live>>
      PROVE  WindowOpen'
  BY <1>0, <1>4 DEF TypeOK
<1> QED
  BY <1>0, <1>1, <1>2, <1>3, <1>4, CallEffect

\* A call that has asked has, and what is a good answer to it stays one.
LEMMA GoodStays ==
    ASSUME IInv, [Next]_vars, NEW r \in Call, NEW l \in Lists,
           pc[r] \notin {"idle", "lookup", "write"},
           r \in pending => l \in window[r] \union {{}}
    PROVE  /\ pc'[r] \notin {"idle", "lookup", "write"}
           /\ r \in pending' => l \in window'[r] \union {{}}
<1>0. TypeOK /\ PendingIsWaiting
  BY DEF IInv
<1>1. ASSUME NEW o \in Call, Ask(o)
      PROVE  pc'[r] = pc[r] /\ window'[r] = window[r] /\ (r \in pending' => r \in pending)
  <2>1. o # r
    BY <1>1 DEF Ask
  <2> QED
    BY <1>0, <1>1, <2>1 DEF Ask, Ends, Goto, TypeOK
<1>2. ASSUME NEW o \in Call, Answer(o) \/ Timeout(o) \/ Write(o)
      PROVE  /\ pc'[r] \notin {"idle", "lookup", "write"}
             /\ r \in pending' => r \in pending /\ window'[r] = window[r]
  BY <1>0, <1>2 DEF Answer, Timeout, Write, Ends, Forget, Goto, ghosts, TypeOK
<1>3. ASSUME NEW s \in Session, SessionsChange(s)
      PROVE  pc'[r] = pc[r] /\ pending' = pending /\ window[r] \subseteq window'[r]
  BY <1>0, <1>3 DEF SessionsChange, callState, TypeOK
<1>4. ASSUME NEW o \in Call, pc[o] \in {"reply", "snapshot", "tell"},
             pc' \in {[pc EXCEPT ![o] = "tell"], [pc EXCEPT ![o] = "done"]},
             window' \in {window, [window EXCEPT ![o] = {}]}, pending' = pending
      PROVE  /\ pc'[r] \notin {"idle", "lookup", "write"}
             /\ r \in pending => window'[r] = window[r]
  BY <1>0, <1>4 DEF TypeOK, PendingIsWaiting
<1> QED
  BY <1>0, <1>1, <1>2, <1>3, <1>4, CallEffect DEF TypeOK

-----------------------------------------------------------------------------
(* The messages *)

\* Where a request in a queue comes from: it was there, or its call asks now.
LEMMA RequestEffect ==
    ASSUME TypeOK, [Next]_vars, NEW a \in AgentConn, NEW k \in 1..Len(toAgent'[a])
    PROVE  \/ \E j \in 1..Len(toAgent[a]) : toAgent'[a][k] = toAgent[a][j]
           \/ Write(toAgent'[a][k]) /\ toAgent'[a][k] \in Call
<1> DEFINE Old == \E j \in 1..Len(toAgent[a]) : toAgent'[a][k] = toAgent[a][j]
<1>0. toAgent \in [AgentConn -> Seq(Call)] /\ toAgent[a] \in Seq(Call)
  BY DEF TypeOK
<1>1. CASE toAgent' = toAgent
  BY <1>1
<1>2. ASSUME NEW b \in AgentConn, Break(b) PROVE Old
  BY <1>0, <1>2 DEF Break
<1>3. ASSUME NEW b \in AgentConn, AgentLists(b) PROVE Old
  <2>1. CASE a = b
    <3>1. toAgent[a] # <<>> /\ toAgent'[a] = Tail(toAgent[a])
      BY <1>0, <1>3, <2>1 DEF AgentLists
    <3>2. k + 1 \in 1..Len(toAgent[a]) /\ toAgent'[a][k] = toAgent[a][k + 1]
      BY <1>0, <3>1
    <3> QED
      BY <3>2
  <2>2. CASE a # b
    BY <1>0, <1>3, <2>2 DEF AgentLists
  <2> QED
    BY <2>1, <2>2
<1>4. ASSUME NEW r \in Call, Write(r) PROVE Old \/ (toAgent'[a][k] = r)
  <2>1. CASE toAgent'[a] = Append(toAgent[a], r)
    BY <1>0, <2>1
  <2>2. CASE toAgent'[a] = toAgent[a]
    BY <2>2
  <2>3. \/ toAgent' = toAgent
        \/ toAgent' = [toAgent EXCEPT ![target[r]] = Append(@, r)]
    BY <1>4 DEF Write
  <2> QED
    BY <1>0, <2>1, <2>2, <2>3
<1>5. \/ toAgent' = toAgent
      \/ \E b \in AgentConn : Break(b) \/ AgentLists(b)
      \/ \E r \in Call : Write(r)
  BY DEF Next, vars, wires, AgentConnect, HubNotices, AgentStep, AgentReplies, ReaderStep,
         ReaderTakes, ReaderDelivers, SessionsChange, Leave, Join, Resync, HttpRequest,
         CallStep, Ask, Answer, Timeout, Reply, Snapshot, Tell
<1> QED
  BY <1>1, <1>2, <1>3, <1>4, <1>5

LEMMA RequestsStep ==
    ASSUME IInv, [Next]_vars
    PROVE  RequestsAsked'
<1> SUFFICES ASSUME NEW a \in AgentConn, NEW k \in 1..Len(toAgent'[a])
             PROVE  pc'[toAgent'[a][k]] \notin {"idle", "lookup", "write"}
  BY DEF RequestsAsked, Asked
<1>0. TypeOK
  BY DEF IInv
<1>1. ASSUME NEW j \in 1..Len(toAgent[a])
      PROVE  pc'[toAgent[a][j]] \notin {"idle", "lookup", "write"}
  <2>1. toAgent[a][j] \in Call /\ pc[toAgent[a][j]] \notin {"idle", "lookup", "write"}
    BY <1>0 DEF IInv, RequestsAsked, Asked, TypeOK
  <2>2. {} \in Lists /\ {} \in window[toAgent[a][j]] \union {{}}
    BY DEF Lists
  <2> QED
    BY <2>1, <2>2, GoodStays
<1>2. ASSUME NEW r \in Call, Write(r) PROVE pc'[r] \notin {"idle", "lookup", "write"}
  BY <1>0, <1>2 DEF Write, Goto, TypeOK
<1> QED
  BY <1>0, <1>1, <1>2, RequestEffect

\* A good answer to a call that has asked.
Fine(m) == m \in Answers /\ Asked(m.call) /\ Good(m)

LEMMA FineStays ==
    ASSUME IInv, [Next]_vars, NEW m, Fine(m)
    PROVE  /\ pc'[m.call] \notin {"idle", "lookup", "write"}
           /\ m.call \in pending' => m.list \in window'[m.call] \union {{}}
<1>1. m.call \in Call /\ m.list \in Lists
  BY DEF Fine, Answers
<1> QED
  BY <1>1, GoodStays DEF Fine, Asked, Good

\* Where an answer in a queue comes from: it was on its way already, or the
\* agent asks tmux now.
ListedNow(m) ==
    \E b \in AgentConn :
        /\ AgentLists(b) /\ toAgent[b] # <<>> /\ m.call = Head(toAgent[b])
        /\ m.list = live \/ (m.list = {} /\ m.call \in failed')
        /\ live' = live
From(m) == m \in Answers /\ (OnWay(m) \/ ListedNow(m))

LEMMA AnswerEffect ==
    ASSUME TypeOK, [Next]_vars, NEW a \in AgentConn
    PROVE  /\ \A k \in 1..Len(listing'[a]) : From(listing'[a][k])
           /\ \A k \in 1..Len(toHub'[a])   : From(toHub'[a][k])
           /\ \A k \in 1..Len(reader'[a])  : From(reader'[a][k])
<1> DEFINE AllFrom(q) == \A k \in 1..Len(q) : From(q[k])
<1>t. TypeOK
  OBVIOUS
<1>0. /\ listing[a] \in Seq(Answers) /\ toHub[a] \in Seq(Answers) /\ reader[a] \in Seq(Answers)
      /\ AllFrom(listing[a]) /\ AllFrom(toHub[a]) /\ AllFrom(reader[a])
  <2>1. /\ listing[a] \in Seq(Answers) /\ toHub[a] \in Seq(Answers)
        /\ reader[a] \in Seq(Answers)
    BY DEF TypeOK
  <2>2. AllFrom(listing[a])
    BY <2>1 DEF From, OnWay
  <2>3. AllFrom(toHub[a])
    BY <2>1 DEF From, OnWay
  <2>4. AllFrom(reader[a])
    BY <2>1 DEF From, OnWay
  <2> QED
    BY <2>1, <2>2, <2>3, <2>4
<1>e. AllFrom(<<>>)
  OBVIOUS
<1>1. ASSUME NEW b \in AgentConn, AgentLists(b) PROVE AllFrom(listing'[a])
  <2>1. CASE a = b
    <3>1. PICK fails \in BOOLEAN :
             /\ listing' = [listing EXCEPT
                   ![a] = <<[call |-> Head(toAgent[a]), list |-> Listed(fails)]>>]
             /\ failed' = IF Listed(fails) = live THEN failed
                         ELSE failed \union {Head(toAgent[a])}
      BY <1>1, <2>1 DEF AgentLists
    <3> DEFINE m == [call |-> Head(toAgent[a]), list |-> Listed(fails)]
    <3>2. listing'[a] = <<m>>
      BY <1>t, <3>1 DEF TypeOK
    <3>3. toAgent[a] # <<>> /\ Head(toAgent[a]) \in Call /\ live' = live
      BY <1>t, <1>1, <2>1 DEF AgentLists, tmux, TypeOK
    <3>4. Listed(fails) \in {live, {}} /\ Listed(fails) \in Lists
      BY <1>t DEF Listed, Lists, TypeOK
    <3>5. m \in Answers /\ ListedNow(m)
      BY <1>1, <2>1, <3>1, <3>3, <3>4 DEF Answers, ListedNow
    <3> QED
      BY <3>2, <3>5 DEF From
  <2>2. CASE a # b
    BY <1>t, <1>0, <1>1, <2>2 DEF AgentLists, TypeOK
  <2> QED
    BY <2>1, <2>2
<1>2. ASSUME NEW b \in AgentConn, AgentReplies(b)
      PROVE  AllFrom(listing'[a]) /\ AllFrom(toHub'[a])
  <2>1. CASE a = b
    <3>1. listing'[a] = <<>> /\ toHub'[a] = Append(toHub[a], Head(listing[a]))
      BY <1>t, <1>2, <2>1 DEF AgentReplies, TypeOK
    <3>2. From(Head(listing[a])) /\ Head(listing[a]) \in Answers
      BY <1>0, <1>2, <2>1 DEF AgentReplies
    <3>3. listing'[a] = <<>> => AllFrom(listing'[a])
      BY <1>e
    <3>4. ASSUME NEW k \in 1..Len(toHub'[a]) PROVE From(toHub'[a][k])
      <4>1. Len(toHub'[a]) = Len(toHub[a]) + 1
        BY <1>0, <3>1, <3>2
      <4>2. CASE k \in 1..Len(toHub[a])
        <5>1. toHub'[a][k] = toHub[a][k]
          BY <1>0, <3>1, <3>2, <4>2
        <5> QED
          BY <1>0, <4>2, <5>1
      <4>3. CASE k = Len(toHub[a]) + 1
        <5>1. toHub'[a][k] = Head(listing[a])
          BY <1>0, <3>1, <3>2, <4>3
        <5> QED
          BY <3>2, <5>1
      <4>4. Len(toHub[a]) \in Nat
        BY <1>0
      <4> QED
        BY <4>1, <4>2, <4>3, <4>4
    <3> QED
      BY <3>1, <3>3, <3>4
  <2>2. CASE a # b
    BY <1>t, <1>0, <1>2, <2>2 DEF AgentReplies, TypeOK
  <2> QED
    BY <2>1, <2>2
<1>3. ASSUME NEW b \in AgentConn, ReaderTakes(b)
      PROVE  AllFrom(toHub'[a]) /\ AllFrom(reader'[a])
  <2>1. CASE a = b
    <3>1. /\ toHub[a] # <<>> /\ toHub'[a] = Tail(toHub[a])
          /\ reader'[a] \in {<<>>, <<Head(toHub[a])>>}
      BY <1>t, <1>3, <2>1 DEF ReaderTakes, FindPending, TypeOK
    <3>2. From(Head(toHub[a]))
      BY <1>0, <3>1
    <3>3. ASSUME NEW k \in 1..Len(Tail(toHub[a])) PROVE From(Tail(toHub[a])[k])
      <4>1. toHub[a] \in Seq(Answers) /\ AllFrom(toHub[a])
        BY <1>0
      <4>2. k + 1 \in 1..Len(toHub[a]) /\ Tail(toHub[a])[k] = toHub[a][k + 1]
        BY <3>1, <4>1
      <4> QED
        BY <4>1, <4>2
    <3> QED
      BY <3>1, <3>2, <3>3
  <2>2. CASE a # b
    BY <1>t, <1>0, <1>3, <2>2 DEF ReaderTakes, TypeOK
  <2> QED
    BY <2>1, <2>2
<1>4. ASSUME NEW b \in AgentConn, Break(b) PROVE AllFrom(listing'[a])
  BY <1>t, <1>0, <1>e, <1>4 DEF Break, TypeOK
<1>5. ASSUME NEW b \in AgentConn, HubNotices(b) PROVE AllFrom(toHub'[a])
  BY <1>t, <1>0, <1>e, <1>5 DEF HubNotices, TypeOK
<1>6. ASSUME NEW b \in AgentConn, ReaderDelivers(b) PROVE AllFrom(reader'[a])
  BY <1>t, <1>0, <1>e, <1>6 DEF ReaderDelivers, TypeOK
<1>7. /\ listing' = listing \/ \E b \in AgentConn : AgentLists(b) \/ AgentReplies(b) \/ Break(b)
      /\ toHub' = toHub \/ \E b \in AgentConn : AgentReplies(b) \/ ReaderTakes(b) \/ HubNotices(b)
      /\ reader' = reader \/ \E b \in AgentConn : ReaderTakes(b) \/ ReaderDelivers(b)
  BY DEF Next, vars, wires, AgentConnect, Break, HubNotices, AgentStep, AgentLists,
         AgentReplies, ReaderStep, ReaderTakes, ReaderDelivers, SessionsChange, Leave,
         Join, Resync, HttpRequest, CallStep, Ask, Write, Answer, Timeout, Reply, Snapshot,
         Tell
<1> HIDE DEF AllFrom
<1>8. AllFrom(listing'[a]) /\ AllFrom(toHub'[a]) /\ AllFrom(reader'[a])
  BY <1>0, <1>1, <1>2, <1>3, <1>4, <1>5, <1>6, <1>7
<1> QED
  BY <1>8 DEF AllFrom

LEMMA FromFine ==
    ASSUME IInv, NEW m, From(m)
    PROVE  Fine(m)
<1>t. TypeOK /\ m \in Answers
  BY DEF IInv, From
<1>1. CASE OnWay(m)
  BY <1>t, <1>1 DEF OnWay, Fine, IInv, AnswersGood, GoodOnes
<1>2. CASE ListedNow(m)
  <2>1. PICK b \in AgentConn : /\ toAgent[b] # <<>> /\ m.call = Head(toAgent[b])
                               /\ m.list \in {live, {}}
    BY <1>2 DEF ListedNow
  <2>2. toAgent[b] \in Seq(Call)
    BY <1>t DEF TypeOK
  <2>3. 1 \in 1..Len(toAgent[b]) /\ Head(toAgent[b]) = toAgent[b][1]
    BY <2>1, <2>2
  <2>4. Asked(m.call)
    BY <2>1, <2>3 DEF IInv, RequestsAsked
  <2>5. Good(m)
    BY <2>1 DEF Good, IInv, WindowOpen
  <2> QED
    BY <1>t, <2>4, <2>5 DEF Fine
<1> QED
  BY <1>1, <1>2 DEF From

LEMMA AnswersStep ==
    ASSUME IInv, [Next]_vars
    PROVE  AnswersGood'
<1> SUFFICES ASSUME NEW a \in AgentConn
      PROVE  /\ \A k \in 1..Len(listing'[a]) :
                   (Asked(listing[a][k].call) /\ Good(listing[a][k]))'
             /\ \A k \in 1..Len(toHub'[a]) :
                   (Asked(toHub[a][k].call) /\ Good(toHub[a][k]))'
             /\ \A k \in 1..Len(reader'[a]) :
                   (Asked(reader[a][k].call) /\ Good(reader[a][k]))'
  BY DEF AnswersGood, GoodOnes
<1> QED
  <2>1. TypeOK
    BY DEF IInv
  <2>2. ASSUME NEW m, From(m)
        PROVE  (Asked(m.call))' /\ (m.call \in pending' => m.list \in window'[m.call] \union {{}})
    BY <2>2, FromFine, FineStays DEF Asked
  <2> QED
    BY <2>1, <2>2, AnswerEffect DEF Asked, Good

LEMMA SlotsStep ==
    ASSUME IInv, [Next]_vars
    PROVE  SlotsGood'
<1> SUFFICES ASSUME NEW r \in Call, slot'[r] # <<>>
             PROVE  \/ Fine([call |-> r, list |-> Head(slot'[r])])
                    \/ slot'[r] = slot[r]
  <2>1. ASSUME NEW r \in Call, NEW l, Fine([call |-> r, list |-> l])
        PROVE  (Asked(r))' /\ (r \in pending' => l \in window'[r] \union {{}})
    BY <2>1, FineStays DEF Asked
  <2>2. ASSUME NEW r \in Call, slot[r] # <<>>
        PROVE  Fine([call |-> r, list |-> Head(slot[r])])
    BY <2>2 DEF IInv, TypeOK, SlotsGood, Fine, Answers
  <2> QED
    BY <2>1, <2>2 DEF SlotsGood, Good
<1>t. TypeOK
  BY DEF IInv
<1>1. ASSUME NEW a \in AgentConn, ReaderDelivers(a)
      PROVE  Fine([call |-> r, list |-> Head(slot'[r])]) \/ slot'[r] = slot[r]
  <2> DEFINE m == Head(reader[a])
  <2>1. m \in Answers /\ Asked(m.call) /\ Good(m)
    BY <1>t, <1>1 DEF ReaderDelivers, IInv, TypeOK, AnswersGood, GoodOnes
  <2>2. m.call \in Call /\ m.list \in Lists /\ m = [call |-> m.call, list |-> m.list]
    BY <2>1 DEF Answers
  <2>3. slot' = [slot EXCEPT ![m.call] = IF @ = <<>> THEN <<m.list>> ELSE @]
    BY <1>1 DEF ReaderDelivers
  <2>4. CASE r = m.call /\ slot[r] = <<>>
    <3>1. Head(slot'[r]) = m.list
      BY <1>t, <2>2, <2>3, <2>4 DEF TypeOK
    <3> QED
      BY <2>1, <2>2, <2>4, <3>1 DEF Fine
  <2>5. CASE ~(r = m.call /\ slot[r] = <<>>)
    BY <1>t, <2>2, <2>3, <2>5 DEF TypeOK
  <2> QED
    BY <2>4, <2>5
<1>2. ASSUME NEW o \in Call, Answer(o) PROVE slot'[r] = slot[r]
  BY <1>t, <1>2 DEF Answer, TypeOK
<1>3. \/ slot' = slot
      \/ \E a \in AgentConn : ReaderDelivers(a)
      \/ \E o \in Call : Answer(o)
  BY DEF Next, vars, callState, AgentConnect, Break, HubNotices, AgentStep, AgentLists,
         AgentReplies, ReaderStep, ReaderTakes, SessionsChange, Leave, Join, Resync,
         HttpRequest, CallStep, Ask, Write, Timeout, Reply, Snapshot, Tell
<1> QED
  BY <1>1, <1>2, <1>3

-----------------------------------------------------------------------------
(* The answers *)

LEMMA AnswerTrueStep ==
    ASSUME IInv, [Next]_vars
    PROVE  AnswerWasTrue'
<1> USE DEF AnswerWasTrue
<1>0. TypeOK /\ PendingIsWaiting /\ AnswerWasTrue
  BY DEF IInv
<1>1. ASSUME NEW r \in Call, Ask(r) PROVE AnswerWasTrue'
  BY <1>0, <1>1 DEF Ask, Ends, Goto, TypeOK
<1>2. ASSUME NEW r \in Call, Answer(r) PROVE AnswerWasTrue'
  <2>1. r \in pending /\ slot[r] # <<>>
    BY <1>0, <1>2 DEF Answer, PendingIsWaiting
  <2>2. Head(slot[r]) \in window[r] \union {{}}
    BY <2>1 DEF IInv, SlotsGood, Good
  <2>3. result' = [result EXCEPT ![r] = Head(slot[r])] /\ window' = window
    BY <1>2 DEF Answer, ghosts
  <2>4. \A o \in Call : o # r => pc'[o] = pc[o] /\ result'[o] = result[o]
    BY <1>0, <1>2 DEF Answer, Goto, TypeOK
  <2>5. result'[r] \in window'[r] \union {{}}
    BY <1>0, <2>2, <2>3 DEF TypeOK
  <2> QED
    BY <1>0, <2>3, <2>4, <2>5
<1>3. ASSUME NEW r \in Call, Timeout(r) PROVE AnswerWasTrue'
  BY <1>0, <1>3 DEF Timeout, Ends, Goto, TypeOK
<1>4. ASSUME NEW s \in Session, SessionsChange(s) PROVE AnswerWasTrue'
  BY <1>0, <1>4 DEF SessionsChange, callState, PendingIsWaiting, TypeOK
<1>5. ASSUME NEW r \in Call, Write(r) PROVE AnswerWasTrue'
  BY <1>0, <1>5 DEF Write, Goto, ghosts, TypeOK
<1>6. ASSUME NEW r \in Call, pc[r] \in {"reply", "snapshot", "tell"}, result' = result,
             \/ /\ pc' = [pc EXCEPT ![r] = "tell"] /\ pc[r] # "reply" /\ window' = window
             \/ /\ pc' = [pc EXCEPT ![r] = "done"] /\ window' = [window EXCEPT ![r] = {}]
      PROVE  AnswerWasTrue'
  BY <1>0, <1>6 DEF TypeOK
<1> QED
  BY <1>0, <1>1, <1>2, <1>3, <1>4, <1>5, <1>6, CallEffect DEF TypeOK

LEMMA InvStep == IInv /\ [Next]_vars => IInv'
<1> SUFFICES ASSUME IInv, [Next]_vars PROVE IInv'
  OBVIOUS
<1>1. TypeOK'
  BY TypeStep DEF IInv
<1> QED
  BY <1>1, PendingStep, WindowStep, RequestsStep, AnswersStep, SlotsStep, AnswerTrueStep
  DEF IInv

LEMMA Invariance == Spec => []IInv
<1> QED
  BY InvInit, InvStep, PTL DEF Spec

-----------------------------------------------------------------------------
(* There is room for every answer: of each call's request, and of the answer *)
(* to it, there is one copy at a time, so a channel is filled at most once   *)

Wire == {"toAgent", "listing", "toHub", "reader"}

Size(w, a) ==
    CASE w = "toAgent" -> Len(toAgent[a]) [] w = "listing" -> Len(listing[a])
      [] w = "toHub" -> Len(toHub[a])     [] w = "reader"  -> Len(reader[a])

CallAt(w, a, k) ==
    CASE w = "toAgent" -> toAgent[a][k]    [] w = "listing" -> listing[a][k].call
      [] w = "toHub" -> toHub[a][k].call   [] w = "reader"  -> reader[a][k].call

Held(w, a, k) == w \in Wire /\ a \in AgentConn /\ k \in 1..Size(w, a)

OneCopy ==
    \A w, v, a, b, k, l :
        Held(w, a, k) /\ Held(v, b, l) /\ CallAt(w, a, k) = CallAt(v, b, l) =>
            w = v /\ a = b /\ k = l

SlotAlone ==
    \A w, a, k : Held(w, a, k) => slot[CallAt(w, a, k)] = <<>>

Copies == OneCopy /\ SlotAlone

LEMMA CopiesInit == Init => Copies
<1> SUFFICES ASSUME Init, NEW w, NEW a, NEW k, Held(w, a, k) PROVE FALSE
  BY DEF Copies, OneCopy, SlotAlone
<1> QED
  BY DEF Init, Held, Wire, Size

\* What is on its way is about a call that has asked.
LEMMA HeldAsked ==
    ASSUME IInv, NEW w, NEW a, NEW k, Held(w, a, k)
    PROVE  CallAt(w, a, k) \in Call /\ Asked(CallAt(w, a, k))
<1>0. a \in AgentConn /\ w \in Wire /\ k \in 1..Size(w, a)
  BY DEF Held
<1>t. /\ toAgent[a] \in Seq(Call) /\ listing[a] \in Seq(Answers)
      /\ toHub[a] \in Seq(Answers) /\ reader[a] \in Seq(Answers)
  BY <1>0 DEF IInv, TypeOK
<1>a. \A m \in Answers : m.call \in Call
  BY DEF Answers
<1>1. CASE w = "toAgent"
  <2>1. \A i \in 1..Len(toAgent[a]) : Asked(toAgent[a][i])
    BY <1>0 DEF IInv, RequestsAsked
  <2> QED
    BY <1>0, <1>t, <1>1, <2>1 DEF Size, CallAt
<1>2. CASE w = "listing"
  <2>1. \A i \in 1..Len(listing[a]) : Asked(listing[a][i].call)
    BY <1>0 DEF IInv, AnswersGood, GoodOnes
  <2>2. k \in 1..Len(listing[a]) /\ CallAt(w, a, k) = listing[a][k].call
    BY <1>0, <1>2 DEF Size, CallAt
  <2> QED
    BY <1>t, <1>a, <2>1, <2>2
<1>3. CASE w = "toHub"
  <2>1. \A i \in 1..Len(toHub[a]) : Asked(toHub[a][i].call)
    BY <1>0 DEF IInv, AnswersGood, GoodOnes
  <2>2. k \in 1..Len(toHub[a]) /\ CallAt(w, a, k) = toHub[a][k].call
    BY <1>0, <1>3 DEF Size, CallAt
  <2> QED
    BY <1>t, <1>a, <2>1, <2>2
<1>4. CASE w = "reader"
  <2>1. \A i \in 1..Len(reader[a]) : Asked(reader[a][i].call)
    BY <1>0 DEF IInv, AnswersGood, GoodOnes
  <2>2. k \in 1..Len(reader[a]) /\ CallAt(w, a, k) = reader[a][k].call
    BY <1>0, <1>4 DEF Size, CallAt
  <2> QED
    BY <1>t, <1>a, <2>1, <2>2
<1> QED
  BY <1>0, <1>1, <1>2, <1>3, <1>4 DEF Wire

\* A step that leaves the channels alone, and only loses messages.
LEMMA LosingKeeps ==
    ASSUME Copies, slot' = slot,
           \A w, a, k : Held(w, a, k)' =>
               Held(w, a, k) /\ (CallAt(w, a, k))' = CallAt(w, a, k)
    PROVE  Copies'
<1>1. OneCopy'
  BY DEF Copies, OneCopy
<1>2. SlotAlone'
  BY DEF Copies, SlotAlone
<1> QED
  BY <1>1, <1>2 DEF Copies

LEMMA SameWiresKeep ==
    ASSUME Copies, slot' = slot, UNCHANGED wires
    PROVE  Copies'
<1>1. \A w, a, k : Held(w, a, k)' = Held(w, a, k)
                   /\ (CallAt(w, a, k))' = CallAt(w, a, k)
  BY DEF wires, Held, Size, CallAt
<1> QED
  BY <1>1, LosingKeeps

LEMMA LostKeeps ==
    ASSUME IInv, Copies, NEW a \in AgentConn, Break(a) \/ HubNotices(a)
    PROVE  Copies'
<1>t. TypeOK
  BY DEF IInv
<1>1. slot' = slot /\ reader' = reader
  BY DEF Break, HubNotices, callState
<1>2. ASSUME NEW b \in AgentConn, b # a
      PROVE  toAgent'[b] = toAgent[b] /\ listing'[b] = listing[b] /\ toHub'[b] = toHub[b]
  BY <1>t, <1>2 DEF Break, HubNotices, TypeOK
<1>3. /\ toAgent'[a] = <<>> \/ toAgent'[a] = toAgent[a]
      /\ listing'[a] = <<>> \/ listing'[a] = listing[a]
      /\ toHub'[a] = <<>> \/ toHub'[a] = toHub[a]
  BY <1>t DEF Break, HubNotices, TypeOK
<1>4. ASSUME NEW w, NEW b, NEW k, Held(w, b, k)'
      PROVE  Held(w, b, k) /\ (CallAt(w, b, k))' = CallAt(w, b, k)
  <2>1. CASE w = "toAgent"
    BY <1>2, <1>3, <1>4, <2>1 DEF Held, Size, CallAt
  <2>2. CASE w = "listing"
    BY <1>2, <1>3, <1>4, <2>2 DEF Held, Size, CallAt
  <2>3. CASE w = "toHub"
    BY <1>2, <1>3, <1>4, <2>3 DEF Held, Size, CallAt
  <2>4. CASE w = "reader"
    BY <1>1, <1>4, <2>4 DEF Held, Size, CallAt
  <2> QED
    BY <1>4, <2>1, <2>2, <2>3, <2>4 DEF Held, Wire
<1> QED
  BY <1>1, <1>4, LosingKeeps

LEMMA ListsKeeps ==
    ASSUME IInv, Copies, NEW a \in AgentConn, AgentLists(a)
    PROVE  Copies'
<1>t. TypeOK
  BY DEF IInv
<1>1. slot' = slot /\ toHub' = toHub /\ reader' = reader
  BY DEF AgentLists, callState
<1>2. \A b \in AgentConn : b # a => toAgent'[b] = toAgent[b] /\ listing'[b] = listing[b]
  BY <1>t DEF AgentLists, TypeOK
<1>3. /\ toAgent[a] # <<>> /\ toAgent[a] \in Seq(Call) /\ toAgent'[a] = Tail(toAgent[a])
      /\ Len(listing'[a]) = 1 /\ listing'[a][1].call = toAgent[a][1]
  <2>1. PICK l : listing' = [listing EXCEPT ![a] = <<[call |-> Head(toAgent[a]), list |-> l]>>]
    BY DEF AgentLists
  <2> QED
    BY <1>t, <2>1 DEF AgentLists, TypeOK
<1>4. ASSUME NEW w, NEW b, NEW k, Held(w, b, k)'
      PROVE  \/ /\ w = "toAgent" /\ b = a /\ k \in Nat /\ Held(w, a, k + 1)
                /\ (CallAt(w, b, k))' = CallAt(w, a, k + 1) /\ k > 0
             \/ /\ w = "listing" /\ b = a /\ k = 1 /\ Held("toAgent", a, 1)
                /\ (CallAt(w, b, k))' = CallAt("toAgent", a, 1)
             \/ /\ ~(w = "toAgent" /\ b = a) /\ Held(w, b, k)
                /\ (CallAt(w, b, k))' = CallAt(w, b, k)
  <2>1. CASE w = "toAgent"
    <3>1. CASE b = a
      <4>0. Len(toAgent'[a]) = Len(toAgent[a]) - 1
        BY <1>3
      <4>1. k \in 1..Len(toAgent'[a]) /\ (CallAt(w, b, k))' = toAgent'[a][k]
        BY <1>4, <2>1, <3>1 DEF Held, Size, CallAt
      <4>2. k \in Nat /\ k > 0 /\ k + 1 \in 1..Len(toAgent[a])
            /\ toAgent'[a][k] = toAgent[a][k + 1]
        BY <1>3, <4>0, <4>1
      <4> QED
        BY <2>1, <3>1, <4>1, <4>2 DEF Held, Size, CallAt, Wire
    <3>2. CASE b # a
      BY <1>2, <1>4, <2>1, <3>2 DEF Held, Size, CallAt
    <3> QED
      BY <3>1, <3>2
  <2>2. CASE w = "listing"
    <3>1. CASE b = a
      <4>1. k = 1 /\ (CallAt(w, b, k))' = toAgent[a][1]
        BY <1>3, <1>4, <2>2, <3>1 DEF Held, Size, CallAt
      <4>2. Held("toAgent", a, 1) /\ CallAt("toAgent", a, 1) = toAgent[a][1]
        BY <1>3 DEF Held, Size, CallAt, Wire
      <4> QED
        BY <2>2, <3>1, <4>1, <4>2
    <3>2. CASE b # a
      BY <1>2, <1>4, <2>2, <3>2 DEF Held, Size, CallAt
    <3> QED
      BY <3>1, <3>2
  <2>3. CASE w = "toHub"
    BY <1>1, <1>4, <2>3 DEF Held, Size, CallAt
  <2>4. CASE w = "reader"
    BY <1>1, <1>4, <2>4 DEF Held, Size, CallAt
  <2> QED
    BY <1>4, <2>1, <2>2, <2>3, <2>4 DEF Held, Wire
<1>5. OneCopy'
  BY <1>4 DEF Copies, OneCopy
<1>6. SlotAlone'
  BY <1>1, <1>4 DEF Copies, SlotAlone
<1> QED
  BY <1>5, <1>6 DEF Copies

LEMMA RepliesKeeps ==
    ASSUME IInv, Copies, NEW a \in AgentConn, AgentReplies(a)
    PROVE  Copies'
<1>t. TypeOK
  BY DEF IInv
<1>1. slot' = slot /\ toAgent' = toAgent /\ reader' = reader
  BY DEF AgentReplies, callState
<1>2. \A b \in AgentConn : b # a => toHub'[b] = toHub[b] /\ listing'[b] = listing[b]
  BY <1>t DEF AgentReplies, TypeOK
<1>3. /\ listing[a] # <<>> /\ listing[a] \in Seq(Answers) /\ listing'[a] = <<>>
      /\ toHub[a] \in Seq(Answers) /\ toHub'[a] = Append(toHub[a], listing[a][1])
  BY <1>t DEF AgentReplies, TypeOK
<1>4. Held("listing", a, 1) /\ CallAt("listing", a, 1) = listing[a][1].call
  BY <1>3 DEF Held, Size, CallAt, Wire
<1>5. ASSUME NEW w, NEW b, NEW k, Held(w, b, k)'
      PROVE  \/ /\ w = "toHub" /\ b = a /\ k = Len(toHub[a]) + 1
                /\ (CallAt(w, b, k))' = CallAt("listing", a, 1)
             \/ /\ ~(w = "listing" /\ b = a) /\ Held(w, b, k)
                /\ (CallAt(w, b, k))' = CallAt(w, b, k)
  <2>1. CASE w = "toAgent"
    BY <1>1, <1>5, <2>1 DEF Held, Size, CallAt
  <2>2. CASE w = "listing"
    BY <1>2, <1>3, <1>5, <2>2 DEF Held, Size, CallAt
  <2>3. CASE w = "toHub"
    <3>1. CASE b = a
      <4>1. k \in 1..(Len(toHub[a]) + 1) /\ (CallAt(w, b, k))' = toHub'[a][k].call
        BY <1>3, <1>5, <2>3, <3>1 DEF Held, Size, CallAt
      <4>2. CASE k = Len(toHub[a]) + 1
        BY <1>3, <1>4, <2>3, <3>1, <4>1, <4>2
      <4>3. CASE k # Len(toHub[a]) + 1
        <5>1. k \in 1..Len(toHub[a]) /\ toHub'[a][k] = toHub[a][k]
          BY <1>3, <4>1, <4>3
        <5> QED
          BY <2>3, <3>1, <4>1, <5>1 DEF Held, Size, CallAt, Wire
      <4> QED
        BY <4>2, <4>3
    <3>2. CASE b # a
      BY <1>2, <1>5, <2>3, <3>2 DEF Held, Size, CallAt
    <3> QED
      BY <3>1, <3>2
  <2>4. CASE w = "reader"
    BY <1>1, <1>5, <2>4 DEF Held, Size, CallAt
  <2> QED
    BY <1>5, <2>1, <2>2, <2>3, <2>4 DEF Held, Wire
<1>6. OneCopy'
  BY <1>4, <1>5 DEF Copies, OneCopy
<1>7. SlotAlone'
  BY <1>1, <1>4, <1>5 DEF Copies, SlotAlone
<1> QED
  BY <1>6, <1>7 DEF Copies

LEMMA TakesKeeps ==
    ASSUME IInv, Copies, NEW a \in AgentConn, ReaderTakes(a)
    PROVE  Copies'
<1>t. TypeOK
  BY DEF IInv
<1>1. slot' = slot /\ toAgent' = toAgent /\ listing' = listing
  BY DEF ReaderTakes, callState
<1>2. \A b \in AgentConn : b # a => toHub'[b] = toHub[b] /\ reader'[b] = reader[b]
  BY <1>t DEF ReaderTakes, TypeOK
<1>3. /\ toHub[a] # <<>> /\ toHub[a] \in Seq(Answers) /\ toHub'[a] = Tail(toHub[a])
      /\ reader'[a] = <<>> \/ reader'[a] = <<toHub[a][1]>>
  BY <1>t DEF ReaderTakes, FindPending, TypeOK
<1>4. Held("toHub", a, 1) /\ CallAt("toHub", a, 1) = toHub[a][1].call
  BY <1>3 DEF Held, Size, CallAt, Wire
<1>5. ASSUME NEW w, NEW b, NEW k, Held(w, b, k)'
      PROVE  \/ /\ w = "toHub" /\ b = a /\ k \in Nat /\ k > 0 /\ Held(w, a, k + 1)
                /\ (CallAt(w, b, k))' = CallAt(w, a, k + 1)
             \/ /\ w = "reader" /\ b = a /\ k = 1
                /\ (CallAt(w, b, k))' = CallAt("toHub", a, 1)
             \/ /\ ~(w \in {"toHub", "reader"} /\ b = a) /\ Held(w, b, k)
                /\ (CallAt(w, b, k))' = CallAt(w, b, k)
  <2>1. CASE w = "toAgent"
    BY <1>1, <1>5, <2>1 DEF Held, Size, CallAt
  <2>2. CASE w = "listing"
    BY <1>1, <1>5, <2>2 DEF Held, Size, CallAt
  <2>3. CASE w = "toHub"
    <3>1. CASE b = a
      <4>0. Len(toHub'[a]) = Len(toHub[a]) - 1
        BY <1>3
      <4>1. k \in 1..Len(toHub'[a]) /\ (CallAt(w, b, k))' = toHub'[a][k].call
        BY <1>5, <2>3, <3>1 DEF Held, Size, CallAt
      <4>2. k \in Nat /\ k > 0 /\ k + 1 \in 1..Len(toHub[a]) /\ toHub'[a][k] = toHub[a][k + 1]
        BY <1>3, <4>0, <4>1
      <4> QED
        BY <2>3, <3>1, <4>1, <4>2 DEF Held, Size, CallAt, Wire
    <3>2. CASE b # a
      BY <1>2, <1>5, <2>3, <3>2 DEF Held, Size, CallAt
    <3> QED
      BY <3>1, <3>2
  <2>4. CASE w = "reader"
    <3>1. CASE b = a
      <4>1. k \in 1..Len(reader'[a]) /\ (CallAt(w, b, k))' = reader'[a][k].call
        BY <1>5, <2>4, <3>1 DEF Held, Size, CallAt
      <4>2. reader'[a] = <<toHub[a][1]>> /\ k = 1
        BY <1>3, <4>1
      <4> QED
        BY <1>4, <2>4, <3>1, <4>1, <4>2
    <3>2. CASE b # a
      BY <1>2, <1>5, <2>4, <3>2 DEF Held, Size, CallAt
    <3> QED
      BY <3>1, <3>2
  <2> QED
    BY <1>5, <2>1, <2>2, <2>3, <2>4 DEF Held, Wire
<1>6. OneCopy'
  BY <1>4, <1>5 DEF Copies, OneCopy
<1>7. SlotAlone'
  BY <1>1, <1>4, <1>5 DEF Copies, SlotAlone
<1> QED
  BY <1>6, <1>7 DEF Copies

\* The one copy goes into the channel.
LEMMA DeliversKeeps ==
    ASSUME IInv, Copies, NEW a \in AgentConn, ReaderDelivers(a)
    PROVE  Copies'
<1>t. TypeOK
  BY DEF IInv
<1> DEFINE m == reader[a][1]
<1>1. toAgent' = toAgent /\ listing' = listing /\ toHub' = toHub
  BY DEF ReaderDelivers
<1>2. \A b \in AgentConn : b # a => reader'[b] = reader[b]
  BY <1>t DEF ReaderDelivers, TypeOK
<1>3. reader[a] # <<>> /\ reader[a] \in Seq(Answers) /\ reader'[a] = <<>>
  BY <1>t DEF ReaderDelivers, TypeOK
<1>4. Held("reader", a, 1) /\ CallAt("reader", a, 1) = m.call
  BY <1>3 DEF Held, Size, CallAt, Wire
<1>5. \A r \in Call : r # m.call => slot'[r] = slot[r]
  BY <1>t, <1>3 DEF ReaderDelivers, TypeOK
<1>6. ASSUME NEW w, NEW b, NEW k, Held(w, b, k)'
      PROVE  /\ ~(w = "reader" /\ b = a) /\ Held(w, b, k)
             /\ (CallAt(w, b, k))' = CallAt(w, b, k)
  <2>1. CASE w = "toAgent"
    BY <1>1, <1>6, <2>1 DEF Held, Size, CallAt
  <2>2. CASE w = "listing"
    BY <1>1, <1>6, <2>2 DEF Held, Size, CallAt
  <2>3. CASE w = "toHub"
    BY <1>1, <1>6, <2>3 DEF Held, Size, CallAt
  <2>4. CASE w = "reader"
    BY <1>2, <1>3, <1>6, <2>4 DEF Held, Size, CallAt
  <2> QED
    BY <1>6, <2>1, <2>2, <2>3, <2>4 DEF Held, Wire
<1>7. OneCopy'
  BY <1>6 DEF Copies, OneCopy
<1>8. ASSUME NEW w, NEW b, NEW k, Held(w, b, k)'
      PROVE  slot'[(CallAt(w, b, k))'] = <<>>
  <2>1. CallAt(w, b, k) # m.call
    BY <1>4, <1>6, <1>8 DEF Copies, OneCopy
  <2>2. CallAt(w, b, k) \in Call
    BY <1>6, <1>8, HeldAsked
  <2> QED
    BY <1>5, <1>6, <1>8, <2>1, <2>2 DEF Copies, SlotAlone
<1>9. SlotAlone'
  BY <1>8 DEF SlotAlone
<1> QED
  BY <1>7, <1>9 DEF Copies

\* A call writes its request once, and nothing is on its way for it before.
LEMMA WriteKeeps ==
    ASSUME IInv, Copies, NEW r \in Call, Write(r)
    PROVE  Copies'
<1>t. TypeOK
  BY DEF IInv
<1>1. slot' = slot /\ listing' = listing /\ toHub' = toHub /\ reader' = reader
  BY DEF Write
<1>2. ~Asked(r)
  BY DEF Write, Asked
<1>3. slot[r] = <<>>
  BY <1>2 DEF IInv, SlotsGood
<1>4. CASE toAgent' = toAgent
  BY <1>1, <1>4, SameWiresKeep DEF wires
<1>5. CASE toAgent' # toAgent
  <2>1. PICK a \in AgentConn : toAgent' = [toAgent EXCEPT ![a] = Append(@, r)]
    BY <1>t, <1>5 DEF Write, TypeOK
  <2>2. /\ toAgent[a] \in Seq(Call) /\ toAgent'[a] = Append(toAgent[a], r)
        /\ \A b \in AgentConn : b # a => toAgent'[b] = toAgent[b]
    BY <1>t, <2>1 DEF TypeOK
  <2>3. ASSUME NEW w, NEW b, NEW k, Held(w, b, k)'
        PROVE  \/ /\ w = "toAgent" /\ b = a /\ k = Len(toAgent[a]) + 1
                  /\ (CallAt(w, b, k))' = r
               \/ Held(w, b, k) /\ (CallAt(w, b, k))' = CallAt(w, b, k)
    <3>1. CASE w = "toAgent"
      <4>1. CASE b = a
        <5>1. k \in 1..(Len(toAgent[a]) + 1) /\ (CallAt(w, b, k))' = toAgent'[a][k]
          BY <2>2, <2>3, <3>1, <4>1 DEF Held, Size, CallAt
        <5>2. CASE k = Len(toAgent[a]) + 1
          BY <2>2, <3>1, <4>1, <5>1, <5>2
        <5>3. CASE k # Len(toAgent[a]) + 1
          <6>1. k \in 1..Len(toAgent[a]) /\ toAgent'[a][k] = toAgent[a][k]
            BY <2>2, <5>1, <5>3
          <6> QED
            BY <3>1, <4>1, <5>1, <6>1 DEF Held, Size, CallAt, Wire
        <5> QED
          BY <5>2, <5>3
      <4>2. CASE b # a
        BY <2>2, <2>3, <3>1, <4>2 DEF Held, Size, CallAt
      <4> QED
        BY <4>1, <4>2
    <3>2. CASE w = "listing"
      BY <1>1, <2>3, <3>2 DEF Held, Size, CallAt
    <3>3. CASE w = "toHub"
      BY <1>1, <2>3, <3>3 DEF Held, Size, CallAt
    <3>4. CASE w = "reader"
      BY <1>1, <2>3, <3>4 DEF Held, Size, CallAt
    <3> QED
      BY <2>3, <3>1, <3>2, <3>3, <3>4 DEF Held, Wire
  <2>4. \A w, b, k : Held(w, b, k) => CallAt(w, b, k) # r
    BY <1>2, HeldAsked
  <2>5. OneCopy'
    BY <2>3, <2>4 DEF Copies, OneCopy
  <2>6. SlotAlone'
    BY <1>1, <1>3, <2>3 DEF Copies, SlotAlone
  <2> QED
    BY <2>5, <2>6 DEF Copies
<1> QED
  BY <1>4, <1>5

\* An answer empties a channel.
LEMMA AnswerKeeps ==
    ASSUME IInv, Copies, NEW r \in Call, Answer(r)
    PROVE  Copies'
<1>t. TypeOK
  BY DEF IInv
<1>1. \A w, a, k : Held(w, a, k)' = Held(w, a, k)
                   /\ (CallAt(w, a, k))' = CallAt(w, a, k)
  BY DEF Answer, wires, Held, Size, CallAt
<1>2. \A o \in Call : slot[o] = <<>> => slot'[o] = <<>>
  BY <1>t DEF Answer, TypeOK
<1>3. OneCopy'
  BY <1>1 DEF Copies, OneCopy
<1>4. SlotAlone'
  BY <1>1, <1>2, HeldAsked DEF Copies, SlotAlone
<1> QED
  BY <1>3, <1>4 DEF Copies

LEMMA CopiesStep == IInv /\ Copies /\ [Next]_vars => Copies'
<1> SUFFICES ASSUME IInv, Copies, [Next]_vars PROVE Copies'
  OBVIOUS
<1>1. CASE \E a \in AgentConn : Break(a) \/ HubNotices(a)
  BY <1>1, LostKeeps
<1>2. CASE \E a \in AgentConn : AgentStep(a)
  BY <1>2, ListsKeeps, RepliesKeeps DEF AgentStep
<1>3. CASE \E a \in AgentConn : ReaderStep(a)
  BY <1>3, TakesKeeps, DeliversKeeps DEF ReaderStep
<1>4. CASE \E r \in Call : Write(r)
  BY <1>4, WriteKeeps
<1>5. CASE \E r \in Call : Answer(r)
  BY <1>5, AnswerKeeps
<1>6. \/ slot' = slot /\ UNCHANGED wires
      \/ \E a \in AgentConn : Break(a) \/ HubNotices(a) \/ AgentStep(a) \/ ReaderStep(a)
      \/ \E r \in Call : Write(r) \/ Answer(r)
  BY DEF Next, vars, callState, wires, AgentConnect, SessionsChange, Leave, Join, Resync,
         HttpRequest, CallStep, Ask, Timeout, Reply, Snapshot, Tell
<1> QED
  BY <1>1, <1>2, <1>3, <1>4, <1>5, <1>6, SameWiresKeep

LEMMA CopiesInvariance == Spec => []Copies
<1> QED
  BY CopiesInit, CopiesStep, Invariance, PTL DEF Spec

-----------------------------------------------------------------------------
(* A sync that is alone shows the truth: while there is one in alone, every  *)
(* list that a waiting call may yet get, or a sync may yet tell, is the      *)
(* truth, or empty because tmux could not be asked                           *)

Right(r, l) == l = live \/ (l = {} /\ r \in failed)

Current ==
    /\ \A r \in Call : pc[r] \in {"reply", "snapshot", "tell"} => Right(r, result[r])
    /\ \A m : OnWay(m) /\ m.call \in pending => Right(m.call, m.list)
    /\ \A r \in pending : slot[r] # <<>> => Right(r, Head(slot[r]))

\* Nobody is reached before the sync has its list.
ReachedLate == \A r \in Call : reached[r] # {} => pc[r] \in {"tell", "done"}

Truth == ReachedLate /\ (alone # {} => Current) /\ AloneSyncShowsTruth

LEMMA TruthInit == Init => Truth
  BY DEF Init, Truth, ReachedLate, AloneSyncShowsTruth

\* What a step does to alone, reached and shown.
LEMMA AloneEffect ==
    ASSUME TypeOK, [Next]_vars, alone' # {}
    PROVE  /\ live' = live
           /\ failed \subseteq failed'
           /\ \/ UNCHANGED <<reached, shown>>
              \/ alone' = alone /\ \E r \in Call, c \in Client : Tell(r, c)
           /\ \/ alone' = alone
              \/ \E r \in Call : /\ pc[r] = "idle" /\ pc' = [pc EXCEPT ![r] = "lookup"]
                                 /\ \A o \in Call : ~Running(o)
                                 /\ alone' = alone \union {r}
                                 /\ UNCHANGED <<pending, reached, shown>>
<1>1. CASE UNCHANGED vars
  BY <1>1 DEF vars, tmux, ghosts
<1>2. ASSUME NEW a \in AgentConn,
             \/ AgentConnect(a) \/ Break(a) \/ HubNotices(a) \/ AgentStep(a) \/ ReaderStep(a)
      PROVE  /\ alone' = alone /\ live' = live /\ failed \subseteq failed'
             /\ UNCHANGED <<reached, shown>>
  BY <1>2 DEF AgentConnect, Break, HubNotices, AgentStep, AgentLists, AgentReplies,
              ReaderStep, ReaderTakes, ReaderDelivers, tmux, ghosts
<1>3. ASSUME NEW s \in Session, SessionsChange(s) PROVE FALSE
  BY <1>3 DEF SessionsChange
<1>4. ASSUME NEW c \in Client, Leave(c)
      PROVE  UNCHANGED <<alone, live, failed, reached, shown>>
  BY <1>4 DEF Leave, tmux, ghosts
<1>5. ASSUME NEW r \in Call, BeginSync(r)
      PROVE  \/ alone' = alone
             \/ /\ pc[r] = "idle" /\ pc' = [pc EXCEPT ![r] = "lookup"]
                /\ \A o \in Call : ~Running(o)
                /\ alone' = alone \union {r}
  BY <1>5 DEF BeginSync, Begin, Goto
<1>6. ASSUME NEW r \in Call, NEW c \in Client, Join(c, r) \/ Resync(c, r)
      PROVE  BeginSync(r) /\ UNCHANGED <<live, pending, failed, reached, shown>>
  BY <1>6 DEF Join, Resync, tmux
<1>7. ASSUME NEW r \in Call,
             \/ HttpRequest(r) \/ Ask(r) \/ Write(r) \/ Answer(r) \/ Timeout(r)
             \/ Reply(r) \/ Snapshot(r)
      PROVE  UNCHANGED <<alone, live, failed, reached, shown>>
  BY <1>7 DEF HttpRequest, Ask, Write, Answer, Timeout, Reply, Snapshot, tmux, ghosts
<1>8. ASSUME NEW r \in Call, NEW c \in Client, Tell(r, c)
      PROVE  UNCHANGED <<alone, live, failed>>
  BY <1>8 DEF Tell, tmux
<1> QED
  BY <1>1, <1>2, <1>3, <1>4, <1>5, <1>6, <1>7, <1>8 DEF Next, CallStep

LEMMA ReachedStep ==
    ASSUME IInv, Truth, [Next]_vars
    PROVE  ReachedLate'
<1>t. TypeOK
  BY DEF IInv
<1>1. ASSUME NEW r \in Call, pc[r] \in {"tell", "done"} PROVE pc'[r] \in {"tell", "done"}
  <2>1. ASSUME NEW o \in Call, Ask(o) \/ Write(o) \/ Answer(o) \/ Timeout(o)
        PROVE  pc'[r] = pc[r]
    <3>1. o # r
      BY <1>1, <2>1 DEF Ask, Write, Answer, Timeout, TimerFires
    <3> QED
      BY <1>t, <2>1, <3>1 DEF Ask, Write, Answer, Timeout, Ends, Goto, TypeOK
  <2>2. ASSUME NEW s \in Session, SessionsChange(s) PROVE pc'[r] = pc[r]
    BY <2>2 DEF SessionsChange, callState
  <2> QED
    BY <1>t, <1>1, <2>1, <2>2, CallEffect DEF TypeOK
<1>2. ASSUME NEW o \in Call, NEW c \in Client, Tell(o, c), NEW r \in Call, reached'[r] # {}
      PROVE  pc'[r] \in {"tell", "done"}
  <2>1. CASE r = o
    BY <1>t, <1>1, <1>2, <2>1 DEF Tell
  <2>2. CASE r # o
    BY <1>t, <1>1, <1>2, <2>2 DEF Tell, TypeOK, Truth, ReachedLate
  <2> QED
    BY <2>1, <2>2
<1>3. \/ reached' = reached
      \/ \E r \in Call, c \in Client : Tell(r, c)
  BY DEF Next, vars, ghosts, AgentConnect, Break, HubNotices, AgentStep, AgentLists,
         AgentReplies, ReaderStep, ReaderTakes, ReaderDelivers, SessionsChange, Leave,
         Join, Resync, HttpRequest, CallStep, Ask, Write, Answer, Timeout, Reply, Snapshot
<1> QED
  BY <1>1, <1>2, <1>3 DEF Truth, ReachedLate

\* A call waits after a step if it waited before, or asks.
LEMMA PendingEffect ==
    ASSUME TypeOK, [Next]_vars, NEW r \in Call, r \in pending'
    PROVE  r \in pending \/ Ask(r)
<1>1. ASSUME NEW o \in Call, Ask(o) PROVE r \in pending \/ Ask(r)
  BY <1>1 DEF Ask
<1>2. ASSUME NEW o \in Call, Write(o) \/ Answer(o) \/ Timeout(o) PROVE r \in pending
  BY <1>2 DEF Write, Answer, Timeout, Forget
<1>3. ASSUME NEW s \in Session, SessionsChange(s) PROVE r \in pending
  BY <1>3 DEF SessionsChange, callState
<1> QED
  BY <1>1, <1>2, <1>3, CallEffect

LEMMA ResultsCurrent ==
    ASSUME IInv, Current, [Next]_vars, live' = live, NEW r \in Call,
           pc'[r] \in {"reply", "snapshot", "tell"}
    PROVE  Right(r, result'[r])
<1>t. TypeOK /\ PendingIsWaiting
  BY DEF IInv
<1>1. ASSUME NEW o \in Call, Answer(o) PROVE Right(r, result'[r])
  <2>1. CASE o = r
    BY <1>t, <1>1, <2>1 DEF Answer, PendingIsWaiting, Current, TypeOK
  <2>2. CASE o # r
    BY <1>t, <1>1, <2>2 DEF Answer, Goto, Current, TypeOK
  <2> QED
    BY <2>1, <2>2
<1>2. ASSUME NEW o \in Call, Ask(o) \/ Write(o) \/ Timeout(o) PROVE Right(r, result'[r])
  BY <1>t, <1>2 DEF Ask, Write, Timeout, Ends, Goto, Current, TypeOK
<1>3. ASSUME NEW s \in Session, SessionsChange(s) PROVE Right(r, result'[r])
  BY <1>3 DEF SessionsChange, callState, Current
<1> QED
  BY <1>t, <1>1, <1>2, <1>3, CallEffect DEF Current, TypeOK

LEMMA AnswersCurrent ==
    ASSUME IInv, Current, [Next]_vars, alone' # {}, NEW m, OnWay(m)', m.call \in pending'
    PROVE  Right(m.call, m.list)'
<1>t. TypeOK
  BY DEF IInv
<1>1. From(m)
  BY <1>t, AnswerEffect DEF OnWay
<1>2. m \in Answers /\ m.call \in Call /\ Asked(m.call)
  BY <1>1, FromFine DEF Fine, Answers
<1>3. m.call \in pending
  BY <1>t, <1>2, PendingEffect DEF Asked, Ask
<1> QED
  BY <1>t, <1>1, <1>3, AloneEffect DEF From, ListedNow, Current, Right

LEMMA SlotsCurrent ==
    ASSUME IInv, Current, [Next]_vars, NEW r \in Call, r \in pending', slot'[r] # <<>>
    PROVE  Right(r, Head(slot'[r]))
<1>t. TypeOK
  BY DEF IInv
<1>1. CASE slot'[r] = slot[r]
  <2>1. Asked(r)
    BY <1>1 DEF IInv, SlotsGood
  <2>2. r \in pending
    BY <1>t, <2>1, PendingEffect DEF Asked, Ask
  <2> QED
    BY <1>1, <2>2 DEF Current
<1>2. ASSUME NEW a \in AgentConn, ReaderDelivers(a), slot'[r] # slot[r]
      PROVE  Right(r, Head(slot'[r]))
  <2> DEFINE m == Head(reader[a])
  <2>1. reader[a] \in Seq(Answers) /\ reader[a] # <<>> /\ m = reader[a][1]
    BY <1>t, <1>2 DEF ReaderDelivers, TypeOK
  <2>2. OnWay(m)
    BY <2>1 DEF OnWay
  <2>3. r = m.call /\ slot'[r] = <<m.list>> /\ r \in pending
    BY <1>t, <1>2 DEF ReaderDelivers, TypeOK
  <2> QED
    BY <2>2, <2>3 DEF Current
<1>3. ASSUME NEW o \in Call, Answer(o) PROVE slot'[r] = slot[r]
  BY <1>t, <1>3 DEF Answer, TypeOK
<1>4. \/ slot' = slot
      \/ \E a \in AgentConn : ReaderDelivers(a)
      \/ \E o \in Call : Answer(o)
  BY DEF Next, vars, callState, AgentConnect, Break, HubNotices, AgentStep, AgentLists,
         AgentReplies, ReaderStep, ReaderTakes, SessionsChange, Leave, Join, Resync,
         HttpRequest, CallStep, Ask, Write, Timeout, Reply, Snapshot, Tell
<1> QED
  BY <1>1, <1>2, <1>3, <1>4

LEMMA CurrentStep ==
    ASSUME IInv, Truth, [Next]_vars, alone' # {}
    PROVE  Current'
<1>t. TypeOK /\ TypeOK' /\ PendingIsWaiting
  BY TypeStep DEF IInv
<1>l. live' = live /\ \A r, l : Right(r, l) => Right(r, l)'
  BY <1>t, AloneEffect DEF Right
<1>1. CASE alone = {}
  <2>1. PICK r \in Call : /\ pc[r] = "idle" /\ pc' = [pc EXCEPT ![r] = "lookup"]
                          /\ \A o \in Call : ~Running(o)
                          /\ pending' = pending
    BY <1>t, <1>1, AloneEffect
  <2>2. pending' = {}
    BY <1>t, <2>1 DEF PendingIsWaiting, Running
  <2>3. \A o \in Call : pc'[o] \in {"idle", "done", "lookup"}
    BY <1>t, <2>1 DEF Running, TypeOK
  <2> QED
    BY <2>2, <2>3 DEF Current
<1>2. CASE alone # {}
  <2>1. Current
    BY <1>2 DEF Truth
  <2>2. \A r \in Call : pc'[r] \in {"reply", "snapshot", "tell"} => Right(r, result[r])'
    BY <1>l, <2>1, ResultsCurrent
  <2>3. ASSUME NEW m, OnWay(m)', m.call \in pending' PROVE Right(m.call, m.list)'
    BY <1>l, <2>1, <2>3, AnswersCurrent
  <2>4. \A r \in pending' : slot'[r] # <<>> => Right(r, Head(slot[r]))'
    <3>1. pending' \subseteq Call
      BY <1>t DEF TypeOK
    <3> QED
      BY <1>l, <2>1, <3>1, SlotsCurrent
  <2> QED
    BY <2>2, <2>3, <2>4 DEF Current
<1> QED
  BY <1>1, <1>2

LEMMA ShownStep ==
    ASSUME IInv, Truth, [Next]_vars
    PROVE  AloneSyncShowsTruth'
<1> SUFFICES ASSUME NEW r \in alone', NEW c \in reached'[r]
             PROVE  \/ shown'[c] = live'
                    \/ shown'[c] = {} /\ \E o \in failed' : c \in reached'[o]
  BY DEF AloneSyncShowsTruth
<1>t. TypeOK /\ TypeOK'
  BY TypeStep DEF IInv
<1>l. live' = live /\ failed \subseteq failed' /\ r \in Call /\ c \in Client
  BY <1>t, AloneEffect DEF TypeOK
<1>1. CASE UNCHANGED <<reached, shown>>
  <2>1. r \in alone
    <3>1. pc[r] # "idle"
      BY <1>l, <1>1 DEF Truth, ReachedLate
    <3> QED
      BY <1>t, <3>1, AloneEffect
  <2> QED
    BY <1>l, <1>1, <2>1 DEF Truth, AloneSyncShowsTruth
<1>2. ASSUME NEW o \in Call, NEW d \in Client, Tell(o, d), alone' = alone
      PROVE  \/ shown'[c] = live'
             \/ shown'[c] = {} /\ \E q \in failed' : c \in reached'[q]
  <2>1. Right(o, result[o])
    BY <1>2 DEF Tell, Truth, Current
  <2>2. CASE c = d
    <3>1. shown'[c] = result[o] /\ c \in reached'[o]
      BY <1>t, <1>2, <2>2 DEF Tell, TypeOK
    <3> QED
      BY <1>l, <2>1, <3>1 DEF Right
  <2>3. CASE c # d
    <3>1. /\ c \in reached[r] /\ shown'[c] = shown[c]
          /\ \A q \in Call : reached[q] \subseteq reached'[q]
      BY <1>t, <1>l, <1>2, <2>3 DEF Tell, TypeOK
    <3>2. failed \subseteq Call
      BY <1>t DEF TypeOK
    <3> QED
      BY <1>l, <1>2, <3>1, <3>2 DEF Truth, AloneSyncShowsTruth
  <2> QED
    BY <2>2, <2>3
<1> QED
  BY <1>t, <1>1, <1>2, AloneEffect

LEMMA TruthInvariance == Spec => []Truth
<1>1. IInv /\ Truth /\ [Next]_vars => Truth'
  BY ReachedStep, CurrentStep, ShownStep DEF Truth
<1> QED
  BY <1>1, TruthInit, Invariance, PTL DEF Spec

-----------------------------------------------------------------------------
(* The theorems *)

\* The types of the variables are kept (internal/hub/hub.go, agentState,
\* pendingSessions and requestSessions).
THEOREM TypeCorrect == Spec => []TypeOK
<1>1. IInv => TypeOK
  BY DEF IInv
<1> QED
  BY <1>1, Invariance, PTL

\* Whatever list requestSessions returns was the truth at some instant of the
\* call, or is the empty list of a tmux that could not be asked, although older
\* answers and those to other calls may still be on their way (that each call
\* gets the list taken for it alone is SyncImplementsQuery).
THEOREM AnswersAlwaysTrue == Spec => []AnswerWasTrue
<1>1. IInv => AnswerWasTrue
  BY DEF IInv
<1> QED
  BY <1>1, Invariance, PTL

\* h.pendingSessions neither leaks an entry nor loses the one of a call that
\* waits, whatever the order of answers and timeouts.
THEOREM PendingAlwaysWaiting == Spec => []PendingIsWaiting
<1>1. IInv => PendingIsWaiting
  BY DEF IInv
<1> QED
  BY <1>1, Invariance, PTL

\* The reader of the agent's connection never finds the channel of a call full,
\* so no answer is thrown away by its non-blocking send (hub.go:758-761).
THEOREM AlwaysRoomForAnswer == Spec => []RoomForAnswer
<1>1. IInv /\ Copies => RoomForAnswer
  <2> SUFFICES ASSUME IInv, Copies, NEW a \in AgentConn, reader[a] # <<>>
               PROVE  slot[Head(reader[a]).call] = <<>>
    BY DEF RoomForAnswer
  <2>1. reader[a] \in Seq(Answers)
    BY DEF IInv, TypeOK
  <2>2. Held("reader", a, 1) /\ CallAt("reader", a, 1) = Head(reader[a]).call
    BY <2>1 DEF Held, Size, CallAt, Wire
  <2> QED
    BY <2>2 DEF Copies, SlotAlone
<1> QED
  BY <1>1, Invariance, CopiesInvariance, PTL

\* A sync that began when no other was under way, and after the last change of
\* the tmux sessions, leaves every client it has told with the sessions there
\* are, or with no session if its own list, or that of a later sync that told the
\* client too, is the empty one of a tmux that could not be asked (syncSessions
\* and broadcastSessions, hub.go:653-669; local.go:70-71).
THEOREM AloneAlwaysShowsTruth == Spec => []AloneSyncShowsTruth
<1>1. Truth => AloneSyncShowsTruth
  BY DEF Truth
<1> QED
  BY <1>1, TruthInvariance, PTL
-----------------------------------------------------------------------------
(* The refinement of SessionQuery *)

OnWayTo(r, l) == OnWay([call |-> r, list |-> l])
InSlot(r, l)  == slot[r] # <<>> /\ Head(slot[r]) = l

\* An answer on its way is held by a wire.
LEMMA OnWayHeld ==
    ASSUME NEW r, NEW l, OnWayTo(r, l)
    PROVE  \E w \in Wire \ {"toAgent"}, b \in AgentConn : \E k \in Nat :
              /\ Held(w, b, k) /\ CallAt(w, b, k) = r
              /\ w = "listing" => listing[b][k].list = l
              /\ w = "toHub" => toHub[b][k].list = l
              /\ w = "reader" => reader[b][k].list = l
<1> DEFINE m == [call |-> r, list |-> l]
<1>1. PICK b \in AgentConn :
            \/ \E k \in 1..Len(listing[b]) : m = listing[b][k]
            \/ \E k \in 1..Len(toHub[b]) : m = toHub[b][k]
            \/ \E k \in 1..Len(reader[b]) : m = reader[b][k]
  BY DEF OnWayTo, OnWay
<1>2. m.call = r /\ m.list = l
  OBVIOUS
<1> HIDE DEF m
<1>3. CASE \E k \in 1..Len(listing[b]) : m = listing[b][k]
  <2>1. PICK k \in 1..Len(listing[b]) : m = listing[b][k]
    BY <1>3
  <2>2. Held("listing", b, k) /\ CallAt("listing", b, k) = r /\ k \in Nat
    BY <1>2, <2>1 DEF Held, CallAt, Size, Wire
  <2> QED
    BY <1>2, <2>1, <2>2 DEF Wire
<1>4. CASE \E k \in 1..Len(toHub[b]) : m = toHub[b][k]
  <2>1. PICK k \in 1..Len(toHub[b]) : m = toHub[b][k]
    BY <1>4
  <2>2. Held("toHub", b, k) /\ CallAt("toHub", b, k) = r /\ k \in Nat
    BY <1>2, <2>1 DEF Held, CallAt, Size, Wire
  <2> QED
    BY <1>2, <2>1, <2>2 DEF Wire
<1>5. CASE \E k \in 1..Len(reader[b]) : m = reader[b][k]
  <2>1. PICK k \in 1..Len(reader[b]) : m = reader[b][k]
    BY <1>5
  <2>2. Held("reader", b, k) /\ CallAt("reader", b, k) = r /\ k \in Nat
    BY <1>2, <2>1 DEF Held, CallAt, Size, Wire
  <2> QED
    BY <1>2, <2>1, <2>2 DEF Wire
<1> QED
  BY <1>1, <1>3, <1>4, <1>5

\* There is at most one answer to a call, and none while its request is on its
\* way.
LEMMA OneAnswer ==
    ASSUME Copies, NEW r, NEW l \in AnswersTo(r)
    PROVE  /\ \A j \in AnswersTo(r) : j = l
           /\ \A a, k : Held("toAgent", a, k) => CallAt("toAgent", a, k) # r
<1>1. ASSUME NEW j, OnWayTo(r, j) PROVE slot[r] = <<>>
  BY <1>1, OnWayHeld DEF Copies, SlotAlone
<1>2. ASSUME NEW j, NEW i, OnWayTo(r, j), OnWayTo(r, i) PROVE i = j
  <2>1. PICK w \in Wire \ {"toAgent"}, b \in AgentConn : \E k \in Nat :
              /\ Held(w, b, k) /\ CallAt(w, b, k) = r
              /\ w = "listing" => listing[b][k].list = j
              /\ w = "toHub" => toHub[b][k].list = j
              /\ w = "reader" => reader[b][k].list = j
    BY <1>2, OnWayHeld
  <2>2. PICK k \in Nat :
              /\ Held(w, b, k) /\ CallAt(w, b, k) = r
              /\ w = "listing" => listing[b][k].list = j
              /\ w = "toHub" => toHub[b][k].list = j
              /\ w = "reader" => reader[b][k].list = j
    BY <2>1
  <2>3. PICK v \in Wire \ {"toAgent"}, c \in AgentConn : \E n \in Nat :
              /\ Held(v, c, n) /\ CallAt(v, c, n) = r
              /\ v = "listing" => listing[c][n].list = i
              /\ v = "toHub" => toHub[c][n].list = i
              /\ v = "reader" => reader[c][n].list = i
    BY <1>2, OnWayHeld
  <2>4. PICK n \in Nat :
              /\ Held(v, c, n) /\ CallAt(v, c, n) = r
              /\ v = "listing" => listing[c][n].list = i
              /\ v = "toHub" => toHub[c][n].list = i
              /\ v = "reader" => reader[c][n].list = i
    BY <2>3
  <2>5. v = w /\ c = b /\ n = k
    BY <2>2, <2>4 DEF Copies, OneCopy
  <2> QED
    BY <2>2, <2>4, <2>5 DEF Wire
<1>3. \A j : j \in AnswersTo(r) => OnWayTo(r, j) \/ InSlot(r, j)
  BY DEF AnswersTo, OnWayTo, InSlot
<1>4. ASSUME NEW j \in AnswersTo(r) PROVE j = l
  <2>1. CASE OnWayTo(r, j)
    BY <1>1, <1>2, <1>3, <2>1 DEF InSlot
  <2>2. CASE InSlot(r, j)
    BY <1>1, <1>3, <2>2 DEF InSlot
  <2> QED
    BY <1>3, <1>4, <2>1, <2>2
<1>5. ASSUME NEW a, NEW k, Held("toAgent", a, k), CallAt("toAgent", a, k) = r PROVE FALSE
  <2>1. slot[r] = <<>>
    BY <1>5 DEF Copies, SlotAlone
  <2>2. OnWayTo(r, l)
    BY <1>3, <2>1 DEF InSlot
  <2>3. PICK w \in Wire \ {"toAgent"}, b \in AgentConn : \E n \in Nat :
              Held(w, b, n) /\ CallAt(w, b, n) = r
    BY <2>2, OnWayHeld
  <2> QED
    BY <1>5, <2>3 DEF Copies, OneCopy
<1> QED
  BY <1>4, <1>5

\* A call that has not asked has no answer.
LEMMA NotAskedNoAnswer ==
    ASSUME IInv, NEW r \in Call, ~Asked(r)
    PROVE  AnswersTo(r) = {}
<1>1. ASSUME NEW l, OnWayTo(r, l) PROVE FALSE
  BY <1>1, OnWayHeld, HeldAsked
<1>2. slot[r] = <<>>
  BY DEF IInv, SlotsGood
<1> QED
  BY <1>1, <1>2 DEF AnswersTo, OnWayTo

\* A call's answers are what they were, or fewer, unless the agent lists.
LEMMA AnswersMove ==
    ASSUME IInv, [Next]_vars, ~\E a \in AgentConn : AgentLists(a), NEW r \in Call
    PROVE  \A l \in AnswersTo(r)' : l \in AnswersTo(r)
<1>t. TypeOK
  BY DEF IInv
<1>1. ASSUME NEW m, OnWay(m)' PROVE OnWay(m)
  <2>1. PICK b \in AgentConn :
              \/ \E k \in 1..Len(listing'[b]) : m = listing'[b][k]
              \/ \E k \in 1..Len(toHub'[b]) : m = toHub'[b][k]
              \/ \E k \in 1..Len(reader'[b]) : m = reader'[b][k]
    BY <1>1 DEF OnWay
  <2>2. From(m)
    BY <1>t, <2>1, AnswerEffect
  <2> QED
    BY <2>2 DEF From, ListedNow
<1>2. ASSUME NEW l, slot'[r] # <<>>, Head(slot'[r]) = l
      PROVE  (slot[r] # <<>> /\ Head(slot[r]) = l) \/ OnWay([call |-> r, list |-> l])
  <2>1. CASE slot'[r] = slot[r]
    BY <1>2, <2>1
  <2>2. CASE \E a \in AgentConn : ReaderDelivers(a)
    <3>1. PICK a \in AgentConn : ReaderDelivers(a)
      BY <2>2
    <3> DEFINE m == Head(reader[a])
    <3>2. /\ reader[a] # <<>> /\ reader[a] \in Seq(Answers)
          /\ slot' = [slot EXCEPT ![m.call] = IF @ = <<>> THEN <<m.list>> ELSE @]
      BY <1>t, <3>1 DEF ReaderDelivers, TypeOK
    <3>3. m \in Answers /\ 1 \in 1..Len(reader[a]) /\ m = reader[a][1]
      BY <3>2
    <3>4. m.call \in Call /\ m = [call |-> m.call, list |-> m.list]
      BY <3>3 DEF Answers
    <3>5. slot \in [Call -> Seq(Lists)]
      BY <1>t DEF TypeOK
    <3>6. OnWay(m)
      BY <3>3 DEF OnWay
    <3> HIDE DEF m
    <3>7. CASE slot'[r] # slot[r]
      <4>1. r = m.call /\ slot'[r] = <<m.list>>
        BY <3>2, <3>4, <3>5, <3>7
      <4>2. l = m.list
        BY <1>2, <4>1
      <4> QED
        BY <3>4, <3>6, <4>1, <4>2
    <3> QED
      BY <2>1, <3>7
  <2>3. CASE \E q \in Call : Answer(q)
    <3>1. PICK q \in Call : Answer(q)
      BY <2>3
    <3>2. slot' = [slot EXCEPT ![q] = <<>>] /\ slot \in [Call -> Seq(Lists)]
      BY <1>t, <3>1 DEF Answer, TypeOK
    <3>3. slot'[r] = slot[r] \/ slot'[r] = <<>>
      BY <3>2
    <3> QED
      BY <1>2, <2>1, <3>3
  <2>4. slot' = slot \/ (\E a \in AgentConn : ReaderDelivers(a)) \/ \E q \in Call : Answer(q)
    BY DEF Next, vars, callState, AgentConnect, Break, HubNotices, AgentStep, AgentLists,
           AgentReplies, ReaderStep, ReaderTakes, SessionsChange, Leave,
           Join, Resync, HttpRequest, CallStep, Ask, Write, Timeout, Reply, Snapshot, Tell
  <2> QED
    BY <2>1, <2>2, <2>3, <2>4
<1> QED
  BY <1>1, <1>2 DEF AnswersTo

\* How a step of the sync is one of the query: phase and taken, as the
\* refinement has them.
PhaseOf == [r \in Call |-> Phase(r)]
TakenOf == [r \in Call |-> IF pc[r] \in {"write", "wait"} THEN AnswersTo(r) ELSE {}]

\* Where no call changes its phase and the agent does not list, answers are
\* lost at most.
LEMMA LoseStep ==
    ASSUME IInv, Copies, [Next]_vars, ~\E a \in AgentConn : AgentLists(a),
           PhaseOf' = PhaseOf, UNCHANGED <<live, result>>
    PROVE  Query!Next
<1> DEFINE S == {r \in Call : TakenOf'[r] = {}}
<1>1. ASSUME NEW r \in Call PROVE (pc'[r] \in {"write", "wait"}) = (pc[r] \in {"write", "wait"})
  <2>1. Phase(r)' = Phase(r)
    BY DEF PhaseOf
  <2> QED
    BY <2>1 DEF Phase
<1>2. ASSUME NEW r \in Call
      PROVE  TakenOf'[r] = IF r \in S THEN {} ELSE TakenOf[r]
  <2>1. CASE r \in S
    BY <2>1
  <2>2. CASE r \notin S
    <3>1. pc'[r] \in {"write", "wait"} /\ pc[r] \in {"write", "wait"} /\ AnswersTo(r)' # {}
      BY <1>1, <2>2 DEF TakenOf
    <3>2. PICK l : l \in AnswersTo(r)'
      BY <3>1
    <3>3. \A j \in AnswersTo(r)' : j \in AnswersTo(r)
      BY AnswersMove
    <3>4. \A j \in AnswersTo(r) : j = l
      BY <3>2, <3>3, OneAnswer
    <3>5. AnswersTo(r)' = AnswersTo(r)
      BY <3>2, <3>3, <3>4
    <3> QED
      BY <2>2, <3>1, <3>5 DEF TakenOf
  <2> QED
    BY <2>1, <2>2
<1>3. TakenOf' = [r \in Call |-> IF r \in S THEN {} ELSE TakenOf[r]]
  BY <1>2 DEF TakenOf
<1>4. S \in SUBSET Call
  OBVIOUS
<1> HIDE DEF S
<1>5. \E T \in SUBSET Call : Query!Lose(T)
  BY <1>3, <1>4 DEF Query!Lose, PhaseOf, TakenOf
<1> QED
  BY <1>5 DEF Query!Next

LEMMA SameAnswers ==
    ASSUME NEW r, UNCHANGED <<listing, toHub, reader>>, slot'[r] = slot[r]
    PROVE  AnswersTo(r)' = AnswersTo(r)
<1>1. \A m : OnWay(m)' <=> OnWay(m)
  BY DEF OnWay
<1> QED
  BY <1>1 DEF AnswersTo

\* The agent asks tmux: for a call that still waits this is the instant at
\* which its list is taken.
LEMMA ListsTakes ==
    ASSUME IInv, Copies, NEW a \in AgentConn, AgentLists(a)
    PROVE  [Query!Next]_(Query!vars)
<1>t. TypeOK
  BY DEF IInv
<1>r. PICK r \in Call : r = Head(toAgent[a])
  BY <1>t DEF AgentLists, TypeOK
<1>1. PICK list \in {live, {}} : listing' = [listing EXCEPT ![a] = <<[call |-> r, list |-> list]>>]
  BY <1>r DEF AgentLists, Listed
<1> DEFINE m == [call |-> r, list |-> list]
<1>2. list \in Lists
  BY <1>t DEF Lists, TypeOK
<1>3. /\ toAgent[a] # <<>> /\ toAgent[a] \in Seq(Call) /\ listing[a] = <<>>
      /\ UNCHANGED <<pc, slot, result, toHub, reader, live>>
  BY <1>t DEF AgentLists, TypeOK, callState, tmux
<1>4. r \in Call /\ r = toAgent[a][1] /\ 1 \in 1..Len(toAgent[a])
  BY <1>3, <1>r
<1>5. Held("toAgent", a, 1) /\ CallAt("toAgent", a, 1) = r
  BY <1>4 DEF Held, CallAt, Size, Wire
<1>6. AnswersTo(r) = {}
  BY <1>5, OneAnswer
<1>7. listing'[a] = <<m>> /\ \A b \in AgentConn : b # a => listing'[b] = listing[b]
  BY <1>t, <1>1 DEF TypeOK
<1>8. ASSUME NEW n PROVE OnWay(n)' <=> OnWay(n) \/ n = m
  <2> HIDE DEF m
  <2>1. Len(<<m>>) = 1 /\ <<m>>[1] = m /\ Len(<<>>) = 0
    OBVIOUS
  <2>2. (\E k \in 1..Len(listing'[a]) : n = listing'[a][k]) <=> n = m
    BY <1>7, <2>1
  <2>3. ~\E k \in 1..Len(listing[a]) : n = listing[a][k]
    BY <1>3
  <2>4. OnWay(n)' => OnWay(n) \/ n = m
    BY <1>3, <1>7, <2>2 DEF OnWay
  <2>5. n = m => OnWay(n)'
    BY <2>2 DEF OnWay
  <2>6. OnWay(n) => OnWay(n)'
    BY <1>3, <1>7, <2>3 DEF OnWay
  <2> QED
    BY <2>4, <2>5, <2>6
<1>9. \A q \in Call : q # r => AnswersTo(q)' = AnswersTo(q)
  BY <1>3, <1>8 DEF AnswersTo
<1>10. AnswersTo(r)' = {list}
  <2>1. slot'[r] = <<>>
    BY <1>3, <1>5 DEF Copies, SlotAlone
  <2>2. \A l \in Lists : ~OnWay([call |-> r, list |-> l])
    BY <1>6 DEF AnswersTo
  <2>3. \A l : [call |-> r, list |-> l] = m <=> l = list
    OBVIOUS
  <2> HIDE DEF m
  <2>4. \A l \in Lists : OnWay([call |-> r, list |-> l])' <=> l = list
    <3> SUFFICES ASSUME NEW l \in Lists
                 PROVE  OnWay([call |-> r, list |-> l])' <=> l = list
      OBVIOUS
    <3>1. OnWay([call |-> r, list |-> l])' <=>
               OnWay([call |-> r, list |-> l]) \/ [call |-> r, list |-> l] = m
      BY <1>8
    <3> QED
      BY <2>2, <2>3, <3>1
  <2> QED
    BY <1>2, <2>1, <2>4 DEF AnswersTo
<1> HIDE DEF m
<1>11. PhaseOf' = PhaseOf
  BY <1>3 DEF PhaseOf, Phase
<1>12. CASE pc[r] \in {"write", "wait"}
  <2>1. TakenOf' = [TakenOf EXCEPT ![r] = {list}]
    <3>1. TakenOf'[r] = {list}
      BY <1>3, <1>4, <1>10, <1>12 DEF TakenOf
    <3>2. \A q \in Call : q # r => TakenOf'[q] = TakenOf[q]
      BY <1>3, <1>9 DEF TakenOf
    <3> QED
      BY <1>4, <3>1, <3>2 DEF TakenOf
  <2>2. PhaseOf[r] = "asking" /\ TakenOf[r] = {}
    BY <1>4, <1>6, <1>12 DEF PhaseOf, Phase, TakenOf
  <2>3. \E q \in Call : Query!Take(q)
    BY <1>2, <1>3, <1>4, <1>11, <2>1, <2>2 DEF Query!Take, PhaseOf, TakenOf
  <2> QED
    BY <2>3 DEF Query!Next
<1>13. CASE pc[r] \notin {"write", "wait"}
  <2>1. TakenOf' = TakenOf
    BY <1>3, <1>9, <1>13 DEF TakenOf
  <2> QED
    BY <1>3, <1>11, <2>1 DEF Query!vars, PhaseOf, TakenOf
<1> QED
  BY <1>12, <1>13

LEMMA AskAsks ==
    ASSUME IInv, NEW r \in Call, Ask(r)
    PROVE  Query!Next
<1>t. TypeOK
  BY DEF IInv
<1>1. UNCHANGED <<slot, result, toHub, listing, reader, live>>
  BY DEF Ask, wires, tmux
<1>2. \A q \in Call : AnswersTo(q)' = AnswersTo(q)
  BY <1>1, SameAnswers
<1>3. AnswersTo(r) = {} /\ pc[r] = "lookup"
  BY NotAskedNoAnswer DEF Ask, Asked
<1>4. pc' = [pc EXCEPT ![r] = "done"] \/ pc' = [pc EXCEPT ![r] = "write"]
  BY DEF Ask, Ends, Goto
<1>5. pc \in [Call -> {"idle", "lookup", "write", "wait", "reply", "snapshot", "tell",
                  "done"}]
  BY <1>t DEF TypeOK
<1>6. CASE pc' = [pc EXCEPT ![r] = "done"]
  <2>1. PhaseOf' = [PhaseOf EXCEPT ![r] = "over"] /\ PhaseOf[r] = "new"
    BY <1>3, <1>5, <1>6 DEF PhaseOf, Phase
  <2>2. TakenOf' = [TakenOf EXCEPT ![r] = {}]
    BY <1>2, <1>5, <1>6 DEF TakenOf
  <2>3. \E q \in Call : Query!Fail(q)
    BY <1>1, <2>1, <2>2 DEF Query!Fail, Query!Ends, PhaseOf, TakenOf
  <2> QED
    BY <2>3 DEF Query!Next
<1>7. CASE pc' = [pc EXCEPT ![r] = "write"]
  <2>1. PhaseOf' = [PhaseOf EXCEPT ![r] = "asking"] /\ PhaseOf[r] = "new"
    BY <1>3, <1>5, <1>7 DEF PhaseOf, Phase
  <2>2. TakenOf' = TakenOf
    BY <1>2, <1>3, <1>5, <1>7 DEF TakenOf
  <2>3. \E q \in Call : Query!Ask(q)
    BY <1>1, <2>1, <2>2 DEF Query!Ask, PhaseOf, TakenOf
  <2> QED
    BY <2>3 DEF Query!Next
<1> QED
  BY <1>4, <1>6, <1>7

\* To write the request is no step of the query: nothing was taken before.
LEMMA WriteHides ==
    ASSUME IInv, NEW r \in Call, Write(r)
    PROVE  PhaseOf' = PhaseOf /\ UNCHANGED <<live, result>>
<1>1. pc \in [Call -> {"idle", "lookup", "write", "wait", "reply", "snapshot", "tell",
                       "done"}]
  BY DEF IInv, TypeOK
<1> QED
  BY <1>1 DEF Write, Goto, tmux, PhaseOf, Phase

\* A call that stops waiting returns what was taken for it, or fails.
LEMMA EndEnds ==
    ASSUME IInv, NEW r \in Call, Answer(r) \/ Timeout(r)
    PROVE  Query!Next
<1>t. TypeOK
  BY DEF IInv
<1>1. /\ UNCHANGED <<toHub, listing, reader, live>> /\ pc[r] = "wait"
      /\ \E l \in {"reply", "snapshot", "done"} : pc' = [pc EXCEPT ![r] = l]
  BY DEF Answer, Timeout, TimerFires, Ends, Goto, wires, tmux
<1>2. slot' = slot \/ slot' = [slot EXCEPT ![r] = <<>>]
  BY DEF Answer, Timeout
<1>3. ASSUME NEW q \in Call, q # r PROVE AnswersTo(q)' = AnswersTo(q)
  <2>1. slot'[q] = slot[q]
    BY <1>t, <1>2, <1>3 DEF TypeOK
  <2> QED
    BY <1>1, <2>1, SameAnswers
<1>5. pc \in [Call -> {"idle", "lookup", "write", "wait", "reply", "snapshot", "tell",
                  "done"}]
  BY <1>t DEF TypeOK
<1>6. PhaseOf' = [PhaseOf EXCEPT ![r] = "over"] /\ PhaseOf[r] = "asking"
  BY <1>1, <1>5 DEF PhaseOf, Phase
<1>7. TakenOf' = [TakenOf EXCEPT ![r] = {}]
  <2>1. pc'[r] \notin {"write", "wait"} /\ \A q \in Call : q # r => pc'[q] = pc[q]
    BY <1>1, <1>5
  <2> QED
    BY <1>3, <2>1 DEF TakenOf
<1>8. CASE Answer(r)
  <2> DEFINE list == Head(slot[r])
  <2>1. slot[r] # <<>> /\ slot[r] \in Seq(Lists) /\ result' = [result EXCEPT ![r] = list]
    BY <1>t, <1>8 DEF Answer, TypeOK
  <2>2. list \in Lists
    BY <2>1
  <2>3. list \in TakenOf[r]
    BY <1>1, <2>1, <2>2 DEF TakenOf, AnswersTo
  <2> HIDE DEF list
  <2>4. \E q \in Call : Query!Return(q)
    BY <1>1, <1>6, <1>7, <2>1, <2>3 DEF Query!Return, Query!Ends, PhaseOf, TakenOf
  <2> QED
    BY <2>4 DEF Query!Next
<1>9. CASE Timeout(r)
  <2>1. result' = result
    BY <1>9 DEF Timeout
  <2>2. \E q \in Call : Query!Fail(q)
    BY <1>1, <1>6, <1>7, <2>1 DEF Query!Fail, Query!Ends, PhaseOf, TakenOf
  <2> QED
    BY <2>2 DEF Query!Next
<1> QED
  BY <1>8, <1>9

LEMMA ChangeChanges ==
    ASSUME IInv, NEW s \in Session, SessionsChange(s)
    PROVE  Query!Next
<1>1. UNCHANGED <<pc, slot, result, toHub, listing, reader>>
  BY DEF SessionsChange, callState, wires
<1>2. PhaseOf' = PhaseOf /\ TakenOf' = TakenOf
  BY <1>1, SameAnswers DEF PhaseOf, Phase, TakenOf
<1>3. live' \in Lists
  BY DEF SessionsChange, IInv, TypeOK, Lists
<1>4. Query!Change
  BY <1>1, <1>2, <1>3 DEF Query!Change, PhaseOf, TakenOf
<1> QED
  BY <1>4 DEF Query!Next

LEMMA QueryStep ==
    ASSUME IInv, Copies, [Next]_vars
    PROVE  [Query!Next]_(Query!vars)
<1>t. TypeOK
  BY DEF IInv
<1>p. pc \in [Call -> {"idle", "lookup", "write", "wait", "reply", "snapshot", "tell",
                  "done"}]
  BY <1>t DEF TypeOK
<1>1. ASSUME PhaseOf' = PhaseOf, UNCHANGED <<live, result>>
      PROVE  [Query!Next]_(Query!vars)
  BY <1>1, LoseStep, ListsTakes
<1>2. ASSUME NEW r \in Call, pc[r] = "idle", pc' = [pc EXCEPT ![r] = "lookup"]
      PROVE  PhaseOf' = PhaseOf
  BY <1>p, <1>2 DEF PhaseOf, Phase
<1>3. ASSUME NEW r \in Call, pc[r] \in {"reply", "snapshot", "tell"},
             pc' = [pc EXCEPT ![r] = "tell"] \/ pc' = [pc EXCEPT ![r] = "done"]
      PROVE  PhaseOf' = PhaseOf
  BY <1>p, <1>3 DEF PhaseOf, Phase
<1>4. ASSUME UNCHANGED pc PROVE PhaseOf' = PhaseOf
  BY <1>4 DEF PhaseOf, Phase
<1> QED
  BY <1>t, <1>1, <1>2, <1>3, <1>4, CallEffect, AskAsks, WriteHides, EndEnds, ChangeChanges

\* Every behaviour of the sync is one of the abstract query: each call gets a
\* list that was taken for it alone, at one instant while it waited, or fails,
\* for any number of calls, clients and connections (hub.go:726-761).
THEOREM SyncImplementsQuery == Spec => ImplementsQuery
<1>1. Init => Query!Init
  BY DEF Init, Query!Init, Phase, Lists
<1>2. Spec => [](IInv /\ Copies)
  BY Invariance, CopiesInvariance, PTL
<1>3. IInv /\ Copies /\ [Next]_vars => [Query!Next]_(Query!vars)
  BY QueryStep
<1> QED
  BY <1>1, <1>2, <1>3, PTL DEF Spec, ImplementsQuery, Query!Spec

=============================================================================
