-------------------------- MODULE WebClient_proofs --------------------------
(***************************************************************************)
(* Proofs about the browser, its handler in the hub and the frames they    *)
(* exchange: what Encode makes Decode takes apart; every variable keeps    *)
(* its type, and the browser shows a tab whenever it has one; input goes   *)
(* through; the tabs follow the sessions; the back-off grows.  The page's  *)
(* handlers run over lists, so that there are inductions here over the     *)
(* number of elements handled; they rest on the least element of a set of  *)
(* naturals.                                                               *)
(***************************************************************************)
EXTENDS WebClient, SequenceTheorems, FiniteSetTheorems, WellFoundedInduction, TLAPS

-----------------------------------------------------------------------------
(* Frames *)

\* The two bytes of a length make up the length again.
LEMMA LengthBytes ==
    ASSUME NEW n \in 0..MaxId
    PROVE  /\ PutLength(n) \in Seq(Byte) /\ Len(PutLength(n)) = 2
           /\ PutLength(n)[1] * Base + PutLength(n)[2] = n
<1> USE BaseAssumption
<1>1. n \div Base \in Nat /\ n % Base \in 0..(Base - 1) BY DEF MaxId
<1>2. n = Base * (n \div Base) + (n % Base) BY DEF MaxId
<1>3. n \div Base < Base
  <2>1. SUFFICES ASSUME n \div Base >= Base PROVE FALSE BY <1>1
  <2>2. Base * (n \div Base) >= Base * Base BY <1>1, <2>1
  <2> QED BY <1>1, <1>2, <2>2 DEF MaxId
<1>4. Base * (n \div Base) = (n \div Base) * Base BY <1>1
<1> QED BY <1>1, <1>2, <1>3, <1>4 DEF PutLength, Byte

\* A frame that Encode has made is decoded to what it was made of.
THEOREM DecodeInvertsEncode ==
    ASSUME NEW sid \in Bytes, NEW payload \in Bytes, CanEncode(sid)
    PROVE  Decode(Encode(sid, payload)) = [sid |-> sid, payload |-> payload]
<1> DEFINE n == Len(sid)
           h == PutLength(n)
           u == h \o sid
           data == u \o payload
<1>1. n \in 1..MaxId /\ n \in 0..MaxId /\ n \in Nat /\ Len(payload) \in Nat
  BY BaseAssumption DEF CanEncode, MaxId, Bytes
<1>2. h \in Seq(Byte) /\ Len(h) = 2 /\ h[1] * Base + h[2] = n
  BY <1>1, LengthBytes
<1>3. Encode(sid, payload) = data
  BY DEF Encode
<1>4. sid \in Seq(Byte) /\ payload \in Seq(Byte)
  BY DEF Bytes
<1> HIDE DEF h
\* The three parts in a row, and how to get at them.
<1>5. /\ u \in Seq(Byte) /\ Len(u) = Len(h) + Len(sid)
      /\ \A k \in 1..(Len(h) + Len(sid)) : u[k] = IF k <= Len(h) THEN h[k] ELSE sid[k - Len(h)]
  <2>1. h \in Seq(Byte)
    BY <1>2
  <2>2. sid \in Seq(Byte)
    BY <1>4
  <2> QED BY <2>1, <2>2, ConcatProperties, Zenon
<1>6. /\ u \in Seq(Byte) /\ Len(u) = 2 + n /\ u[1] = h[1] /\ u[2] = h[2]
      /\ \A k \in 1..n : u[2 + k] = sid[k]
  BY <1>1, <1>2, <1>5
<1> HIDE DEF u
<1>7. /\ data \in Seq(Byte) /\ Len(data) = Len(u) + Len(payload)
      /\ \A k \in 1..(Len(u) + Len(payload)) :
            data[k] = IF k <= Len(u) THEN u[k] ELSE payload[k - Len(u)]
  <2>1. u \in Seq(Byte)
    BY <1>6
  <2>2. payload \in Seq(Byte)
    BY <1>4
  <2> QED BY <2>1, <2>2, ConcatProperties, Zenon
<1> HIDE DEF data, n
<1>8. data \in Seq(Byte) /\ Len(data) = 2 + n + Len(payload)
  BY <1>1, <1>6, <1>7
<1>9. data[1] = h[1] /\ data[2] = h[2]
  BY <1>1, <1>6, <1>7
<1>10. \A k \in 1..n : data[2 + k] = sid[k]
  BY <1>1, <1>6, <1>7
<1>11. \A k \in 1..Len(payload) : data[2 + n + k] = payload[k]
  BY <1>1, <1>6, <1>7
\* What Decode makes of them.
<1>12. GetLength(data) = n
  BY <1>2, <1>9 DEF GetLength
<1>13. SubSeq(data, 3, 2 + n) = sid
  BY <1>1, <1>4, <1>8, <1>10 DEF n
<1>14. SubSeq(data, 3 + n, Len(data)) = payload
  BY <1>1, <1>4, <1>8, <1>11
<1>15. ~(Len(data) < 2 \/ GetLength(data) = 0 \/ Len(data) < 2 + GetLength(data))
  BY <1>1, <1>8, <1>12
<1> QED BY <1>3, <1>12, <1>13, <1>14, <1>15 DEF Decode

\* A length that two bytes make up is written as these two bytes.
LEMMA BytesOfLength ==
    ASSUME NEW hi \in Byte, NEW lo \in Byte
    PROVE  /\ hi * Base + lo \in 0..MaxId
           /\ (hi * Base + lo) \div Base = hi /\ (hi * Base + lo) % Base = lo
<1> USE BaseAssumption
<1> DEFINE n == hi * Base + lo
<1>1. hi * Base <= (Base - 1) * Base
  BY DEF Byte
<1>2. n \in 0..MaxId
  BY <1>1 DEF Byte, MaxId
<1>3. n = Base * (n \div Base) + (n % Base) /\ n % Base \in 0..(Base - 1) /\ n \div Base \in Nat
  BY <1>2 DEF MaxId
<1>4. n \div Base = hi
  <2>1. CASE n \div Base > hi
    <3>1. Base * (n \div Base) >= Base * (hi + 1)
      BY <1>3, <2>1 DEF Byte
    <3> QED BY <1>3, <3>1 DEF Byte
  <2>2. CASE n \div Base < hi
    <3>1. Base * hi >= Base * (n \div Base + 1)
      BY <1>3, <2>2 DEF Byte
    <3> QED BY <1>3, <3>1 DEF Byte
  <2> QED BY <1>3, <2>1, <2>2 DEF Byte
<1> QED BY <1>2, <1>3, <1>4 DEF Byte

\* What the hub does with a frame of the browser, and with one of the agent:
\* taking a frame apart and making it anew gives the same frame.
THEOREM EncodeInvertsDecode ==
    ASSUME NEW data \in Bytes, Decode(data) # Malformed
    PROVE  Encode(Decode(data).sid, Decode(data).payload) = data
<1> DEFINE n == GetLength(data)
           h == PutLength(n)
           sid == SubSeq(data, 3, 2 + n)
           payload == SubSeq(data, 3 + n, Len(data))
           u == h \o sid
<1>1. /\ Decode(data) = [sid |-> sid, payload |-> payload]
      /\ ~(Len(data) < 2) /\ n # 0 /\ ~(Len(data) < 2 + n)
  BY DEF Decode
<1>2. data \in Seq(Byte) /\ Len(data) \in Nat /\ data[1] \in Byte /\ data[2] \in Byte
  BY <1>1 DEF Bytes
<1>3. n \in 1..MaxId /\ n \in Nat /\ h = <<data[1], data[2]>>
  <2>1. n = data[1] * Base + data[2]
    BY DEF GetLength
  <2>2. data[1] \in Byte
    BY <1>2
  <2>3. data[2] \in Byte
    BY <1>2
  <2> HIDE DEF n
  <2>4. n \in 0..MaxId /\ n \div Base = data[1] /\ n % Base = data[2]
    BY <2>1, <2>2, <2>3, BytesOfLength
  <2>5. n \in 1..MaxId /\ n \in Nat
    BY <1>1, <2>4, BaseAssumption DEF MaxId
  <2> QED BY <2>4, <2>5 DEF PutLength
<1> HIDE DEF n
<1>4. h \in Seq(Byte) /\ Len(h) = 2 /\ h[1] = data[1] /\ h[2] = data[2]
  BY <1>2, <1>3
<1> HIDE DEF h
<1>5. \A k \in 1..Len(data) : data[k] \in Byte
  BY <1>2
<1>6. /\ sid \in Seq(Byte) /\ Len(sid) = n
      /\ \A k \in 1..n : sid[k] = data[2 + k]
  BY <1>1, <1>2, <1>3, <1>5
<1>7. /\ payload \in Seq(Byte) /\ Len(payload) = Len(data) - 2 - n
      /\ \A k \in 1..(Len(data) - 2 - n) : payload[k] = data[2 + n + k]
  BY <1>1, <1>2, <1>3, <1>5
<1>8. Encode(sid, payload) = u \o payload
  BY <1>3, <1>6 DEF Encode, CanEncode, h
<1> HIDE DEF sid, payload
<1>9. /\ u \in Seq(Byte) /\ Len(u) = Len(h) + Len(sid)
      /\ \A k \in 1..(Len(h) + Len(sid)) : u[k] = IF k <= Len(h) THEN h[k] ELSE sid[k - Len(h)]
  <2>1. h \in Seq(Byte)
    BY <1>4
  <2>2. sid \in Seq(Byte)
    BY <1>6
  <2> QED BY <2>1, <2>2, ConcatProperties, Zenon
<1>10. /\ u \in Seq(Byte) /\ Len(u) = 2 + n
       /\ \A k \in 1..(2 + n) : u[k] = data[k]
  BY <1>3, <1>4, <1>6, <1>9
<1> HIDE DEF u
<1>11. /\ u \o payload \in Seq(Byte) /\ Len(u \o payload) = Len(u) + Len(payload)
       /\ \A k \in 1..(Len(u) + Len(payload)) :
             (u \o payload)[k] = IF k <= Len(u) THEN u[k] ELSE payload[k - Len(u)]
  <2>1. u \in Seq(Byte)
    BY <1>10
  <2>2. payload \in Seq(Byte)
    BY <1>7
  <2> QED BY <2>1, <2>2, ConcatProperties, Zenon
<1>12. /\ u \o payload \in Seq(Byte) /\ Len(u \o payload) = Len(data)
       /\ \A k \in 1..Len(data) : (u \o payload)[k] = data[k]
  BY <1>1, <1>2, <1>3, <1>7, <1>10, <1>11
<1>13. u \o payload = data
  <2> DEFINE w == u \o payload
  <2>1. w \in Seq(Byte)
    BY <1>12
  <2>2. Len(w) = Len(data) /\ \A k \in 1..Len(data) : w[k] = data[k]
    BY <1>12
  <2>3. data \in Seq(Byte)
    BY <1>2
  <2> HIDE DEF w
  <2>4. w = data
    BY <2>1, <2>2, <2>3, SeqEqual
  <2> QED BY <2>4 DEF w
<1> QED BY <1>1, <1>8, <1>13

-----------------------------------------------------------------------------
(* Induction, and functions defined by recursion *)

Smaller == {pair \in Nat \X Nat : pair[1] < pair[2]}

LEMMA LeastElement ==
    ASSUME NEW T \in SUBSET Nat, T # {}
    PROVE  \E n \in T : \A m \in T : n <= m
<1>1. IsWellFoundedOn(Smaller, Nat)
  BY NatLessThanWellFounded DEF OpToRel, Smaller
<1>2. PICK n \in T : \A m \in T : <<m, n>> \notin Smaller
  BY <1>1, WFMin
<1>3. \A m \in T : ~(m < n)
  BY <1>2 DEF Smaller
<1> QED
  BY <1>3

LEMMA Induction ==
    ASSUME NEW T \in SUBSET Nat, 0 \in T, \A n \in T : n + 1 \in T
    PROVE  T = Nat
<1> SUFFICES ASSUME T # Nat PROVE FALSE
  OBVIOUS
<1>1. PICK n \in Nat \ T : \A m \in Nat \ T : n <= m
  BY LeastElement
<1>2. n - 1 \in T
  BY <1>1
<1> QED
  BY <1>1, <1>2

\* f goes from p by n steps.
Goes(f, p, n, step) == f[0] = p /\ \A k \in 1..n : f[k] = step[k][f[k - 1]]

\* Going through a list of steps one after another ends.
LEMMA StepsExist ==
    ASSUME NEW P, NEW p \in P, NEW n \in Nat, NEW step \in [1..n -> [P -> P]]
    PROVE  \E f \in [0..n -> P] : Goes(f, p, n, step)
<1> USE DEF Goes
<1> DEFINE Exists(m) == \E f \in [0..m -> P] : Goes(f, p, m, step)
           T == {m \in Nat : m <= n => Exists(m)}
<1>1. 0 \in T
  <2>1. [k \in 0..0 |-> p] \in [0..0 -> P] /\ Goes([k \in 0..0 |-> p], p, 0, step)
    OBVIOUS
  <2> QED
    BY <2>1
<1>2. ASSUME NEW m \in Nat, m + 1 <= n, Exists(m) PROVE Exists(m + 1)
  <2>1. PICK f \in [0..m -> P] : Goes(f, p, m, step)
    BY <1>2
  <2> DEFINE g == [k \in 0..(m + 1) |-> IF k <= m THEN f[k] ELSE step[m + 1][f[m]]]
  <2>2. f[m] \in P /\ step[m + 1] \in [P -> P]
    BY <1>2
  <2>3. g \in [0..(m + 1) -> P]
    BY <2>2
  <2>4. g[0] = p
    BY <2>1
  <2>5. ASSUME NEW k \in 1..(m + 1) PROVE g[k] = step[k][g[k - 1]]
    <3>1. CASE k <= m
      BY <2>1, <3>1
    <3>2. CASE k = m + 1
      BY <2>2, <3>2
    <3> QED
      BY <3>1, <3>2
  <2> QED
    BY <2>3, <2>4, <2>5
<1> HIDE DEF Exists
<1>3. \A m \in T : m + 1 \in T
  BY <1>2
<1>4. T = Nat
  <2> HIDE DEF T
  <2> QED
    BY <1>1, <1>3, Induction DEF T
<1>5. Exists(n)
  BY <1>4
<1> QED
  BY <1>5 DEF Exists

\* addSession for each of a list: a list of pages, each from the one before.
LEMMA AddAllSteps ==
    ASSUME NEW P, NEW p \in P, NEW list, Len(list) \in Nat,
           \A k \in 1..Len(list) : \A q \in P : Add(q, list[k]) \in P
    PROVE  \E f \in [0..Len(list) -> P] :
              /\ f[0] = p /\ f[Len(list)] = AddAll(p, list)
              /\ \A k \in 1..Len(list) : f[k] = Add(f[k - 1], list[k])
<1> DEFINE n == Len(list)
           Next1(h, k) == Add(h[k - 1], list[k])
           step == [k \in 1..n |-> [q \in P |-> Add(q, list[k])]]
           g == CHOOSE h : h = [k \in 0..n |-> IF k = 0 THEN p ELSE Next1(h, k)]
<1>1. PICK f \in [0..n -> P] : Goes(f, p, n, step)
  <2>1. step \in [1..n -> [P -> P]]
    OBVIOUS
  <2>2. n \in Nat /\ p \in P
    OBVIOUS
  <2> HIDE DEF step, n
  <2> QED
    BY <2>1, <2>2, StepsExist, Zenon
<1> USE DEF Goes
<1>2. ASSUME NEW k \in 1..n PROVE f[k] = Next1(f, k)
  <2>1. f[k - 1] \in P
    <3>1. k - 1 \in 0..n
      OBVIOUS
    <3> HIDE DEF n
    <3> QED
      BY <3>1
  <2>2. f[k] = step[k][f[k - 1]]
    BY <1>1
  <2> QED
    BY <2>1, <2>2
<1>3. f = [k \in 0..n |-> IF k = 0 THEN p ELSE Next1(f, k)]
  BY <1>1, <1>2
<1>4. g = [k \in 0..n |-> IF k = 0 THEN p ELSE Next1(g, k)]
  BY <1>3
<1>5. AddAll(p, list) = g[n]
  BY DEF AddAll
<1> HIDE DEF g
<1> DEFINE T == {k \in Nat : k <= n => g[k] = f[k]}
<1>6. 0 \in T
  BY <1>1, <1>4
<1>7. ASSUME NEW k \in T, k + 1 <= n PROVE g[k + 1] = f[k + 1]
  <2>1. k \in Nat /\ g[k] = f[k] /\ k + 1 \in 1..n
    BY <1>7
  <2>2. f[k + 1] = Next1(f, k + 1)
    BY <1>2, <2>1
  <2>3. g[k + 1] = Next1(g, k + 1)
    BY <1>4, <2>1
  <2> QED
    BY <2>1, <2>2, <2>3
<1>8. T = Nat
  <2> HIDE DEF T
  <2>1. \A k \in T : k + 1 \in T
    BY <1>7 DEF T
  <2> QED
    BY <1>6, <2>1, Induction DEF T
<1>9. n \in T
  BY <1>8
<1> QED
  BY <1>1, <1>2, <1>5, <1>9

\* No tab of keys takes a page of P out of P when it is dropped.
DropsStay(P, keys) == \A k \in 1..Len(keys) : \A q \in P : DropTab(q, keys[k]) \in P

\* f goes from p by dropping the tabs of keys that are not listed.
Drops(f, p, keys, listed) ==
    /\ f[0] = p
    /\ \A k \in 1..Len(keys) :
          f[k] = IF keys[k] \in listed THEN f[k - 1] ELSE DropTab(f[k - 1], keys[k])

\* Dropping one tab after another ends.
LEMMA DropSteps ==
    ASSUME NEW P, NEW p \in P, NEW keys, NEW listed, Len(keys) \in Nat, DropsStay(P, keys)
    PROVE  \E f \in [0..Len(keys) -> P] : Drops(f, p, keys, listed)
<1> USE DEF DropsStay, Drops
<1> DEFINE n == Len(keys)
           step == [k \in 1..n |-> [q \in P |-> IF keys[k] \in listed THEN q
                                                ELSE DropTab(q, keys[k])]]
<1>1. PICK f \in [0..n -> P] : Goes(f, p, n, step)
  <2>1. step \in [1..n -> [P -> P]]
    OBVIOUS
  <2>2. n \in Nat /\ p \in P
    OBVIOUS
  <2> HIDE DEF step, n
  <2> QED
    BY <2>1, <2>2, StepsExist, Zenon
<1> USE DEF Goes
<1>2. ASSUME NEW k \in 1..n
      PROVE  f[k] = IF keys[k] \in listed THEN f[k - 1] ELSE DropTab(f[k - 1], keys[k])
  <2>1. f[k - 1] \in P
    <3>1. k - 1 \in 0..n
      OBVIOUS
    <3> HIDE DEF n
    <3> QED
      BY <3>1
  <2>2. f[k] = step[k][f[k - 1]]
    BY <1>1
  <2> QED
    BY <2>1, <2>2
<1> QED
  BY <1>1, <1>2

\* DropUnlisted: the last of such pages.
LEMMA DropUnlistedIsLast ==
    ASSUME NEW P, NEW p \in P, NEW list, Len(p.tabs) \in Nat,
           NEW f \in [0..Len(p.tabs) -> P], Drops(f, p, p.tabs, ToSet(list))
    PROVE  f[Len(p.tabs)] = DropUnlisted(p, list)
<1> USE DEF Drops
<1> DEFINE n == Len(p.tabs)
           Next1(h, k) == IF p.tabs[k] \in ToSet(list) THEN h[k - 1]
                          ELSE DropTab(h[k - 1], p.tabs[k])
           g == CHOOSE h : h = [k \in 0..n |-> IF k = 0 THEN p ELSE Next1(h, k)]
<1>1. f[0] = p
  OBVIOUS
<1>2. ASSUME NEW k \in 1..n PROVE f[k] = Next1(f, k)
  OBVIOUS
<1>3. f = [k \in 0..n |-> IF k = 0 THEN p ELSE Next1(f, k)]
  BY <1>1, <1>2
<1>4. g = [k \in 0..n |-> IF k = 0 THEN p ELSE Next1(g, k)]
  BY <1>3
<1>5. DropUnlisted(p, list) = g[n]
  BY DEF DropUnlisted
<1> HIDE DEF g
<1> DEFINE T == {k \in Nat : k <= n => g[k] = f[k]}
<1>6. 0 \in T
  BY <1>1, <1>4
<1>7. ASSUME NEW k \in T, k + 1 <= n PROVE g[k + 1] = f[k + 1]
  <2>1. k \in Nat /\ g[k] = f[k] /\ k + 1 \in 1..n
    BY <1>7
  <2>2. f[k + 1] = Next1(f, k + 1)
    BY <1>2, <2>1
  <2>3. g[k + 1] = Next1(g, k + 1)
    BY <1>4, <2>1
  <2> QED
    BY <2>1, <2>2, <2>3
<1>8. T = Nat
  <2> HIDE DEF T
  <2>1. \A k \in T : k + 1 \in T
    BY <1>7 DEF T
  <2> QED
    BY <1>6, <2>1, Induction DEF T
<1>9. n \in T
  BY <1>8
<1>10. n \in Nat /\ DropUnlisted(p, list) = g[n]
  BY <1>5
<1> QED
  <2> HIDE DEF n
  <2>1. f[n] = DropUnlisted(p, list)
    BY <1>9, <1>10
  <2> QED
    BY <2>1 DEF n

-----------------------------------------------------------------------------
(* The page *)

\* What the handlers hand from one to the next: the tabs, one of which is
\* shown if there is one, and what is to be sent.
PageSet == [tabs : Seq(Session), active : Session \union {None}, out : Seq(TabMsgs)]

Shown(p) == p.active \in (IF p.tabs = <<>> THEN {None} ELSE ToSet(p.tabs))

\* The hub will know the tab that is shown, if it knew of a when it began.
Says(p, a) ==
    \/ p.active = None
    \/ p.active = a /\ \A k \in DOMAIN p.out : p.out[k].type # "active"
    \/ \E j \in DOMAIN p.out :
          /\ p.out[j].type = "active" /\ p.out[j].sid = p.active
          /\ \A k \in j + 1 .. Len(p.out) : p.out[k].type # "active"

Pages(a) == {p \in PageSet : IsInjective(p.tabs) /\ Shown(p) /\ Says(p, a)}

\* What is sent after all that was to be sent before.
Sends(q, p) ==
    q.out = p.out \/ \E s \in Session : q.out = Append(p.out, Msg("active", s))

LEMMA NoneIsNoSession == None \notin Session
BY SessionAssumption

LEMMA MsgType ==
    ASSUME NEW s \in Session, NEW t \in {"attach", "active", "detach"}
    PROVE  Msg(t, s) \in TabMsgs /\ Msg(t, s).type = t /\ Msg(t, s).sid = s
BY DEF Msg, TabMsgs

LEMMA WithKeys ==
    ASSUME NEW p \in PageSet, NEW keys \in Seq(Session),
           NEW q, q = [p EXCEPT !.tabs = keys]
    PROVE  q \in PageSet /\ q.tabs = keys /\ q.active = p.active /\ q.out = p.out
BY DEF PageSet

LEMMA WithActive ==
    ASSUME NEW p \in PageSet, NEW s \in Session \union {None},
           NEW q, q = [p EXCEPT !.active = s]
    PROVE  q \in PageSet /\ q.tabs = p.tabs /\ q.active = s /\ q.out = p.out
BY DEF PageSet

LEMMA WithOut ==
    ASSUME NEW p \in PageSet, NEW out \in Seq(TabMsgs),
           NEW q, q = [p EXCEPT !.out = out]
    PROVE  q \in PageSet /\ q.tabs = p.tabs /\ q.active = p.active /\ q.out = out
BY DEF PageSet

LEMMA WithActiveAndOut ==
    ASSUME NEW p \in PageSet, NEW s \in Session \union {None}, NEW out \in Seq(TabMsgs),
           NEW q, q = [p EXCEPT !.active = s, !.out = out]
    PROVE  q \in PageSet /\ q.tabs = p.tabs /\ q.active = s /\ q.out = out
BY DEF PageSet

\* The keys that remain are the others, each once.
LEMMA WithoutKey ==
    ASSUME NEW keys \in Seq(Session), IsInjective(keys), NEW s \in ToSet(keys)
    PROVE  /\ Without(keys, s) \in Seq(Session) /\ IsInjective(Without(keys, s))
           /\ ToSet(Without(keys, s)) = ToSet(keys) \ {s}
<1> DEFINE c == CHOOSE k \in DOMAIN keys : keys[k] = s
           n == Len(keys)
           w == Without(keys, s)
<1>1. c \in 1..n /\ keys[c] = s /\ n \in Nat
  BY DEF ToSet
<1>2. w = SubSeq(keys, 1, c - 1) \o SubSeq(keys, c + 1, n)
  BY DEF Without, RemoveAt
<1> HIDE DEF c, w
<1>3. /\ w \in Seq(Session) /\ Len(w) = n - 1
      /\ \A k \in 1..(n - 1) : w[k] = IF k < c THEN keys[k] ELSE keys[k + 1]
  <2> DEFINE u == SubSeq(keys, 1, c - 1)
             v == SubSeq(keys, c + 1, n)
  <2>1. u \in Seq(Session) /\ Len(u) = c - 1 /\ \A k \in 1..(c - 1) : u[k] = keys[k]
    BY <1>1
  <2>2. v \in Seq(Session) /\ Len(v) = n - c /\ \A k \in 1..(n - c) : v[k] = keys[c + k]
    BY <1>1
  <2> HIDE DEF u, v
  <2>3. /\ u \o v \in Seq(Session) /\ Len(u \o v) = Len(u) + Len(v)
        /\ \A k \in 1..(Len(u) + Len(v)) :
              (u \o v)[k] = IF k <= Len(u) THEN u[k] ELSE v[k - Len(u)]
    BY <2>1, <2>2, ConcatProperties
  <2>4. w = u \o v
    BY <1>2 DEF u, v
  <2> HIDE DEF n
  <2>5. Len(w) = n - 1
    BY <1>1, <2>1, <2>2, <2>3, <2>4
  <2>6. ASSUME NEW k \in 1..(n - 1), k < c PROVE w[k] = keys[k]
    BY <1>1, <2>1, <2>2, <2>3, <2>4, <2>6
  <2>7. ASSUME NEW k \in 1..(n - 1), ~(k < c) PROVE w[k] = keys[k + 1]
    <3>1. k - (c - 1) \in 1..(n - c) /\ c + (k - (c - 1)) = k + 1
      BY <1>1, <2>7
    <3>2. w[k] = v[k - (c - 1)]
      BY <1>1, <2>1, <2>2, <2>3, <2>4, <2>7
    <3> QED
      BY <2>2, <3>1, <3>2
  <2> QED
    BY <2>3, <2>4, <2>5, <2>6, <2>7
<1>4. \A j, k \in 1..n : keys[j] = keys[k] => j = k
  BY DEF IsInjective
<1>5. IsInjective(w)
  BY <1>1, <1>3, <1>4 DEF IsInjective
<1>6. ASSUME NEW k \in 1..(n - 1) PROVE w[k] \in ToSet(keys) \ {s}
  <2>1. PICK j \in 1..n : j # c /\ w[k] = keys[j]
    BY <1>1, <1>3
  <2> QED
    BY <1>1, <1>4, <2>1 DEF ToSet
<1>7. ASSUME NEW t \in ToSet(keys), t # s PROVE t \in ToSet(w)
  <2>1. PICK k \in 1..n : keys[k] = t
    BY DEF ToSet
  <2>2. CASE k < c
    BY <1>1, <1>3, <2>1, <2>2 DEF ToSet
  <2>3. CASE k > c
    <3>1. k - 1 \in 1..(n - 1) /\ w[k - 1] = t
      BY <1>1, <1>3, <2>1, <2>3
    <3> QED
      BY <1>3, <3>1 DEF ToSet
  <2> QED
    BY <1>1, <1>7, <2>1, <2>2, <2>3
<1>8. ToSet(w) = ToSet(keys) \ {s}
  <2>1. ToSet(w) \subseteq ToSet(keys) \ {s}
    BY <1>1, <1>3, <1>6 DEF ToSet
  <2> QED
    BY <1>7, <2>1
<1> QED
  BY <1>3, <1>5, <1>8 DEF w

LEMMA AppendedKey ==
    ASSUME NEW keys \in Seq(Session), NEW s \in Session
    PROVE  /\ Append(keys, s) \in Seq(Session) /\ Append(keys, s) # <<>>
           /\ ToSet(Append(keys, s)) = ToSet(keys) \union {s}
           /\ IsInjective(keys) /\ s \notin ToSet(keys) => IsInjective(Append(keys, s))
<1>1. /\ Append(keys, s) \in Seq(Session) /\ Len(Append(keys, s)) = Len(keys) + 1
      /\ \A k \in 1..Len(keys) : Append(keys, s)[k] = keys[k]
      /\ Append(keys, s)[Len(keys) + 1] = s
  OBVIOUS
<1>2. ToSet(Append(keys, s)) = ToSet(keys) \union {s}
  BY <1>1 DEF ToSet
<1>3. ASSUME IsInjective(keys), s \notin ToSet(keys) PROVE IsInjective(Append(keys, s))
  BY <1>1, <1>3 DEF IsInjective, ToSet
<1> QED
  BY <1>1, <1>2, <1>3

LEMMA KeysShown ==
    ASSUME NEW keys \in Seq(Session)
    PROVE  /\ ToSet(keys) \subseteq Session
           /\ keys = <<>> <=> ToSet(keys) = {}
           /\ keys # <<>> => Head(keys) \in ToSet(keys)
BY DEF ToSet

\* setActive: the tabs stay as they are, and the hub is told.
LEMMA ActivateStays ==
    ASSUME NEW a, NEW s \in Session, NEW p \in PageSet, IsInjective(p.tabs),
           (Shown(p) /\ Says(p, a)) \/ s \in ToSet(p.tabs)
    PROVE  /\ Activate(p, s) \in Pages(a) /\ Sends(Activate(p, s), p)
           /\ Activate(p, s).tabs = p.tabs
<1> DEFINE m == Msg("active", s)
           q == [p EXCEPT !.active = s, !.out = Append(@, m)]
<1>1. CASE s \notin ToSet(p.tabs)
  BY <1>1 DEF Activate, Pages, Sends
<1>2. CASE s \in ToSet(p.tabs)
  <2>1. /\ p.tabs \in Seq(Session) /\ p.out \in Seq(TabMsgs)
        /\ m \in TabMsgs /\ m.type = "active" /\ m.sid = s
    BY MsgType DEF PageSet
  <2> HIDE DEF m
  <2>2. Append(p.out, m) \in Seq(TabMsgs)
    BY <2>1
  <2>3. /\ q \in PageSet /\ q.tabs = p.tabs /\ q.active = s /\ q.out = Append(p.out, m)
    <3>1. q = [p EXCEPT !.active = s, !.out = Append(p.out, m)]
      OBVIOUS
    <3>2. s \in Session \union {None}
      OBVIOUS
    <3> HIDE DEF q
    <3> QED
      BY <2>2, <3>1, <3>2 DEF PageSet
  <2>4. Activate(p, s) = q
    BY <1>2 DEF Activate, m
  <2> HIDE DEF q
  <2>5. Shown(q)
    BY <1>2, <2>1, <2>3, KeysShown DEF Shown
  <2>6. Says(q, a)
    <3>1. Len(q.out) \in DOMAIN q.out /\ q.out[Len(q.out)] = m
      BY <2>1, <2>3
    <3>2. \A k \in Len(q.out) + 1 .. Len(q.out) : q.out[k].type # "active"
      BY <2>1, <2>3
    <3> QED
      BY <2>1, <2>3, <3>1, <3>2 DEF Says
  <2> QED
    BY <2>3, <2>4, <2>5, <2>6 DEF Pages, Sends, m
<1> QED
  BY <1>1, <1>2

\* addSession
LEMMA AddStays ==
    ASSUME NEW a, NEW s \in Session, NEW p \in Pages(a)
    PROVE  /\ Add(p, s) \in Pages(a) /\ Sends(Add(p, s), p)
           /\ ToSet(Add(p, s).tabs) = ToSet(p.tabs) \union {s}
<1> DEFINE q == [p EXCEPT !.tabs = Append(@, s)]
<1>1. /\ p \in PageSet /\ p.tabs \in Seq(Session) /\ p.out \in Seq(TabMsgs)
      /\ IsInjective(p.tabs) /\ Shown(p) /\ Says(p, a)
  BY DEF Pages, PageSet
<1>2. CASE s \in ToSet(p.tabs)
  BY <1>2 DEF Add, Sends
<1>3. CASE s \notin ToSet(p.tabs)
  <2> DEFINE keys == Append(p.tabs, s)
  <2>1. /\ keys \in Seq(Session) /\ keys # <<>> /\ IsInjective(keys)
        /\ ToSet(keys) = ToSet(p.tabs) \union {s}
    BY <1>1, <1>3, AppendedKey
  <2> HIDE DEF keys
  <2>2. q \in PageSet /\ q.tabs = keys /\ q.active = p.active /\ q.out = p.out
    <3>1. q = [p EXCEPT !.tabs = keys]
      BY DEF keys
    <3> QED
      BY <1>1, <2>1, <3>1, WithKeys
  <2>3. Add(p, s) = IF p.active = None THEN Activate(q, s) ELSE q
    BY <1>3 DEF Add
  <2> HIDE DEF q
  <2>4. CASE p.active = None
    BY <2>1, <2>2, <2>3, <2>4, ActivateStays DEF Sends
  <2>5. CASE p.active # None
    <3>1. p.active \in ToSet(p.tabs)
      BY <1>1, <2>5 DEF Shown
    <3>2. Shown(q)
      BY <2>1, <2>2, <3>1 DEF Shown
    <3>3. Says(q, a)
      BY <1>1, <2>2 DEF Says
    <3> QED
      BY <2>1, <2>2, <2>3, <2>5, <3>2, <3>3 DEF Pages, Sends
  <2> QED
    BY <2>4, <2>5
<1> QED
  BY <1>2, <1>3

\* closeSession
LEMMA DropTabStays ==
    ASSUME NEW a, NEW s \in Session, NEW p \in Pages(a)
    PROVE  /\ DropTab(p, s) \in Pages(a) /\ Sends(DropTab(p, s), p)
           /\ ToSet(DropTab(p, s).tabs) = ToSet(p.tabs) \ {s}
<1> DEFINE q == [p EXCEPT !.tabs = Without(@, s)]
           none == [q EXCEPT !.active = None]
<1>1. /\ p \in PageSet /\ p.tabs \in Seq(Session) /\ p.out \in Seq(TabMsgs)
      /\ IsInjective(p.tabs) /\ Shown(p) /\ Says(p, a)
  BY DEF Pages, PageSet
<1>2. CASE s \notin ToSet(p.tabs)
  BY <1>2 DEF DropTab, Sends
<1>3. CASE s \in ToSet(p.tabs)
  <2> DEFINE keys == Without(p.tabs, s)
  <2>1. /\ keys \in Seq(Session) /\ IsInjective(keys)
        /\ ToSet(keys) = ToSet(p.tabs) \ {s}
    BY <1>1, <1>3, WithoutKey
  <2> HIDE DEF keys
  <2>2. q \in PageSet /\ q.tabs = keys /\ q.active = p.active /\ q.out = p.out
    <3>1. q = [p EXCEPT !.tabs = keys]
      BY DEF keys
    <3> QED
      BY <1>1, <2>1, <3>1, WithKeys
  <2>3. DropTab(p, s) = IF p.active # s THEN q
                        ELSE IF q.tabs = <<>> THEN none ELSE Activate(q, Head(q.tabs))
    BY <1>3 DEF DropTab
  <2> HIDE DEF q
  <2>4. CASE p.active # s
    <3>1. p.active \in ToSet(p.tabs)
      BY <1>1, <1>3, KeysShown DEF Shown
    <3>2. Shown(q)
      BY <2>1, <2>2, <2>4, <3>1, KeysShown DEF Shown
    <3>3. Says(q, a)
      BY <1>1, <2>2 DEF Says
    <3> QED
      BY <2>1, <2>2, <2>3, <2>4, <3>2, <3>3 DEF Pages, Sends
  <2>5. CASE p.active = s /\ q.tabs = <<>>
    <3>1. none \in PageSet /\ none.tabs = q.tabs /\ none.active = None /\ none.out = q.out
      BY <2>2, WithActive
    <3> HIDE DEF none
    <3> QED
      BY <2>1, <2>2, <2>3, <2>5, <3>1 DEF Pages, Sends, Shown, Says
  <2>6. CASE p.active = s /\ q.tabs # <<>>
    <3>1. Head(q.tabs) \in ToSet(q.tabs) /\ Head(q.tabs) \in Session
      BY <2>1, <2>2, <2>6, KeysShown
    <3> QED
      BY <2>1, <2>2, <2>3, <2>6, <3>1, ActivateStays DEF Sends
  <2> QED
    BY <2>4, <2>5, <2>6
<1> QED
  BY <1>2, <1>3

LEMMA AddAllGoes ==
    ASSUME NEW a, NEW list, Len(list) \in Nat, \A k \in 1..Len(list) : list[k] \in Session,
           NEW p \in Pages(a)
    PROVE  \E f \in [0..Len(list) -> Pages(a)] :
              /\ f[0] = p /\ f[Len(list)] = AddAll(p, list)
              /\ \A k \in 1..Len(list) : f[k] = Add(f[k - 1], list[k])
<1>1. \A k \in 1..Len(list) : \A q \in Pages(a) : Add(q, list[k]) \in Pages(a)
  BY AddStays
<1> QED
  BY <1>1, AddAllSteps

LEMMA AddAllStays ==
    ASSUME NEW a, NEW list \in Seq(Session), NEW p \in Pages(a)
    PROVE  /\ AddAll(p, list) \in Pages(a)
           /\ ToSet(AddAll(p, list).tabs) = ToSet(p.tabs) \union ToSet(list)
<1> DEFINE n == Len(list)
<1>1. n \in Nat /\ \A k \in 1..n : list[k] \in Session
  OBVIOUS
<1>2. PICK f \in [0..n -> Pages(a)] : /\ f[0] = p /\ f[n] = AddAll(p, list)
                                      /\ \A k \in 1..n : f[k] = Add(f[k - 1], list[k])
  BY <1>1, AddAllGoes
<1> DEFINE Added(k) == {list[j] : j \in 1..k}
           T == {k \in Nat : k <= n => ToSet(f[k].tabs) = ToSet(p.tabs) \union Added(k)}
<1>3. 0 \in T
  <2>1. Added(0) = {}
    OBVIOUS
  <2> QED
    BY <1>2, <2>1
<1>4. ASSUME NEW k \in Nat, k + 1 <= n, ToSet(f[k].tabs) = ToSet(p.tabs) \union Added(k)
      PROVE  ToSet(f[k + 1].tabs) = ToSet(p.tabs) \union Added(k + 1)
  <2>1. k + 1 \in 1..n /\ k \in 0..n
    BY <1>1, <1>4
  <2>2. f[k + 1] = Add(f[k], list[k + 1]) /\ f[k] \in Pages(a)
    BY <1>2, <2>1
  <2>3. ToSet(f[k + 1].tabs) = ToSet(f[k].tabs) \union {list[k + 1]}
    BY <1>1, <2>1, <2>2, AddStays
  <2>4. Added(k + 1) = Added(k) \union {list[k + 1]}
    OBVIOUS
  <2> HIDE DEF Added
  <2> QED
    BY <1>4, <2>3, <2>4
<1>5. T = Nat
  <2> HIDE DEF Added
  <2>1. \A k \in T : k + 1 \in T
    BY <1>1, <1>4
  <2> HIDE DEF T
  <2> QED
    BY <1>3, <2>1, Induction DEF T
<1>6. ToSet(f[n].tabs) = ToSet(p.tabs) \union Added(n)
  <2> HIDE DEF Added
  <2> QED
    BY <1>1, <1>5
<1>7. Added(n) = ToSet(list)
  BY DEF ToSet
<1> QED
  BY <1>1, <1>2, <1>6, <1>7

LEMMA DropUnlistedStays ==
    ASSUME NEW a, NEW list \in Seq(Session), NEW p \in Pages(a)
    PROVE  /\ DropUnlisted(p, list) \in Pages(a)
           /\ ToSet(DropUnlisted(p, list).tabs) = ToSet(p.tabs) \intersect ToSet(list)
<1> DEFINE n == Len(p.tabs)
           keys == p.tabs
<1>1. p.tabs \in Seq(Session)
  BY DEF Pages, PageSet
<1>2. n \in Nat /\ \A k \in 1..n : p.tabs[k] \in Session
  BY <1>1
<1>3. PICK f \in [0..n -> Pages(a)] :
              /\ f[0] = p /\ f[n] = DropUnlisted(p, list)
              /\ \A k \in 1..n : f[k] = IF p.tabs[k] \in ToSet(list) THEN f[k - 1]
                                        ELSE DropTab(f[k - 1], p.tabs[k])
  <2>1. \A k \in 1..n : \A q \in Pages(a) : DropTab(q, p.tabs[k]) \in Pages(a)
    BY <1>2, DropTabStays
  <2> DEFINE listed == ToSet(list)
  <2>2. Len(keys) \in Nat /\ p \in Pages(a)
    BY <1>2
  <2>3. DropsStay(Pages(a), keys)
    BY <2>1 DEF DropsStay
  <2> HIDE DEF keys, listed
  <2>4. PICK f \in [0..Len(keys) -> Pages(a)] : Drops(f, p, keys, listed)
    BY <2>2, <2>3, DropSteps, Zenon
  <2> USE DEF keys, listed
  <2>5. f[n] = DropUnlisted(p, list)
    BY <1>2, <2>4, DropUnlistedIsLast, Zenon
  <2> QED
    BY <2>4, <2>5 DEF Drops
<1> DEFINE Gone(k) == {p.tabs[j] : j \in 1..k} \ ToSet(list)
           T == {k \in Nat : k <= n => ToSet(f[k].tabs) = ToSet(p.tabs) \ Gone(k)}
<1>4. 0 \in T
  <2>1. Gone(0) = {}
    OBVIOUS
  <2> QED
    BY <1>3, <2>1
<1>5. ASSUME NEW k \in Nat, k + 1 <= n, ToSet(f[k].tabs) = ToSet(p.tabs) \ Gone(k)
      PROVE  ToSet(f[k + 1].tabs) = ToSet(p.tabs) \ Gone(k + 1)
  <2>1. k + 1 \in 1..n /\ k \in 0..n
    BY <1>2, <1>5
  <2>2. /\ f[k] \in Pages(a)
        /\ f[k + 1] = IF p.tabs[k + 1] \in ToSet(list) THEN f[k]
                      ELSE DropTab(f[k], p.tabs[k + 1])
    BY <1>3, <2>1
  <2>3. {p.tabs[j] : j \in 1..(k + 1)} = {p.tabs[j] : j \in 1..k} \union {p.tabs[k + 1]}
    OBVIOUS
  <2>4. CASE p.tabs[k + 1] \in ToSet(list)
    <3>1. Gone(k + 1) = Gone(k)
      BY <2>3, <2>4
    <3> HIDE DEF Gone
    <3> QED
      BY <1>5, <2>2, <2>4, <3>1
  <2>5. CASE p.tabs[k + 1] \notin ToSet(list)
    <3>1. Gone(k + 1) = Gone(k) \union {p.tabs[k + 1]}
      BY <2>3, <2>5
    <3>2. ToSet(f[k + 1].tabs) = ToSet(f[k].tabs) \ {p.tabs[k + 1]}
      BY <1>2, <2>1, <2>2, <2>5, DropTabStays
    <3> HIDE DEF Gone
    <3> QED
      BY <1>5, <3>1, <3>2
  <2> QED
    BY <2>4, <2>5
<1>6. T = Nat
  <2> HIDE DEF Gone
  <2>1. \A k \in T : k + 1 \in T
    BY <1>2, <1>5
  <2> HIDE DEF T
  <2> QED
    BY <1>4, <2>1, Induction DEF T
<1>7. ToSet(f[n].tabs) = ToSet(p.tabs) \ Gone(n)
  <2> HIDE DEF Gone
  <2> QED
    BY <1>2, <1>6
<1>8. Gone(n) = ToSet(p.tabs) \ ToSet(list)
  BY <1>1 DEF ToSet
<1> QED
  BY <1>2, <1>3, <1>7, <1>8

\* applySessionsSync: afterwards the tabs are the sessions of the list.
LEMMA ApplySyncStays ==
    ASSUME NEW a, NEW list \in Seq(Session), NEW p \in Pages(a)
    PROVE  /\ ApplySync(p, list) \in Pages(a)
           /\ ToSet(ApplySync(p, list).tabs) = ToSet(list)
<1> DEFINE q == DropUnlisted(p, list)
<1>1. q \in Pages(a) /\ ToSet(q.tabs) = ToSet(p.tabs) \intersect ToSet(list)
  BY DropUnlistedStays
<1> HIDE DEF q
<1>2. AddAll(q, list) \in Pages(a) /\ ToSet(AddAll(q, list).tabs) = ToSet(q.tabs) \union ToSet(list)
  BY <1>1, AddAllStays
<1> QED
  BY <1>1, <1>2 DEF ApplySync, q

\* A list of tmux names each session once.
LEMMA InOrderLists ==
    ASSUME NEW S \in SUBSET Session
    PROVE  InOrder(S) \in Seq(Session)
<1>1. CASE S = {}
  BY <1>1 DEF InOrder
<1>2. CASE S # {}
  <2>1. IsFiniteSet(S)
    BY SessionAssumption, FS_Subset
  <2>2. PICK n \in Nat : ExistsBijection(1..n, S) /\ Cardinality(S) = n
    BY <2>1, FS_CardinalityType
  <2>3. PICK b : b \in Bijection(1..n, S)
    BY <2>2 DEF ExistsBijection
  <2>4. b \in [1..n -> S] /\ IsInjective(b)
    BY <2>3 DEF Bijection, Injection, IsInjective
  <2>5. SetToSeq(S) \in [1..n -> S]
    BY <2>2, <2>4 DEF SetToSeq
  <2>6. SetToSeq(S) \in [1..n -> Session]
    BY <2>5
  <2>7. SetToSeq(S) \in Seq(Session)
    BY <2>2, <2>6, SeqDef
  <2> QED
    BY <1>2, <2>7 DEF InOrder
<1> QED
  BY <1>1, <1>2

-----------------------------------------------------------------------------
(* Types *)

LEMMA EncodeType ==
    ASSUME NEW sid \in Bytes, NEW payload \in Bytes, CanEncode(sid)
    PROVE  Encode(sid, payload) \in Bytes
<1>1. Len(sid) \in 0..MaxId
  BY BaseAssumption DEF CanEncode, MaxId
<1>2. PutLength(Len(sid)) \in Seq(Byte)
  BY <1>1, LengthBytes
<1> QED
  BY <1>2 DEF Encode, Bytes

\* What a frame is taken apart into fits into one again.
LEMMA DecodeType ==
    ASSUME NEW data \in Bytes, Decode(data) # Malformed
    PROVE  Encode(Decode(data).sid, Decode(data).payload) \in Bytes
BY EncodeInvertsDecode

\* The keystroke.
LEMMA PayloadType == <<1>> \in Bytes
BY BaseAssumption DEF Byte, Bytes

Powers == {1, 2, 4, 8, 16, 32}

LEMMA PowersOfTwo ==
    ASSUME NEW n \in 0..5
    PROVE  /\ 2^n \in Powers /\ (n = 5 => 2^n = 32)
           /\ n + 1 \in 0..5 => 2^(n + 1) = 2 * 2^n
<1>1. CASE n = 0
  BY <1>1 DEF Powers
<1>2. CASE n = 1
  BY <1>2 DEF Powers
<1>3. CASE n = 2
  BY <1>3 DEF Powers
<1>4. CASE n = 3
  BY <1>4 DEF Powers
<1>5. CASE n = 4
  BY <1>5 DEF Powers
<1>6. CASE n = 5
  BY <1>6 DEF Powers
<1> QED
  BY <1>1, <1>2, <1>3, <1>4, <1>5, <1>6

LEMMA PowerType ==
    ASSUME NEW n \in 0..5
    PROVE  2^n \in Powers
BY PowersOfTwo

LEMMA NextPower ==
    ASSUME NEW n \in 0..5, n + 1 \in 0..5
    PROVE  2^(n + 1) = 2 * 2^n
BY PowersOfTwo

LEMMA CapType == Cap \in Nat /\ 1000 <= Cap /\ Cap <= 16000
BY SessionAssumption

LEMMA LongestPause == MaxStep \in 0..5 /\ 500 * 2^MaxStep >= Cap
<1> DEFINE Pause == [n \in 0..5 |-> 500 * 2^n]
           Enough == {n \in 0..5 : Pause[n] >= Cap}
<1>1. \A n \in 0..5 : Pause[n] = 500 * 2^n
  OBVIOUS
<1> HIDE DEF Pause
<1>2. ASSUME NEW n \in 0..5 PROVE Pause[n] \in Nat /\ (n = 5 => Pause[n] = 16000)
  <2>1. 2^n \in Powers /\ (n = 5 => 2^n = 32)
    BY PowersOfTwo, Zenon
  <2> QED
    BY <1>1, <2>1 DEF Powers
<1>3. 5 \in Enough /\ Enough \subseteq Nat
  <2>1. Pause[5] = 16000
    BY <1>2
  <2> QED
    BY <2>1, CapType
<1>4. PICK n \in Enough : \A m \in Enough : n <= m
  <2> HIDE DEF Enough
  <2> QED
    BY <1>3, LeastElement
<1>5. n \in 0..5 /\ 500 * 2^n >= Cap /\ \A k \in 0..(n - 1) : 500 * 2^k < Cap
  <2>1. ASSUME NEW k \in 0..(n - 1) PROVE 500 * 2^k < Cap
    <3>1. k \in 0..5 /\ k \notin Enough
      BY <1>4, <2>1
    <3>2. Pause[k] < Cap
      BY <1>2, <3>1, CapType
    <3> QED
      BY <1>1, <3>1, <3>2
  <2> QED
    BY <1>1, <1>4, <2>1
<1> QED
  BY <1>5, Zenon DEF MaxStep

LEMMA ZeroTypes == 0 \in 0..MaxStep /\ 0 \in 0..Cap
BY LongestPause, CapType

LEMMA BackoffType ==
    ASSUME NEW n \in 0..5, NEW base \in {500, 1000}
    PROVE  Backoff(n, base) \in 1..Cap
<1>1. 2^n \in Powers
  BY PowerType
<1>2. base * 2^n \in Nat \ {0}
  BY <1>1 DEF Powers
<1> QED
  BY <1>2, CapType DEF Backoff

LEMMA NextAttemptType ==
    ASSUME NEW n \in 0..MaxStep
    PROVE  n \in 0..5 /\ NextAttempt(n) \in 0..MaxStep
BY LongestPause DEF NextAttempt

\* Each pause is longer than the one before, or the longest.
LEMMA BackoffSteps ==
    ASSUME NEW n \in 0..5, n <= MaxStep, NEW base \in {500, 1000}
    PROVE  \/ Backoff(NextAttempt(n), base) > Backoff(n, base)
           \/ Backoff(NextAttempt(n), base) = Cap
<1>1. MaxStep \in 0..5 /\ 500 * 2^MaxStep >= Cap
  BY LongestPause
<1>2. 2^n \in Powers /\ (n + 1 \in 0..5 => 2^(n + 1) = 2 * 2^n)
  BY PowerType, NextPower
<1>3. CASE n < MaxStep
  <2>1. NextAttempt(n) = n + 1 /\ 2^(n + 1) = 2 * 2^n
    BY <1>1, <1>2, <1>3 DEF NextAttempt
  <2>2. base * 2^n \in Nat \ {0} /\ base * (2 * 2^n) = 2 * (base * 2^n)
    BY <1>2 DEF Powers
  <2>3. base * 2^(n + 1) > base * 2^n /\ base * 2^(n + 1) \in Nat
    BY <2>1, <2>2
  <2> QED
    BY <2>1, <2>2, <2>3, CapType DEF Backoff
<1>4. CASE n = MaxStep
  <2>1. NextAttempt(n) = n /\ 500 * 2^n >= Cap
    BY <1>1, <1>4 DEF NextAttempt
  <2>2. base * 2^n >= 500 * 2^n /\ base * 2^n \in Nat /\ 500 * 2^n \in Nat
    BY <1>2 DEF Powers
  <2>3. ~(base * 2^n < Cap)
    BY <2>1, <2>2, CapType
  <2> QED
    BY <2>1, <2>3 DEF Backoff
<1> QED
  BY <1>1, <1>3, <1>4

LEMMA PageIsOne ==
    ASSUME TypeOK
    PROVE  Page \in Pages(active) /\ Page.tabs = tabs /\ Page.active = active /\ Page.out = <<>>
<1>1. Page.tabs = tabs /\ Page.active = active /\ Page.out = <<>>
  BY DEF Page
<1>2. tabs \in Seq(Session) /\ IsInjective(tabs)
  BY DEF TypeOK
<1>3. active \in (IF tabs = <<>> THEN {None} ELSE ToSet(tabs)) /\ active \in Session \union {None}
  BY <1>2, KeysShown DEF TypeOK
<1>4. Page \in PageSet
  BY <1>2, <1>3 DEF Page, PageSet
<1> QED
  BY <1>1, <1>2, <1>3, <1>4 DEF Pages, Shown, Says

\* What sends to the hub that a sync is needed.
AsksForSync(p) == \E k \in DOMAIN p.out : p.out[k].type \in {"attach", "detach"}

LEMMA SendsKeepsAsking ==
    ASSUME NEW p \in PageSet, NEW q, Sends(q, p), AsksForSync(p)
    PROVE  AsksForSync(q)
<1>1. p.out \in Seq(TabMsgs)
  BY DEF PageSet
<1>2. PICK k \in DOMAIN p.out : p.out[k].type \in {"attach", "detach"}
  BY DEF AsksForSync
<1>3. k \in DOMAIN q.out /\ q.out[k] = p.out[k]
  BY <1>1 DEF Sends
<1> QED
  BY <1>2, <1>3 DEF AsksForSync

\* What the user changes at the tabs.
LEMMA TabActs ==
    ASSUME TypeOK, NEW s \in Session, NewTab(s) \/ CloseTab(s) \/ Select(s)
    PROVE  \E p \in Pages(active) : Show(p) /\ (p.tabs = tabs \/ AsksForSync(p))
<1>1. Page \in Pages(active) /\ Page.tabs = tabs /\ Page.active = active /\ Page.out = <<>>
  BY PageIsOne
<1>2. /\ Page \in PageSet /\ IsInjective(Page.tabs) /\ Shown(Page)
  BY <1>1 DEF Pages
<1> DEFINE p == Activate(Page, s)
<1>3. p \in Pages(active) /\ p.tabs = tabs
  BY <1>1, <1>2, ActivateStays DEF Pages
<1>4. CASE Select(s)
  BY <1>3, <1>4 DEF Select
<1>5. CASE NewTab(s)
  <2>1. CASE s \in ToSet(tabs)
    BY <1>3, <1>5, <2>1 DEF NewTab
  <2>2. CASE s \notin ToSet(tabs)
    <3> DEFINE q == Add(Page, s)
               m == Msg("attach", s)
               r == [q EXCEPT !.out = Append(@, m)]
               t == Activate(r, s)
    <3>1. /\ q \in Pages(active) /\ ToSet(q.tabs) = ToSet(tabs) \union {s}
      BY <1>1, AddStays
    <3>2. m \in TabMsgs /\ m.type = "attach"
      BY MsgType
    <3>3. Show(t)
      BY <1>5, <2>2 DEF NewTab
    <3> HIDE DEF q, m
    <3>4. q \in PageSet /\ q.out \in Seq(TabMsgs) /\ IsInjective(q.tabs)
      BY <3>1 DEF Pages, PageSet
    <3>5. r \in PageSet /\ r.tabs = q.tabs /\ r.out = Append(q.out, m)
      <4> DEFINE out == Append(q.out, m)
      <4>1. out \in Seq(TabMsgs) /\ r = [q EXCEPT !.out = out]
        BY <3>2, <3>4
      <4> HIDE DEF out, r
      <4>2. r \in PageSet /\ r.tabs = q.tabs /\ r.out = out
        BY <3>4, <4>1, WithOut
      <4> QED
        BY <4>2 DEF out
    <3> HIDE DEF r
    <3>6. s \in ToSet(r.tabs) /\ IsInjective(r.tabs)
      BY <3>1, <3>4, <3>5
    <3>7. t \in Pages(active) /\ Sends(t, r)
      BY <3>5, <3>6, ActivateStays
    <3>8. AsksForSync(r)
      <4>1. Len(r.out) \in DOMAIN r.out /\ r.out[Len(r.out)] = m
        BY <3>2, <3>4, <3>5
      <4> QED
        BY <3>2, <4>1 DEF AsksForSync
    <3>9. AsksForSync(t)
      BY <3>5, <3>7, <3>8, SendsKeepsAsking
    <3> QED
      BY <3>3, <3>7, <3>9
  <2> QED
    BY <2>1, <2>2
<1>6. CASE CloseTab(s)
  <2> DEFINE m == Msg("detach", s)
             r == [Page EXCEPT !.out = <<m>>]
             t == DropTab(r, s)
  <2>1. m \in TabMsgs /\ m.type = "detach"
    BY MsgType
  <2>2. Show(t)
    BY <1>6 DEF CloseTab
  <2> HIDE DEF m
  <2>3. r \in PageSet /\ r.tabs = tabs /\ r.active = active /\ r.out = <<m>>
    <3> DEFINE out == <<m>>
               q == Page
    <3>1. out \in Seq(TabMsgs) /\ r = [q EXCEPT !.out = out] /\ q \in PageSet
      BY <1>2, <2>1
    <3> HIDE DEF out, r, q
    <3>2. r \in PageSet /\ r.tabs = q.tabs /\ r.active = q.active /\ r.out = out
      BY <3>1, WithOut
    <3> QED
      BY <1>1, <3>2 DEF out, q
  <2> HIDE DEF r
  <2>4. r \in Pages(active)
    <3>1. Says(r, active)
      BY <2>1, <2>3 DEF Says
    <3> QED
      BY <1>1, <1>2, <2>3, <3>1 DEF Pages, Shown
  <2>5. t \in Pages(active) /\ Sends(t, r)
    BY <2>4, DropTabStays
  <2>6. AsksForSync(r)
    BY <2>1, <2>3 DEF AsksForSync
  <2>7. AsksForSync(t)
    BY <2>3, <2>5, <2>6, SendsKeepsAsking
  <2> QED
    BY <2>2, <2>5, <2>7
<1> QED
  BY <1>4, <1>5, <1>6

LEMMA ShowTypes ==
    ASSUME TypeOK, NEW p \in Pages(active), Show(p)
    PROVE  /\ tabs' \in Seq(Session) /\ IsInjective(tabs')
           /\ active' \in (IF tabs' = <<>> THEN {None} ELSE ToSet(tabs'))
           /\ toHub' \in Seq(ToHubMsgs)
<1>1. /\ p.tabs \in Seq(Session) /\ IsInjective(p.tabs) /\ Shown(p)
      /\ p.out \in Seq(TabMsgs)
  BY DEF Pages, PageSet
<1>2. p.out \in Seq(ToHubMsgs) /\ toHub \in Seq(ToHubMsgs)
  <2>1. TabMsgs \subseteq ToHubMsgs
    BY DEF ToHubMsgs
  <2> QED
    BY <1>1, <2>1, SeqMonotonic DEF TypeOK
<1>3. toHub \o p.out \in Seq(ToHubMsgs)
  BY <1>2, ConcatProperties
<1> QED
  BY <1>1, <1>2, <1>3 DEF Show, Shown

LEMMA LoadPageShows ==
    ASSUME TypeOK, LoadPage
    PROVE  \E p \in Pages(active) : Show(p)
<1> DEFINE all == IF claim = None /\ agent THEN InOrder(live) ELSE <<>>
           list == IF all = <<>> THEN <<Cfg>> ELSE all
<1>1. InOrder(live) \in Seq(Session)
  BY InOrderLists DEF TypeOK
<1>2. <<Cfg>> \in Seq(Session)
  BY SessionAssumption
<1>3. list \in Seq(Session)
  BY <1>1, <1>2
<1>4. Show(AddAll(Page, list))
  BY DEF LoadPage
<1> HIDE DEF list
<1> QED
  BY <1>3, <1>4, PageIsOne, AddAllStays

LEMMA ReceiveSyncShows ==
    ASSUME TypeOK, NEW k \in DOMAIN lists, ReceiveSync(k), socket = "open", handler = "serving"
    PROVE  \E p \in Pages(active) : Show(p) /\ ToSet(p.tabs) = ToSet(lists[k])
<1>1. lists[k] \in Seq(Session)
  <2> DEFINE S == Seq(Session)
  <2>1. lists \in Seq(S)
    BY DEF TypeOK
  <2> HIDE DEF S
  <2>2. lists[k] \in S
    BY <2>1
  <2> QED
    BY <2>2 DEF S
<1>2. Show(ApplySync(Page, lists[k]))
  BY DEF ReceiveSync
<1> QED
  BY <1>1, <1>2, PageIsOne, ApplySyncStays

\* The messages of the open event.
Attaches(p) == [k \in DOMAIN p.tabs |-> Msg("attach", p.tabs[k])]

LEMMA OpensShows ==
    ASSUME TypeOK, Opens
    PROVE  \E p \in Pages(active) :
              /\ tabs' = p.tabs /\ active' = p.active /\ p.active \in Session
              /\ toHub' = p.out \o Attaches(p) \o <<Msg("active", p.active)>>
              /\ p.out \in Seq(TabMsgs) /\ Attaches(p) \in Seq(TabMsgs)
              /\ Msg("active", p.active) \in TabMsgs
<1> DEFINE p == IF tabs = <<>> THEN Add(Page, Cfg) ELSE Page
<1>1. /\ tabs' = p.tabs /\ active' = p.active
      /\ toHub' = p.out \o Attaches(p) \o <<Msg("active", p.active)>>
  BY DEF Opens, Attaches
<1>2. p \in Pages(active) /\ p.tabs # <<>>
  <2>1. CASE tabs = <<>>
    <3>1. p \in Pages(active) /\ Cfg \in ToSet(p.tabs)
      <4>1. Cfg \in Session /\ Page \in Pages(active)
        BY SessionAssumption, PageIsOne
      <4>2. Add(Page, Cfg) \in Pages(active) /\ Cfg \in ToSet(Add(Page, Cfg).tabs)
        BY <4>1, AddStays
      <4> QED
        BY <2>1, <4>2
    <3> QED
      BY <3>1 DEF ToSet
  <2>2. CASE tabs # <<>>
    BY <2>2, PageIsOne
  <2> QED
    BY <2>1, <2>2
<1> HIDE DEF p
<1>3. p.tabs \in Seq(Session) /\ p.active \in ToSet(p.tabs) /\ p.out \in Seq(TabMsgs)
  BY <1>2 DEF Pages, PageSet, Shown
<1>4. p.active \in Session
  BY <1>3, KeysShown
<1>5. Attaches(p) \in Seq(TabMsgs)
  <2>1. \A k \in 1..Len(p.tabs) : Msg("attach", p.tabs[k]) \in TabMsgs
    BY <1>3, MsgType
  <2> QED
    BY <1>3, <2>1 DEF Attaches
<1> QED
  BY <1>1, <1>2, <1>3, <1>4, <1>5, MsgType

\* Two parts and a last message.
LEMMA ThreeParts ==
    ASSUME NEW S, NEW u \in Seq(S), NEW v \in Seq(S), NEW m \in S
    PROVE  /\ u \o v \o <<m>> \in Seq(S)
           /\ Len(u \o v \o <<m>>) = Len(u) + Len(v) + 1
           /\ (u \o v \o <<m>>)[Len(u) + Len(v) + 1] = m
<1>1. u \o v \in Seq(S) /\ Len(u \o v) = Len(u) + Len(v)
  OBVIOUS
<1> DEFINE w == u \o v
<1> HIDE DEF w
<1>2. /\ w \o <<m>> \in Seq(S) /\ Len(w \o <<m>>) = Len(w) + 1
      /\ (w \o <<m>>)[Len(w) + 1] = m
  BY <1>1 DEF w
<1> QED
  BY <1>1, <1>2 DEF w

LEMMA RemoveAtType ==
    ASSUME NEW S, NEW q \in Seq(S), NEW k \in DOMAIN q
    PROVE  /\ RemoveAt(q, k) \in Seq(S)
           /\ Len(q) <= 1 => RemoveAt(q, k) = <<>> /\ k = 1
<1>1. SubSeq(q, 1, k - 1) \in Seq(S) /\ Len(SubSeq(q, 1, k - 1)) = k - 1
  OBVIOUS
<1>2. SubSeq(q, k + 1, Len(q)) \in Seq(S) /\ Len(SubSeq(q, k + 1, Len(q))) = Len(q) - k
  OBVIOUS
<1> DEFINE u == SubSeq(q, 1, k - 1)
           v == SubSeq(q, k + 1, Len(q))
<1> HIDE DEF u, v
<1>3. u \o v \in Seq(S) /\ Len(u \o v) = Len(u) + Len(v)
  BY <1>1, <1>2 DEF u, v
<1>4. RemoveAt(q, k) = u \o v
  BY DEF RemoveAt, u, v
<1>5. Len(u \o v) = Len(q) - 1
  <2>1. k \in 1..Len(q) /\ Len(u) = k - 1 /\ Len(v) = Len(q) - k
    BY <1>1, <1>2 DEF u, v
  <2> QED
    BY <1>3, <2>1
<1>6. ASSUME Len(q) <= 1 PROVE RemoveAt(q, k) = <<>> /\ k = 1
  BY <1>3, <1>4, <1>5, <1>6
<1> QED
  BY <1>3, <1>4, <1>6

LEMMA OneMore ==
    ASSUME NEW S, NEW q \in Seq(S), NEW m \in S
    PROVE  /\ q \o <<m>> \in Seq(S) /\ Len(q \o <<m>>) = Len(q) + 1
           /\ \A k \in 1..Len(q) : (q \o <<m>>)[k] = q[k]
           /\ (q \o <<m>>)[Len(q) + 1] = m
OBVIOUS

\* What the hub sends to the agent when it syncs.
LEMMA BeginSyncSends ==
    ASSUME NEW sent, sent \in Seq([type : {"attach", "detach"}, sid : Session]),
           toAgent \in Seq(ToAgentMsgs), BeginSync(sent), agent
    PROVE  LET u == toAgent \o sent
           IN  /\ u \in Seq(ToAgentMsgs) /\ Len(u) = Len(toAgent) + Len(sent)
               /\ \A k \in 1..Len(toAgent) : u[k] = toAgent[k]
               /\ \A k \in 1..Len(sent) : u[Len(toAgent) + k] = sent[k]
               /\ toAgent' \in Seq(ToAgentMsgs) /\ Len(toAgent') = Len(u) + 1
               /\ \A k \in 1..Len(u) : toAgent'[k] = u[k]
               /\ toAgent'[Len(u) + 1] = [type |-> "list_sessions"]
<1> DEFINE u == toAgent \o sent
           m == [type |-> "list_sessions"]
<1>1. sent \in Seq(ToAgentMsgs) /\ m \in ToAgentMsgs
  <2>1. [type : {"attach", "detach"}, sid : Session] \subseteq ToAgentMsgs /\ m \in ToAgentMsgs
    BY DEF ToAgentMsgs
  <2> QED
    BY <2>1, SeqMonotonic
<1>2. toAgent' = u \o <<m>>
  BY DEF BeginSync
<1>3. /\ u \in Seq(ToAgentMsgs) /\ Len(u) = Len(toAgent) + Len(sent)
      /\ \A k \in 1..Len(toAgent) : u[k] = toAgent[k]
      /\ \A k \in 1..Len(sent) : u[Len(toAgent) + k] = sent[k]
  BY <1>1, ConcatProperties
<1> HIDE DEF u, m
<1>4. /\ u \o <<m>> \in Seq(ToAgentMsgs) /\ Len(u \o <<m>>) = Len(u) + 1
      /\ \A k \in 1..Len(u) : (u \o <<m>>)[k] = u[k]
      /\ (u \o <<m>>)[Len(u) + 1] = m
  BY <1>1, <1>3, OneMore
<1> QED
  BY <1>2, <1>3, <1>4 DEF u, m

LEMMA BeginSyncTypes ==
    ASSUME TypeOK, NEW sent, sent \in Seq([type : {"attach", "detach"}, sid : Session]),
           BeginSync(sent)
    PROVE  toAgent' \in Seq(ToAgentMsgs) /\ stale' \in BOOLEAN /\ lists' = lists
<1>1. toAgent \in Seq(ToAgentMsgs) /\ agent \in BOOLEAN
  BY DEF TypeOK
<1>2. CASE agent
  BY <1>1, <1>2, BeginSyncSends DEF BeginSync
<1>3. CASE ~agent
  BY <1>1, <1>3 DEF BeginSync
<1>4. stale' \in BOOLEAN
  BY <1>1 DEF BeginSync, SyncUnderWay
<1> QED
  BY <1>1, <1>2, <1>3, <1>4 DEF BeginSync

\* The kinds of messages, by their field type.
LEMMA ToHubKinds ==
    ASSUME NEW m \in ToHubMsgs
    PROVE  /\ m.type \in {"attach", "active", "detach", "input"}
           /\ m.type # "input" => m.sid \in Session
           /\ m.type \in {"attach", "detach"} =>
                 m \in [type : {"attach", "detach"}, sid : Session]
           /\ m.type = "input" => m.tab \in Session /\ m.frame \in Bytes
BY DEF ToHubMsgs, TabMsgs

LEMMA HeadToHub ==
    ASSUME TypeOK, toHub # <<>>
    PROVE  Head(toHub) \in ToHubMsgs /\ Tail(toHub) \in Seq(ToHubMsgs)
<1>1. toHub \in Seq(ToHubMsgs)
  BY DEF TypeOK
<1> QED
  BY <1>1

LEMMA HubReadsTypes ==
    ASSUME TypeOK, HubReads
    PROVE  /\ handler' \in {"none", "attach", "serving", "ended"}
           /\ hubActive' \in Session \union {None} /\ toHub' \in Seq(ToHubMsgs)
           /\ toAgent' \in Seq(ToAgentMsgs)
           /\ error' \in {"", "bad_request", "not_authorized", "agent_offline"}
           /\ lists' = lists /\ stale' \in BOOLEAN
<1> DEFINE m == Head(toHub)
<1>1. m \in ToHubMsgs /\ toHub' \in Seq(ToHubMsgs)
  BY HeadToHub DEF HubReads
<1>2. /\ m.type \in {"attach", "active", "detach", "input"}
      /\ m.type # "input" => m.sid \in Session
      /\ m.type \in {"attach", "detach"} =>
            m \in [type : {"attach", "detach"}, sid : Session]
      /\ m.type = "input" => m.frame \in Bytes
  BY <1>1, ToHubKinds
<1>3. /\ handler \in {"none", "attach", "serving", "ended"}
      /\ hubActive \in Session \union {None} /\ toAgent \in Seq(ToAgentMsgs)
      /\ error \in {"", "bad_request", "not_authorized", "agent_offline"}
      /\ stale \in BOOLEAN
  BY DEF TypeOK
<1> HIDE DEF m
<1>4. m.type \in {"attach", "detach"} =>
         <<m>> \in Seq([type : {"attach", "detach"}, sid : Session])
  BY <1>2
<1>5. m.type \in {"attach", "detach"} /\ BeginSync(<<m>>) =>
         toAgent' \in Seq(ToAgentMsgs) /\ stale' \in BOOLEAN /\ lists' = lists
  BY <1>4, BeginSyncTypes
<1>6. CASE handler = "attach"
  <2>1. FirstMessage(m)
    BY <1>6 DEF HubReads, m
  <2> QED
    BY <1>1, <1>2, <1>3, <1>5, <2>1 DEF FirstMessage, Refuse, syncing
<1>7. CASE handler # "attach"
  <2>1. Handle(m)
    BY <1>7 DEF HubReads, m
  <2>2. CASE m.type = "attach"
    BY <1>1, <1>2, <1>3, <1>5, <2>1, <2>2 DEF Handle, Refuse, PassOn, hub, syncing
  <2>3. CASE m.type = "detach"
    BY <1>1, <1>2, <1>3, <1>5, <2>1, <2>3 DEF Handle, PassOn, hub
  <2>4. CASE m.type = "active"
    BY <1>1, <1>2, <1>3, <2>1, <2>4 DEF Handle, SetHubActive, syncing
  <2>5. CASE m.type = "input"
    <3>1. Input(m)
      BY <2>1, <2>5 DEF Handle
    <3> DEFINE f == Decode(m.frame)
               i == [type |-> "input", frame |-> Encode(f.sid, f.payload)]
    <3>2. toAgent' \in Seq(ToAgentMsgs)
      <4>1. CASE f # Malformed /\ f.sid = hubActive
        <5>1. Encode(f.sid, f.payload) \in Bytes
          BY <1>2, <2>5, <4>1, DecodeType
        <5>2. i \in ToAgentMsgs
          BY <5>1 DEF ToAgentMsgs
        <5>3. toAgent' = Append(toAgent, i)
          BY <3>1, <4>1 DEF Input
        <5>4. toAgent \in Seq(ToAgentMsgs)
          BY <1>3
        <5> HIDE DEF i, f
        <5> QED
          BY <5>2, <5>3, <5>4
      <4>2. CASE ~(f # Malformed /\ f.sid = hubActive)
        BY <1>3, <3>1, <4>2 DEF Input
      <4> QED
        BY <4>1, <4>2
    <3> QED
      BY <1>1, <1>3, <3>1, <3>2 DEF Input, hub, syncing
  <2> QED
    BY <1>2, <2>2, <2>3, <2>4, <2>5
<1> QED
  BY <1>6, <1>7

LEMMA AgentReadsTypes ==
    ASSUME TypeOK, AgentReads
    PROVE  /\ toAgent' \in Seq(ToAgentMsgs)
           /\ lists' \in Seq(Seq(Session)) /\ stale' \in BOOLEAN
           /\ attached' \subseteq Session /\ live' \subseteq Session
           /\ starting' \subseteq Session
<1> DEFINE m == Head(toAgent)
<1>1. /\ attached \subseteq Session /\ live \subseteq Session /\ starting \subseteq Session
      /\ lists \in Seq(Seq(Session)) /\ stale \in BOOLEAN /\ toAgent \in Seq(ToAgentMsgs)
  BY DEF TypeOK
<1>2. m \in ToAgentMsgs /\ toAgent' \in Seq(ToAgentMsgs)
  BY <1>1 DEF AgentReads
<1>3. m.type \in {"attach", "detach"} => m.sid \in Session
  BY <1>2 DEF ToAgentMsgs
<1>4. \/ m.type = "attach" /\ AttachSession(m.sid) /\ UNCHANGED syncing
      \/ m.type = "detach" /\ CloseSession(m.sid) /\ UNCHANGED syncing
      \/ m.type = "list_sessions" /\ ListSessions
      \/ m.type = "input" /\ UNCHANGED <<attached, live, starting, syncing>>
  BY DEF AgentReads
<1> HIDE DEF m
<1>5. CASE m.type = "attach" /\ AttachSession(m.sid) /\ UNCHANGED syncing
  BY <1>1, <1>2, <1>3, <1>5 DEF AttachSession, syncing
<1>6. CASE m.type = "detach" /\ CloseSession(m.sid) /\ UNCHANGED syncing
  <2>1. live' \subseteq Session
    BY <1>1, <1>6 DEF CloseSession
  <2> QED
    BY <1>1, <1>2, <1>3, <1>6, <2>1 DEF CloseSession, syncing
<1>7. CASE ListSessions
  <2>1. PICK list \in {InOrder(live), <<>>} :
           /\ lists' = Append(lists, list)
           /\ stale' = (stale \/ starting # {} \/ ToSet(list) # live)
    BY <1>7 DEF ListSessions
  <2>2. list \in Seq(Session)
    <3>1. InOrder(live) \in Seq(Session) /\ <<>> \in Seq(Session)
      BY <1>1, InOrderLists
    <3> QED
      BY <2>1, <3>1
  <2> DEFINE S == Seq(Session)
  <2>3. list \in S /\ lists \in Seq(S)
    BY <1>1, <2>2
  <2> HIDE DEF S
  <2>4. Append(lists, list) \in Seq(S)
    BY <2>3
  <2> QED
    BY <1>1, <1>2, <1>7, <2>1, <2>4 DEF ListSessions, S
<1>8. CASE UNCHANGED <<attached, live, starting, syncing>>
  BY <1>1, <1>2, <1>8 DEF syncing
<1> QED
  BY <1>4, <1>5, <1>6, <1>7, <1>8

LEMMA ClosedTypes ==
    ASSUME TypeOK, Closed
    PROVE  /\ socket' = "closed" /\ timer' \in BOOLEAN /\ attempt' \in 0..MaxStep
           /\ delay' \in 0..Cap /\ toHub' = <<>> /\ error' = ""
<1>1. timer \in BOOLEAN /\ attempt \in 0..MaxStep /\ delay \in 0..Cap
  BY DEF TypeOK
<1>2. /\ Backoff(attempt, IF offline THEN 1000 ELSE 500) \in 0..Cap
      /\ NextAttempt(attempt) \in 0..MaxStep
  <2> DEFINE base == IF offline THEN 1000 ELSE 500
  <2>1. base \in {500, 1000}
    OBVIOUS
  <2> HIDE DEF base
  <2>2. attempt \in 0..5 /\ NextAttempt(attempt) \in 0..MaxStep
    BY <1>1, NextAttemptType
  <2>3. Backoff(attempt, base) \in 1..Cap
    BY <2>1, <2>2, BackoffType
  <2> QED
    BY <2>2, <2>3, CapType DEF base
<1> QED
  BY <1>1, <1>2 DEF Closed

\* The types, by who owns the variables.
PageType == /\ tabs \in Seq(Session) /\ IsInjective(tabs)
            /\ active \in (IF tabs = <<>> THEN {None} ELSE ToSet(tabs))
LinkType == /\ socket \in {"none", "connecting", "open", "closed"}
            /\ timer \in BOOLEAN /\ attempt \in 0..MaxStep /\ delay \in 0..Cap
            /\ offline \in BOOLEAN /\ paused \in BOOLEAN
TokenType == claim \in Claim /\ expired \in BOOLEAN
HubType == /\ handler \in {"none", "attach", "serving", "ended"}
           /\ hubActive \in Session \union {None}
ErrorType == error \in {"", "bad_request", "not_authorized", "agent_offline"}
SyncType == lists \in Seq(Seq(Session)) /\ stale \in BOOLEAN
TmuxType == /\ agent \in BOOLEAN
            /\ attached \subseteq Session /\ live \subseteq Session /\ starting \subseteq Session
Types == /\ PageType /\ LinkType /\ TokenType /\ HubType /\ ErrorType /\ SyncType /\ TmuxType
         /\ toHub \in Seq(ToHubMsgs) /\ toAgent \in Seq(ToAgentMsgs)

LEMMA TypesAreTypeOK == TypeOK <=> Types
BY Zenon DEF TypeOK, Types, PageType, LinkType, TokenType, HubType, ErrorType, SyncType, TmuxType

LEMMA TypesAreTypeOKNext == TypeOK' <=> Types'
BY Zenon DEF TypeOK, Types, PageType, LinkType, TokenType, HubType, ErrorType, SyncType, TmuxType

\* A variable that does not change keeps its type.
LEMMA SameTypes ==
    /\ PageType /\ UNCHANGED page => PageType'
    /\ LinkType /\ UNCHANGED link => LinkType'
    /\ TokenType /\ UNCHANGED token => TokenType'
    /\ HubType /\ UNCHANGED hub => HubType'
    /\ ErrorType /\ UNCHANGED error => ErrorType'
    /\ SyncType /\ UNCHANGED syncing => SyncType'
    /\ TmuxType /\ UNCHANGED tmux => TmuxType'
<1> USE DEF page, link, token, hub, syncing, tmux
<1>1. PageType /\ UNCHANGED page => PageType'
  BY DEF PageType
<1>2. LinkType /\ UNCHANGED link => LinkType'
  BY DEF LinkType
<1>3. TokenType /\ UNCHANGED token => TokenType'
  BY DEF TokenType
<1>4. HubType /\ UNCHANGED hub => HubType'
  BY DEF HubType
<1>5. ErrorType /\ UNCHANGED error => ErrorType'
  BY DEF ErrorType
<1>6. SyncType /\ UNCHANGED syncing => SyncType'
  BY DEF SyncType
<1>7. TmuxType /\ UNCHANGED tmux => TmuxType'
  BY DEF TmuxType
<1> QED
  BY <1>1, <1>2, <1>3, <1>4, <1>5, <1>6, <1>7

LEMMA TypeInit == Init => TypeOK
<1> SUFFICES ASSUME Init PROVE Types
  BY TypesAreTypeOK
<1>1. PageType
  <2>1. tabs = <<>> /\ active = None
    BY DEF Init
  <2> QED
    BY <2>1 DEF IsInjective, PageType
<1>2. LinkType
  BY ZeroTypes DEF Init, LinkType
<1>3. TokenType /\ HubType /\ ErrorType /\ TmuxType
  BY DEF Init, TokenType, HubType, ErrorType, TmuxType
<1>4. SyncType
  <2>1. lists = <<>> /\ stale = TRUE
    BY DEF Init
  <2> QED
    BY <2>1 DEF SyncType
<1>5. toHub \in Seq(ToHubMsgs) /\ toAgent \in Seq(ToAgentMsgs)
  <2>1. toHub = <<>> /\ toAgent = <<>>
    BY DEF Init
  <2> QED
    BY <2>1
<1> QED
  BY <1>1, <1>2, <1>3, <1>4, <1>5 DEF Types

LEMMA TypeStep == TypeOK /\ [Next]_vars => TypeOK'
<1> SUFFICES ASSUME TypeOK, [Next]_vars PROVE Types'
  BY TypesAreTypeOKNext
<1>0. Types
  BY TypesAreTypeOK
<1> USE DEF Types
<1>1. CASE UNCHANGED vars
  BY <1>0, <1>1, SameTypes DEF vars
<1>2. CASE LoadPage
  <2>1. PICK p \in Pages(active) : Show(p)
    BY <1>2, LoadPageShows
  <2>2. PageType' /\ toHub' \in Seq(ToHubMsgs)
    BY <2>1, ShowTypes DEF PageType
  <2>3. LinkType'
    BY <1>0, <1>2 DEF LoadPage, LinkType
  <2> QED
    BY <1>0, <1>2, <2>2, <2>3, SameTypes DEF LoadPage
<1>3. CASE UserActs
  <2>1. PageType' /\ toHub' \in Seq(ToHubMsgs)
    <3>1. CASE Type
      <4> DEFINE m == [type |-> "input", tab |-> active, frame |-> Encode(active, <<1>>)]
      <4>1. active \in Session
        BY <1>0, <3>1, KeysShown DEF Type, PageType
      <4>2. active \in Bytes /\ CanEncode(active)
        BY <3>1, <4>1, SessionAssumption DEF Type
      <4>3. Encode(active, <<1>>) \in Bytes
        BY <4>2, PayloadType, EncodeType
      <4>4. m \in ToHubMsgs
        BY <4>1, <4>3 DEF ToHubMsgs
      <4>5. toHub' = Append(toHub, m) /\ toHub \in Seq(ToHubMsgs)
        BY <1>0, <3>1 DEF Type
      <4> HIDE DEF m
      <4>6. toHub' \in Seq(ToHubMsgs)
        BY <4>4, <4>5
      <4> QED
        BY <1>0, <3>1, <4>6, SameTypes DEF Type
    <3>2. CASE \E s \in Session : NewTab(s) \/ CloseTab(s) \/ Select(s)
      <4>1. PICK p \in Pages(active) : Show(p)
        BY <3>2, TabActs
      <4> QED
        BY <4>1, ShowTypes DEF PageType
    <3> QED
      BY <1>3, <3>1, <3>2 DEF UserActs
  <2> QED
    BY <1>0, <1>3, <2>1, SameTypes DEF UserActs
<1>4. CASE DialFails \/ Ended \/ Drop
  <2>1. Closed
    BY <1>4 DEF DialFails, Ended, Drop
  <2>2. offline' = offline /\ paused' = paused
    BY <1>4 DEF DialFails, Ended, Drop
  <2>3. LinkType' /\ ErrorType' /\ toHub' \in Seq(ToHubMsgs)
    <3>1. /\ socket' = "closed" /\ timer' \in BOOLEAN /\ attempt' \in 0..MaxStep
          /\ delay' \in 0..Cap /\ toHub' = <<>> /\ error' = ""
      BY <2>1, ClosedTypes
    <3>2. toHub' \in Seq(ToHubMsgs)
      <4>1. toHub' = <<>>
        BY <3>1
      <4> QED
        BY <4>1
    <3> QED
      BY <1>0, <2>2, <3>1, <3>2 DEF LinkType, ErrorType
  <2>4. HubType'
    BY <1>0, <1>4 DEF DialFails, Ended, Drop, HubType, hub
  <2> QED
    BY <1>0, <1>4, <2>3, <2>4, SameTypes DEF DialFails, Ended, Drop
<1>5. CASE Redial
  <2>1. LinkType'
    BY <1>0, <1>5 DEF Redial, LinkType
  <2> QED
    BY <1>0, <1>5, <2>1, SameTypes DEF Redial
<1>6. CASE Opens
  <2>1. PICK p \in Pages(active) :
           /\ tabs' = p.tabs /\ active' = p.active /\ p.active \in Session
           /\ toHub' = p.out \o Attaches(p) \o <<Msg("active", p.active)>>
           /\ p.out \in Seq(TabMsgs) /\ Attaches(p) \in Seq(TabMsgs)
           /\ Msg("active", p.active) \in TabMsgs
    BY <1>6, OpensShows
  <2>2. toHub' \in Seq(ToHubMsgs)
    <3>1. toHub' \in Seq(TabMsgs)
      BY <2>1, ThreeParts
    <3>2. TabMsgs \subseteq ToHubMsgs
      BY DEF ToHubMsgs
    <3> QED
      BY <3>1, <3>2, SeqMonotonic
  <2>3. PageType'
    BY <2>1 DEF Pages, PageSet, Shown, PageType
  <2>4. LinkType'
    BY <1>0, <1>6, ZeroTypes DEF Opens, LinkType
  <2>5. HubType' /\ ErrorType'
    BY <1>6 DEF Opens, HubType, ErrorType
  <2> QED
    BY <1>0, <1>6, <2>2, <2>3, <2>4, <2>5, SameTypes DEF Opens
<1>7. CASE ReceiveError
  <2>1. LinkType' /\ ErrorType'
    BY <1>0, <1>7 DEF ReceiveError, LinkType, ErrorType
  <2> QED
    BY <1>0, <1>7, <2>1, SameTypes DEF ReceiveError
<1>8. CASE HubReads
  <2>1. HubType' /\ ErrorType' /\ toHub' \in Seq(ToHubMsgs) /\ toAgent' \in Seq(ToAgentMsgs)
    BY <1>8, HubReadsTypes DEF HubType, ErrorType
  <2>2. SyncType'
    BY <1>0, <1>8, HubReadsTypes DEF SyncType
  <2> QED
    BY <1>0, <1>8, <2>1, <2>2, SameTypes DEF HubReads
<1>9. CASE AgentReads
  <2>1. SyncType' /\ toAgent' \in Seq(ToAgentMsgs)
    BY <1>9, AgentReadsTypes DEF SyncType
  <2>2. TmuxType'
    BY <1>0, <1>9, AgentReadsTypes DEF AgentReads, TmuxType
  <2> QED
    BY <1>0, <1>9, <2>1, <2>2, SameTypes DEF AgentReads
<1>10. CASE AgentGoes
  <2>1. HubType' /\ TmuxType' /\ SyncType' /\ toAgent' \in Seq(ToAgentMsgs)
    <3>1. toAgent' = <<>>
      BY <1>10 DEF AgentGoes
    <3>2. toAgent' \in Seq(ToAgentMsgs)
      BY <3>1
    <3>3. HubType' /\ TmuxType'
      <4>1. live' \subseteq live /\ starting' \subseteq starting /\ attached' = {}
        BY <1>10 DEF AgentGoes, CloseAll
      <4> QED
        BY <1>0, <1>10, <4>1 DEF AgentGoes, HubType, TmuxType
    <3>4. SyncType'
      BY <1>0, <1>10 DEF AgentGoes, SyncType
    <3> QED
      BY <3>2, <3>3, <3>4
  <2> QED
    BY <1>0, <1>10, <2>1, SameTypes DEF AgentGoes
<1>11. CASE AgentComes
  <2>1. TmuxType'
    BY <1>0, <1>11 DEF AgentComes, TmuxType
  <2> QED
    BY <1>0, <1>11, <2>1, SameTypes DEF AgentComes
<1>12. CASE TokenExpires
  <2>1. TokenType'
    BY <1>0, <1>12 DEF TokenExpires, TokenType
  <2> QED
    BY <1>0, <1>12, <2>1, SameTypes DEF TokenExpires
<1>13. ASSUME NEW k \in DOMAIN lists, ReceiveSync(k) PROVE Types'
  <2>1. SyncType'
    BY <1>0, <1>13, RemoveAtType DEF ReceiveSync, SyncType
  <2>2. PageType' /\ toHub' \in Seq(ToHubMsgs)
    <3>1. CASE socket = "open" /\ handler = "serving"
      <4>1. PICK p \in Pages(active) : Show(p)
        BY <1>13, <3>1, ReceiveSyncShows
      <4> QED
        BY <4>1, ShowTypes DEF PageType
    <3>2. CASE ~(socket = "open" /\ handler = "serving")
      BY <1>0, <1>13, <3>2, SameTypes DEF ReceiveSync
    <3> QED
      BY <3>1, <3>2
  <2> QED
    BY <1>0, <1>13, <2>1, <2>2, SameTypes DEF ReceiveSync
<1>14. ASSUME NEW k \in DOMAIN lists, TimedOut(k) PROVE Types'
  <2>1. SyncType'
    BY <1>0, <1>14, RemoveAtType DEF TimedOut, SyncType
  <2> QED
    BY <1>0, <1>14, <2>1, SameTypes DEF TimedOut
<1>15. ASSUME NEW s \in Session, TmuxStarts(s) PROVE Types'
  <2>1. TmuxType'
    BY <1>0, <1>15 DEF TmuxStarts, TmuxType
  <2> QED
    BY <1>0, <1>15, <2>1, SameTypes DEF TmuxStarts
<1>16. ASSUME NEW s \in Session, SessionsChange(s) PROVE Types'
  <2>1. <<>> \in Seq([type : {"attach", "detach"}, sid : Session])
    OBVIOUS
  <2>2. toAgent' \in Seq(ToAgentMsgs) /\ SyncType'
    <3>1. CASE BeginSync(<<>>)
      BY <1>0, <2>1, <3>1, BeginSyncTypes DEF SyncType
    <3>2. CASE stale' = TRUE /\ UNCHANGED <<toAgent, lists>>
      BY <1>0, <3>2 DEF SyncType
    <3> QED
      BY <1>16, <3>1, <3>2 DEF SessionsChange
  <2>3. TmuxType'
    BY <1>0, <1>16 DEF SessionsChange, TmuxType
  <2> QED
    BY <1>0, <1>16, <2>2, <2>3, SameTypes DEF SessionsChange
<1>17. CASE AttachFails
  <2>1. toAgent' \in Seq(ToAgentMsgs)
    BY <1>0, <1>17 DEF AttachFails
  <2> QED
    BY <1>0, <1>17, <2>1, SameTypes DEF AttachFails
<1> QED
  BY <1>1, <1>2, <1>3, <1>4, <1>5, <1>6, <1>7, <1>8, <1>9, <1>10, <1>11, <1>12, <1>13,
     <1>14, <1>15, <1>16, <1>17 DEF Next

-----------------------------------------------------------------------------
(* Input *)

\* InForce, of a queue and an active session of the hub.
InForceOf(q, h, k, s) ==
    \/ \E j \in 1 .. k - 1 :
          /\ q[j].type = "active" /\ q[j].sid = s
          /\ \A i \in j + 1 .. k - 1 : q[i].type # "active"
    \/ h = s /\ \A i \in 1 .. k - 1 : q[i].type # "active"

\* Only what is before counts.
LEMMA ForceOfPart ==
    ASSUME NEW q, NEW r, NEW h, NEW k \in Nat, NEW s, \A i \in 1..(k - 1) : r[i] = q[i],
           InForceOf(q, h, k, s)
    PROVE  InForceOf(r, h, k, s)
<1>1. CASE \E j \in 1 .. k - 1 :
              /\ q[j].type = "active" /\ q[j].sid = s
              /\ \A i \in j + 1 .. k - 1 : q[i].type # "active"
  <2>1. PICK j \in 1 .. k - 1 :
           /\ q[j].type = "active" /\ q[j].sid = s
           /\ \A i \in j + 1 .. k - 1 : q[i].type # "active"
    BY <1>1
  <2>2. r[j].type = "active" /\ r[j].sid = s
    BY <2>1
  <2>3. \A i \in j + 1 .. k - 1 : r[i].type # "active"
    BY <2>1
  <2> QED
    BY <2>2, <2>3 DEF InForceOf
<1>2. CASE h = s /\ \A i \in 1 .. k - 1 : q[i].type # "active"
  BY <1>2 DEF InForceOf
<1> QED
  BY <1>1, <1>2 DEF InForceOf

\* What the page sends keeps the hub told.
LEMMA ForceAfterSays ==
    ASSUME NEW a, NEW p \in Pages(a), p.active # None, NEW q \in Seq(ToHubMsgs), NEW h,
           a # None => InForceOf(q, h, Len(q) + 1, a)
    PROVE  InForceOf(q \o p.out, h, Len(q \o p.out) + 1, p.active)
<1> DEFINE o == p.out
           r == q \o o
<1>1. o \in Seq(TabMsgs)
  BY DEF Pages, PageSet
<1>2. o \in Seq(ToHubMsgs)
  <2>1. TabMsgs \subseteq ToHubMsgs
    BY DEF ToHubMsgs
  <2> QED
    BY <1>1, <2>1, SeqMonotonic
<1>3. Says(p, a)
  BY DEF Pages
<1>4. /\ p.active = a /\ \A k \in DOMAIN o : o[k].type # "active"
      \/ \E j \in DOMAIN o :
            /\ o[j].type = "active" /\ o[j].sid = p.active
            /\ \A k \in j + 1 .. Len(o) : o[k].type # "active"
  BY <1>3 DEF Says
<1> HIDE DEF o
<1>5. /\ r \in Seq(ToHubMsgs) /\ Len(r) = Len(q) + Len(o)
      /\ \A k \in 1..(Len(q) + Len(o)) : r[k] = IF k <= Len(q) THEN q[k] ELSE o[k - Len(q)]
  BY <1>2, ConcatProperties
<1> HIDE DEF r
<1>6. Len(q) \in Nat /\ Len(o) \in Nat /\ DOMAIN o = 1..Len(o)
  BY <1>2
<1>7. CASE p.active = a /\ \A k \in DOMAIN o : o[k].type # "active"
  <2>1. InForceOf(q, h, Len(q) + 1, a)
    BY <1>7
  <2>2. \A i \in 1..Len(q) : r[i] = q[i]
    BY <1>5, <1>6
  <2>3. InForceOf(r, h, Len(q) + 1, a)
    BY <1>6, <2>1, <2>2, ForceOfPart
  <2>4. \A i \in Len(q) + 1 .. Len(r) : r[i].type # "active"
    <3>1. ASSUME NEW i \in Len(q) + 1 .. Len(r) PROVE r[i].type # "active"
      <4>1. i - Len(q) \in 1..Len(o) /\ r[i] = o[i - Len(q)]
        BY <1>5, <1>6, <3>1
      <4> QED
        BY <1>6, <1>7, <4>1
    <3> QED
      BY <3>1
  <2>5. CASE \E j \in 1 .. (Len(q) + 1) - 1 :
                /\ r[j].type = "active" /\ r[j].sid = a
                /\ \A i \in j + 1 .. (Len(q) + 1) - 1 : r[i].type # "active"
    <3>1. PICK j \in 1 .. Len(q) :
             /\ r[j].type = "active" /\ r[j].sid = a
             /\ \A i \in j + 1 .. Len(q) : r[i].type # "active"
      BY <1>6, <2>5
    <3>2. \A i \in j + 1 .. Len(r) : r[i].type # "active"
      BY <1>5, <1>6, <2>4, <3>1
    <3>3. j \in 1 .. (Len(r) + 1) - 1
      BY <1>5, <1>6
    <3> QED
      BY <1>5, <1>6, <1>7, <3>1, <3>2, <3>3 DEF InForceOf, o, r
  <2>6. CASE h = a /\ \A i \in 1 .. (Len(q) + 1) - 1 : r[i].type # "active"
    <3>1. \A i \in 1 .. Len(r) : r[i].type # "active"
      BY <1>5, <1>6, <2>4, <2>6
    <3> QED
      BY <1>5, <1>6, <1>7, <2>6, <3>1 DEF InForceOf, o, r
  <2> QED
    BY <2>3, <2>5, <2>6 DEF InForceOf
<1>8. CASE \E j \in DOMAIN o :
              /\ o[j].type = "active" /\ o[j].sid = p.active
              /\ \A k \in j + 1 .. Len(o) : o[k].type # "active"
  <2>1. PICK j \in 1..Len(o) :
           /\ o[j].type = "active" /\ o[j].sid = p.active
           /\ \A k \in j + 1 .. Len(o) : o[k].type # "active"
    BY <1>6, <1>8
  <2>2. Len(q) + j \in 1..Len(r) /\ r[Len(q) + j] = o[j]
    BY <1>5, <1>6
  <2>3. \A i \in Len(q) + j + 1 .. Len(r) : r[i].type # "active"
    <3>1. ASSUME NEW i \in Len(q) + j + 1 .. Len(r) PROVE r[i].type # "active"
      <4>1. i - Len(q) \in j + 1 .. Len(o) /\ r[i] = o[i - Len(q)]
        BY <1>5, <1>6, <3>1
      <4> QED
        BY <2>1, <4>1
    <3> QED
      BY <3>1
  <2>4. InForceOf(r, h, Len(r) + 1, p.active)
    BY <1>5, <1>6, <2>1, <2>2, <2>3 DEF InForceOf
  <2> QED
    BY <2>4 DEF o, r
<1> QED
  BY <1>4, <1>7, <1>8

\* An active message that has been read counts as the hub's active session.
LEMMA ForceOfTail ==
    ASSUME NEW q \in Seq(ToHubMsgs), q # <<>>, NEW h, NEW k \in 2..(Len(q) + 1), NEW s,
           InForceOf(q, h, k, s),
           NEW g, Head(q).type = "active" => g = Head(q).sid,
           Head(q).type # "active" => g = h \/ h # s
    PROVE  InForceOf(Tail(q), g, k - 1, s)
<1> DEFINE t == Tail(q)
<1>1. Len(q) \in Nat /\ Len(t) = Len(q) - 1 /\ \A i \in 1..(Len(q) - 1) : t[i] = q[i + 1]
  OBVIOUS
<1>2. q[1] = Head(q) /\ k \in Nat /\ k <= Len(q) + 1 /\ 2 <= k
  BY <1>1
<1> HIDE DEF t
<1>3. CASE \E j \in 1 .. k - 1 :
              /\ q[j].type = "active" /\ q[j].sid = s
              /\ \A i \in j + 1 .. k - 1 : q[i].type # "active"
  <2>1. PICK j \in 1 .. k - 1 :
           /\ q[j].type = "active" /\ q[j].sid = s
           /\ \A i \in j + 1 .. k - 1 : q[i].type # "active"
    BY <1>3
  <2>2. CASE j = 1
    <3>1. \A i \in 1 .. (k - 1) - 1 : t[i].type # "active"
      BY <1>1, <1>2, <2>1, <2>2
    <3> QED
      BY <1>2, <2>1, <2>2, <3>1 DEF InForceOf, t
  <2>3. CASE j # 1
    <3>1. j - 1 \in 1 .. (k - 1) - 1 /\ t[j - 1] = q[j]
      BY <1>1, <1>2, <2>1, <2>3
    <3>2. \A i \in (j - 1) + 1 .. (k - 1) - 1 : t[i].type # "active"
      BY <1>1, <1>2, <2>1, <2>3
    <3> QED
      BY <2>1, <3>1, <3>2 DEF InForceOf, t
  <2> QED
    BY <2>2, <2>3
<1>4. CASE h = s /\ \A i \in 1 .. k - 1 : q[i].type # "active"
  <2>1. \A i \in 1 .. (k - 1) - 1 : t[i].type # "active"
    BY <1>1, <1>2, <1>4
  <2>2. g = s
    BY <1>2, <1>4
  <2> QED
    BY <2>1, <2>2 DEF InForceOf, t
<1> QED
  BY <1>3, <1>4 DEF InForceOf

\* Right after an active message.
LEMMA ForceOfLast ==
    ASSUME NEW q, NEW k \in Nat, k >= 2, NEW h, q[k - 1].type = "active"
    PROVE  InForceOf(q, h, k, q[k - 1].sid)
BY DEF InForceOf

\* Another message that says nothing of the active session.
LEMMA ForceOfMore ==
    ASSUME NEW q, NEW h, NEW k \in Nat \ {0}, NEW s, InForceOf(q, h, k, s), q[k].type # "active"
    PROVE  InForceOf(q, h, k + 1, s)
<1>1. CASE \E j \in 1 .. k - 1 :
              /\ q[j].type = "active" /\ q[j].sid = s
              /\ \A i \in j + 1 .. k - 1 : q[i].type # "active"
  <2>1. PICK j \in 1 .. k - 1 :
           /\ q[j].type = "active" /\ q[j].sid = s
           /\ \A i \in j + 1 .. k - 1 : q[i].type # "active"
    BY <1>1
  <2>2. j \in 1 .. (k + 1) - 1 /\ \A i \in j + 1 .. (k + 1) - 1 : q[i].type # "active"
    BY <2>1
  <2> QED
    BY <2>1, <2>2 DEF InForceOf
<1>2. CASE h = s /\ \A i \in 1 .. k - 1 : q[i].type # "active"
  <2>1. \A i \in 1 .. (k + 1) - 1 : q[i].type # "active"
    BY <1>2
  <2> QED
    BY <1>2, <2>1 DEF InForceOf
<1> QED
  BY <1>1, <1>2 DEF InForceOf

\* InputsInForce, of a queue and an active session of the hub.
Inputs(q, h) ==
    \A k \in DOMAIN q : q[k].type = "input" =>
        /\ InForceOf(q, h, k, q[k].tab) /\ CanEncode(q[k].tab)
        /\ q[k].frame = Encode(q[k].tab, <<1>>)

InputInv == FreshHandler /\ InputsInForce /\ ActiveInForce

LEMMA InputInvIs ==
    InputInv <=>
        /\ handler = "attach" => hubActive = None
        /\ handler \in {"attach", "serving"} => Inputs(toHub, hubActive)
        /\ socket = "open" /\ handler \in {"attach", "serving"} /\ active # None =>
              InForceOf(toHub, hubActive, Len(toHub) + 1, active)
BY DEF InputInv, FreshHandler, InputsInForce, ActiveInForce, InForce, Inputs, InForceOf

LEMMA InputInvIsNext ==
    InputInv' <=>
        /\ handler' = "attach" => hubActive' = None
        /\ handler' \in {"attach", "serving"} => Inputs(toHub', hubActive')
        /\ socket' = "open" /\ handler' \in {"attach", "serving"} /\ active' # None =>
              InForceOf(toHub', hubActive', Len(toHub') + 1, active')
BY DEF InputInv, FreshHandler, InputsInForce, ActiveInForce, InForce, Inputs, InForceOf

LEMMA NoInputAmongTabMsgs ==
    ASSUME NEW o \in Seq(TabMsgs)
    PROVE  \A k \in DOMAIN o : o[k].type # "input"
<1>1. \A m \in TabMsgs : m.type # "input"
  BY DEF TabMsgs
<1>2. \A k \in DOMAIN o : o[k] \in TabMsgs
  OBVIOUS
<1> QED
  BY <1>1, <1>2

\* Messages about tabs change nothing for the input before them.
LEMMA InputsAndTabMsgs ==
    ASSUME NEW q \in Seq(ToHubMsgs), NEW h, Inputs(q, h), NEW o \in Seq(TabMsgs)
    PROVE  Inputs(q \o o, h)
<1> DEFINE r == q \o o
<1>1. o \in Seq(ToHubMsgs)
  <2>1. TabMsgs \subseteq ToHubMsgs
    BY DEF ToHubMsgs
  <2> QED
    BY <2>1, SeqMonotonic
<1>2. /\ r \in Seq(ToHubMsgs) /\ Len(r) = Len(q) + Len(o)
      /\ \A k \in 1..(Len(q) + Len(o)) : r[k] = IF k <= Len(q) THEN q[k] ELSE o[k - Len(q)]
  BY <1>1, ConcatProperties
<1>3. \A k \in DOMAIN o : o[k].type # "input"
  BY NoInputAmongTabMsgs
<1> HIDE DEF r
<1>4. Len(q) \in Nat /\ Len(o) \in Nat /\ DOMAIN o = 1..Len(o) /\ DOMAIN r = 1..Len(r)
      /\ DOMAIN q = 1..Len(q)
  BY <1>2
<1>5. SUFFICES ASSUME NEW k \in 1..Len(r), r[k].type = "input"
               PROVE  /\ InForceOf(r, h, k, r[k].tab) /\ CanEncode(r[k].tab)
                      /\ r[k].frame = Encode(r[k].tab, <<1>>)
  BY <1>4 DEF Inputs, r
<1>6. k <= Len(q)
  <2>1. SUFFICES ASSUME ~(k <= Len(q)) PROVE FALSE
    OBVIOUS
  <2>2. k - Len(q) \in DOMAIN o /\ r[k] = o[k - Len(q)]
    BY <1>2, <1>4, <2>1
  <2> QED
    BY <1>3, <1>5, <2>2
<1>7. k \in DOMAIN q /\ r[k] = q[k] /\ \A i \in 1..(k - 1) : r[i] = q[i]
  BY <1>2, <1>4, <1>6
<1>8. InForceOf(q, h, k, q[k].tab) /\ CanEncode(q[k].tab) /\ q[k].frame = Encode(q[k].tab, <<1>>)
  BY <1>5, <1>7 DEF Inputs
<1>9. InForceOf(r, h, k, q[k].tab)
  BY <1>7, <1>8, ForceOfPart
<1> QED
  BY <1>7, <1>8, <1>9

LEMMA InputShown ==
    ASSUME TypeOK, InputInv, NEW p \in Pages(active), Show(p),
           UNCHANGED hub, socket' = "open" => socket = "open"
    PROVE  InputInv'
<1>1. /\ handler = "attach" => hubActive = None
      /\ handler \in {"attach", "serving"} => Inputs(toHub, hubActive)
      /\ socket = "open" /\ handler \in {"attach", "serving"} /\ active # None =>
            InForceOf(toHub, hubActive, Len(toHub) + 1, active)
  BY InputInvIs
<1>2. toHub \in Seq(ToHubMsgs) /\ p.out \in Seq(TabMsgs)
  BY DEF TypeOK, Pages, PageSet
<1>3. handler' = handler /\ hubActive' = hubActive /\ active' = p.active
  BY DEF hub, Show
<1>4. handler \in {"attach", "serving"} => Inputs(toHub', hubActive)
  BY <1>1, <1>2, InputsAndTabMsgs DEF Show
<1>5. ASSUME socket' = "open", handler \in {"attach", "serving"}, p.active # None
      PROVE  InForceOf(toHub', hubActive, Len(toHub') + 1, p.active)
  <2>1. toHub' = toHub \o p.out
    BY <1>5 DEF Show
  <2>2. active # None => InForceOf(toHub, hubActive, Len(toHub) + 1, active)
    BY <1>1, <1>5
  <2> QED
    BY <1>2, <1>5, <2>1, <2>2, ForceAfterSays
<1> QED
  BY <1>1, <1>3, <1>4, <1>5, InputInvIsNext

LEMMA InputSame ==
    ASSUME InputInv, socket' = "open" => socket = "open",
           \/ UNCHANGED <<active, hub, toHub>>
           \/ handler' = "ended"
           \/ socket' = "closed" /\ toHub' = <<>> /\ UNCHANGED hub
    PROVE  InputInv'
<1>1. /\ handler = "attach" => hubActive = None
      /\ handler \in {"attach", "serving"} => Inputs(toHub, hubActive)
      /\ socket = "open" /\ handler \in {"attach", "serving"} /\ active # None =>
            InForceOf(toHub, hubActive, Len(toHub) + 1, active)
  BY InputInvIs
<1>2. CASE UNCHANGED <<active, hub, toHub>>
  BY <1>1, <1>2, InputInvIsNext DEF hub
<1>3. CASE handler' = "ended"
  BY <1>3, InputInvIsNext
<1>4. CASE socket' = "closed" /\ toHub' = <<>> /\ UNCHANGED hub
  <2>1. Inputs(<<>>, hubActive')
    BY DEF Inputs
  <2> QED
    BY <1>1, <1>4, <2>1, InputInvIsNext DEF hub
<1> QED
  BY <1>2, <1>3, <1>4

LEMMA InputOpens ==
    ASSUME TypeOK, Opens
    PROVE  InputInv'
<1>1. PICK p \in Pages(active) :
         /\ tabs' = p.tabs /\ active' = p.active /\ p.active \in Session
         /\ toHub' = p.out \o Attaches(p) \o <<Msg("active", p.active)>>
         /\ p.out \in Seq(TabMsgs) /\ Attaches(p) \in Seq(TabMsgs)
         /\ Msg("active", p.active) \in TabMsgs
  BY OpensShows
<1> DEFINE n == Len(p.out) + Len(Attaches(p)) + 1
<1>2. /\ toHub' \in Seq(TabMsgs) /\ Len(toHub') = n
      /\ toHub'[n] = Msg("active", p.active)
  BY <1>1, ThreeParts
<1>3. n \in Nat /\ n >= 1
  BY <1>1
<1> HIDE DEF n
<1>4. \A k \in DOMAIN toHub' : toHub'[k].type # "input"
  BY <1>2, NoInputAmongTabMsgs
<1>5. Inputs(toHub', hubActive')
  BY <1>4 DEF Inputs
<1>6. InForceOf(toHub', hubActive', Len(toHub') + 1, active')
  <2>1. toHub'[(n + 1) - 1].type = "active" /\ toHub'[(n + 1) - 1].sid = active'
    BY <1>1, <1>2, <1>3, MsgType
  <2> QED
    BY <1>2, <1>3, <2>1, ForceOfLast
<1>7. handler' = "attach" /\ hubActive' = None
  BY DEF Opens
<1> QED
  BY <1>5, <1>6, <1>7, InputInvIsNext

\* What a message that the hub has read leaves of its queue.
LEMMA InputHubReads ==
    ASSUME TypeOK, InputInv, HubReads
    PROVE  InputInv'
<1> DEFINE m == Head(toHub)
<1>1. /\ handler = "attach" => hubActive = None
      /\ Inputs(toHub, hubActive) /\ handler \in {"attach", "serving"}
      /\ socket = "open" /\ active # None =>
            InForceOf(toHub, hubActive, Len(toHub) + 1, active)
  BY InputInvIs DEF HubReads
<1>2. toHub \in Seq(ToHubMsgs) /\ toHub # <<>> /\ m \in ToHubMsgs /\ toHub' = Tail(toHub)
  BY HeadToHub DEF HubReads, TypeOK
<1>3. /\ m.type \in {"attach", "active", "detach", "input"}
  BY <1>2, ToHubKinds
<1>4. socket' = socket /\ active' = active
  BY DEF HubReads, link, page
<1>5. CASE handler' = "ended"
  BY <1>4, <1>5, InputSame
<1>6. CASE handler' # "ended"
  <2>1. /\ handler' = "serving"
        /\ m.type = "active" => hubActive' = m.sid
        /\ m.type # "active" => hubActive' = hubActive \/ hubActive = None
    <3>1. CASE handler = "attach"
      <4>1. FirstMessage(m)
        BY <3>1 DEF HubReads
      <4> HIDE DEF m
      <4> QED
        BY <1>1, <1>6, <3>1, <4>1 DEF FirstMessage, Refuse
    <3>2. CASE handler = "serving"
      <4>1. Handle(m)
        BY <3>2 DEF HubReads
      <4> HIDE DEF m
      <4> QED
        BY <1>3, <1>6, <3>2, <4>1 DEF Handle, Refuse, PassOn, SetHubActive, Input, hub
    <3> QED
      BY <1>1, <3>1, <3>2
  <2>2. ASSUME NEW k \in 2..(Len(toHub) + 1), NEW s \in Session,
               InForceOf(toHub, hubActive, k, s)
        PROVE  InForceOf(toHub', hubActive', k - 1, s)
    <3>1. hubActive = None => hubActive # s
      BY NoneIsNoSession
    <3> QED
      BY <1>2, <2>1, <2>2, <3>1, ForceOfTail
  <2>3. /\ Len(toHub) \in Nat /\ Len(toHub) >= 1 /\ Len(toHub') = Len(toHub) - 1
        /\ \A i \in 1..(Len(toHub) - 1) : toHub'[i] = toHub[i + 1]
        /\ DOMAIN toHub' = 1..(Len(toHub) - 1) /\ DOMAIN toHub = 1..Len(toHub)
    BY <1>2
  <2>4. Inputs(toHub', hubActive')
    <3>1. SUFFICES ASSUME NEW k \in 1..(Len(toHub) - 1), toHub'[k].type = "input"
                   PROVE  /\ InForceOf(toHub', hubActive', k, toHub'[k].tab)
                          /\ CanEncode(toHub'[k].tab)
                          /\ toHub'[k].frame = Encode(toHub'[k].tab, <<1>>)
      BY <2>3 DEF Inputs
    <3>2. k + 1 \in 1..Len(toHub) /\ toHub'[k] = toHub[k + 1] /\ k + 1 \in 2..(Len(toHub) + 1)
      BY <2>3
    <3> DEFINE i == toHub[k + 1]
    <3>3. InForceOf(toHub, hubActive, k + 1, i.tab) /\ CanEncode(i.tab)
          /\ i.frame = Encode(i.tab, <<1>>)
      BY <1>1, <2>3, <3>1, <3>2 DEF Inputs
    <3>4. i.tab \in Session
      <4>1. i \in ToHubMsgs
        BY <1>2, <2>3, <3>2
      <4> HIDE DEF i
      <4> QED
        BY <3>1, <3>2, <4>1, ToHubKinds DEF i
    <3>5. InForceOf(toHub', hubActive', (k + 1) - 1, i.tab)
      BY <2>2, <3>2, <3>3, <3>4
    <3> QED
      BY <3>2, <3>3, <3>5
  <2>5. ASSUME socket = "open", active # None
        PROVE  InForceOf(toHub', hubActive', Len(toHub') + 1, active)
    <3>1. active \in Session
      BY <2>5, KeysShown DEF TypeOK
    <3>2. InForceOf(toHub, hubActive, Len(toHub) + 1, active)
      BY <1>1, <2>5
    <3>3. Len(toHub) + 1 \in 2..(Len(toHub) + 1)
      BY <2>3
    <3>4. InForceOf(toHub', hubActive', (Len(toHub) + 1) - 1, active)
      BY <2>2, <3>1, <3>2, <3>3
    <3> QED
      BY <2>3, <3>4
  <2> QED
    BY <1>4, <2>1, <2>4, <2>5, InputInvIsNext
<1> QED
  BY <1>5, <1>6

LEMMA InputTyped ==
    ASSUME TypeOK, InputInv, Type, UNCHANGED <<link, hub>>
    PROVE  InputInv'
<1> DEFINE m == [type |-> "input", tab |-> active, frame |-> Encode(active, <<1>>)]
           n == Len(toHub)
<1>1. /\ handler = "attach" => hubActive = None
      /\ handler \in {"attach", "serving"} => Inputs(toHub, hubActive)
      /\ handler \in {"attach", "serving"} => InForceOf(toHub, hubActive, n + 1, active)
  BY InputInvIs DEF Type
<1>2. /\ toHub' = Append(toHub, m) /\ toHub \in Seq(ToHubMsgs) /\ CanEncode(active)
      /\ active' = active /\ hubActive' = hubActive /\ handler' = handler
  BY DEF Type, TypeOK, page, hub
<1>3. m.type = "input" /\ m.tab = active /\ m.frame = Encode(active, <<1>>)
  OBVIOUS
<1> HIDE DEF m
<1>4. /\ n \in Nat /\ Len(toHub') = n + 1 /\ toHub'[n + 1] = m
      /\ \A i \in 1..n : toHub'[i] = toHub[i]
      /\ DOMAIN toHub' = 1..(n + 1) /\ DOMAIN toHub = 1..n
  BY <1>2
<1> HIDE DEF n
<1>5. SUFFICES ASSUME handler \in {"attach", "serving"}
               PROVE  /\ Inputs(toHub', hubActive)
                      /\ InForceOf(toHub', hubActive, Len(toHub') + 1, active)
  BY <1>1, <1>2, InputInvIsNext
<1>6. InForceOf(toHub', hubActive, n + 1, active)
  <2>1. n + 1 \in Nat /\ \A i \in 1..((n + 1) - 1) : toHub'[i] = toHub[i]
    BY <1>4
  <2> QED
    BY <1>1, <1>5, <2>1, ForceOfPart
<1>7. InForceOf(toHub', hubActive, Len(toHub') + 1, active)
  <2>1. n + 1 \in Nat \ {0} /\ toHub'[n + 1].type # "active" /\ Len(toHub') = n + 1
    BY <1>3, <1>4
  <2> QED
    BY <1>6, <2>1, ForceOfMore
<1>8. ASSUME NEW k \in 1..(n + 1), toHub'[k].type = "input"
      PROVE  /\ InForceOf(toHub', hubActive, k, toHub'[k].tab) /\ CanEncode(toHub'[k].tab)
             /\ toHub'[k].frame = Encode(toHub'[k].tab, <<1>>)
  <2>1. CASE k = n + 1
    BY <1>2, <1>3, <1>4, <1>6, <2>1
  <2>2. CASE k # n + 1
    <3>1. k \in 1..n /\ toHub'[k] = toHub[k] /\ \A i \in 1..(k - 1) : toHub'[i] = toHub[i]
      BY <1>4, <2>2
    <3>2. InForceOf(toHub, hubActive, k, toHub[k].tab) /\ CanEncode(toHub[k].tab)
          /\ toHub[k].frame = Encode(toHub[k].tab, <<1>>)
      BY <1>1, <1>4, <1>5, <1>8, <3>1 DEF Inputs
    <3>3. InForceOf(toHub', hubActive, k, toHub[k].tab)
      BY <3>1, <3>2, ForceOfPart
    <3> QED
      BY <3>1, <3>2, <3>3
  <2> QED
    BY <2>1, <2>2
<1>9. Inputs(toHub', hubActive)
  BY <1>4, <1>8 DEF Inputs
<1> QED
  BY <1>7, <1>9

LEMMA InputInit == Init => InputInv
BY InputInvIs DEF Init

LEMMA InputStep == TypeOK /\ InputInv /\ [Next]_vars => InputInv'
<1> SUFFICES ASSUME TypeOK, InputInv, [Next]_vars PROVE InputInv'
  OBVIOUS
<1>1. CASE UNCHANGED vars
  BY <1>1, InputSame DEF vars, page, link
<1>2. CASE LoadPage
  <2>1. PICK p \in Pages(active) : Show(p)
    BY <1>2, LoadPageShows
  <2>2. UNCHANGED hub /\ socket' # "open"
    BY <1>2 DEF LoadPage
  <2> QED
    BY <2>1, <2>2, InputShown
<1>3. CASE UserActs
  <2>1. UNCHANGED <<link, hub>> /\ socket' = socket
    BY <1>3 DEF UserActs, link
  <2>2. CASE Type
    BY <2>1, <2>2, InputTyped
  <2>3. CASE \E s \in Session : NewTab(s) \/ CloseTab(s) \/ Select(s)
    <3>1. PICK p \in Pages(active) : Show(p)
      BY <2>3, TabActs
    <3> QED
      BY <2>1, <3>1, InputShown
  <2> QED
    BY <1>3, <2>2, <2>3 DEF UserActs
<1>4. CASE DialFails \/ Ended
  BY <1>4, InputSame DEF DialFails, Ended, Closed
<1>5. CASE Drop
  BY <1>5, InputSame DEF Drop, Closed
<1>6. CASE Redial
  BY <1>6, InputSame DEF Redial, page
<1>7. CASE Opens
  BY <1>7, InputOpens
<1>8. CASE ReceiveError
  BY <1>8, InputSame DEF ReceiveError, page
<1>9. CASE HubReads
  BY <1>9, InputHubReads
<1>10. CASE AgentReads \/ AttachFails
  BY <1>10, InputSame DEF AgentReads, AttachFails, page, link
<1>11. CASE AgentGoes
  BY <1>11, InputSame DEF AgentGoes, page, link, hub
<1>12. CASE AgentComes \/ TokenExpires
  BY <1>12, InputSame DEF AgentComes, TokenExpires, page, link
<1>13. ASSUME NEW k \in DOMAIN lists, ReceiveSync(k) PROVE InputInv'
  <2>1. UNCHANGED hub /\ socket' = socket
    BY <1>13 DEF ReceiveSync, link
  <2>2. CASE socket = "open" /\ handler = "serving"
    <3>1. PICK p \in Pages(active) : Show(p)
      BY <1>13, <2>2, ReceiveSyncShows
    <3> QED
      BY <2>1, <3>1, InputShown
  <2>3. CASE ~(socket = "open" /\ handler = "serving")
    BY <1>13, <2>1, <2>3, InputSame DEF ReceiveSync, page
  <2> QED
    BY <2>2, <2>3
<1>14. ASSUME NEW k \in DOMAIN lists, TimedOut(k) PROVE InputInv'
  BY <1>14, InputSame DEF TimedOut, page, link
<1>15. ASSUME NEW s \in Session, TmuxStarts(s) \/ SessionsChange(s) PROVE InputInv'
  BY <1>15, InputSame DEF TmuxStarts, SessionsChange, page, link
<1> QED
  BY <1>1, <1>2, <1>3, <1>4, <1>5, <1>6, <1>7, <1>8, <1>9, <1>10, <1>11, <1>12, <1>13,
     <1>14, <1>15 DEF Next

-----------------------------------------------------------------------------
(* Syncs *)

\* AttachesAsk, ListAsked, and the last part of OneSync, of a queue.
Asks(q) ==
    \A k \in DOMAIN q : q[k].type \in {"attach", "detach"} =>
        \E j \in k + 1 .. Len(q) : q[j].type = "list_sessions"
Lists(q) == \E k \in DOMAIN q : q[k].type = "list_sessions"
OneList(q) ==
    \A j, k \in DOMAIN q :
        q[j].type = "list_sessions" /\ q[k].type = "list_sessions" => j = k

\* SyncInv, with what is about the queue to the agent put in these words.
LEMMA SyncInvIs ==
    SyncInv <=>
        /\ Asks(toAgent)
        /\ ~stale => /\ agent /\ Len(lists) <= 1 /\ (lists # <<>> => ~Lists(toAgent))
                     /\ OneList(toAgent)
                     /\ Lists(toAgent) \/ starting = {}
                     /\ ListIsTrue /\ TabsAreTrue
BY DEF SyncInv, AttachesAsk, OneSync, NoneStarts, ListAsked, Asks, Lists, OneList

LEMMA SyncInvIsNext ==
    SyncInv' <=>
        /\ Asks(toAgent')
        /\ ~stale' => /\ agent' /\ Len(lists') <= 1 /\ (lists' # <<>> => ~Lists(toAgent'))
                      /\ OneList(toAgent')
                      /\ Lists(toAgent') \/ starting' = {}
                      /\ ListIsTrue' /\ TabsAreTrue'
BY DEF SyncInv, AttachesAsk, OneSync, NoneStarts, ListAsked, Asks, Lists, OneList

LEMMA AsksTail ==
    ASSUME NEW q \in Seq(ToAgentMsgs), q # <<>>, Asks(q)
    PROVE  /\ Asks(Tail(q))
           /\ Head(q).type \in {"attach", "detach"} => Lists(Tail(q))
<1> DEFINE t == Tail(q)
<1>1. /\ Len(q) \in Nat /\ Len(t) = Len(q) - 1 /\ \A i \in 1..(Len(q) - 1) : t[i] = q[i + 1]
      /\ DOMAIN t = 1..(Len(q) - 1) /\ DOMAIN q = 1..Len(q) /\ q[1] = Head(q) /\ Len(q) >= 1
  OBVIOUS
<1> HIDE DEF t
<1>2. ASSUME NEW k \in 1..Len(q), q[k].type \in {"attach", "detach"}
      PROVE  \E i \in k .. Len(q) - 1 : i >= 1 /\ t[i].type = "list_sessions"
  <2>1. PICK j \in k + 1 .. Len(q) : q[j].type = "list_sessions"
    BY <1>1, <1>2 DEF Asks
  <2>2. j - 1 \in k .. Len(q) - 1 /\ j - 1 >= 1 /\ t[j - 1] = q[j]
    BY <1>1, <2>1
  <2> QED
    BY <2>1, <2>2
<1>3. Asks(t)
  <2>1. SUFFICES ASSUME NEW k \in 1..(Len(q) - 1), t[k].type \in {"attach", "detach"}
                 PROVE  \E i \in k + 1 .. Len(t) : t[i].type = "list_sessions"
    BY <1>1 DEF Asks
  <2>2. k + 1 \in 1..Len(q) /\ q[k + 1].type \in {"attach", "detach"}
    BY <1>1, <2>1
  <2>3. PICK i \in k + 1 .. Len(q) - 1 : t[i].type = "list_sessions"
    BY <1>2, <2>2
  <2> QED
    BY <1>1, <2>3
<1>4. ASSUME Head(q).type \in {"attach", "detach"} PROVE Lists(t)
  <2>1. 1 \in 1..Len(q) /\ q[1].type \in {"attach", "detach"}
    BY <1>1, <1>4
  <2>2. PICK i \in 1 .. Len(q) - 1 : t[i].type = "list_sessions"
    BY <1>2, <2>1
  <2> QED
    BY <1>1, <2>2 DEF Lists
<1> QED
  BY <1>3, <1>4 DEF t

LEMMA ListsTail ==
    ASSUME NEW q \in Seq(ToAgentMsgs), q # <<>>
    PROVE  /\ Lists(Tail(q)) => Lists(q)
           /\ Head(q).type # "list_sessions" /\ Lists(q) => Lists(Tail(q))
           /\ OneList(q) => OneList(Tail(q))
           /\ OneList(q) /\ Head(q).type = "list_sessions" => ~Lists(Tail(q))
<1> DEFINE t == Tail(q)
<1>1. /\ Len(q) \in Nat /\ Len(t) = Len(q) - 1 /\ \A i \in 1..(Len(q) - 1) : t[i] = q[i + 1]
      /\ DOMAIN t = 1..(Len(q) - 1) /\ DOMAIN q = 1..Len(q) /\ q[1] = Head(q) /\ Len(q) >= 1
  OBVIOUS
<1> HIDE DEF t
<1>2. \A i \in DOMAIN t : i + 1 \in DOMAIN q /\ t[i] = q[i + 1] /\ i + 1 # 1
  BY <1>1
<1>3. \A k \in DOMAIN q : k # 1 => k - 1 \in DOMAIN t /\ t[k - 1] = q[k]
  BY <1>1
<1>4. Lists(t) => Lists(q)
  BY <1>2 DEF Lists
<1>5. Head(q).type # "list_sessions" /\ Lists(q) => Lists(t)
  BY <1>1, <1>3 DEF Lists
<1>6. ASSUME OneList(q) PROVE OneList(t)
  <2>1. SUFFICES ASSUME NEW j \in DOMAIN t, NEW k \in DOMAIN t,
                        t[j].type = "list_sessions", t[k].type = "list_sessions"
                 PROVE  j = k
    BY DEF OneList
  <2>2. j + 1 = k + 1
    BY <1>2, <1>6, <2>1 DEF OneList
  <2> QED
    BY <1>1, <2>2
<1>7. ASSUME OneList(q), Head(q).type = "list_sessions" PROVE ~Lists(t)
  <2>1. SUFFICES ASSUME NEW k \in DOMAIN t, t[k].type = "list_sessions" PROVE FALSE
    BY DEF Lists
  <2>2. 1 \in DOMAIN q /\ q[1].type = "list_sessions"
    BY <1>1, <1>7
  <2>3. k + 1 = 1
    BY <1>2, <1>7, <2>1, <2>2 DEF OneList
  <2> QED
    BY <1>2, <2>3
<1> QED
  BY <1>4, <1>5, <1>6, <1>7 DEF t

LEMMA InputAppended ==
    ASSUME NEW q \in Seq(ToAgentMsgs), NEW m \in ToAgentMsgs, m.type = "input"
    PROVE  /\ Asks(q) => Asks(Append(q, m))
           /\ Lists(Append(q, m)) <=> Lists(q)
           /\ OneList(q) => OneList(Append(q, m))
<1> DEFINE r == Append(q, m)
<1>1. /\ Len(q) \in Nat /\ Len(r) = Len(q) + 1 /\ \A i \in 1..Len(q) : r[i] = q[i]
      /\ r[Len(q) + 1] = m /\ DOMAIN r = 1..(Len(q) + 1) /\ DOMAIN q = 1..Len(q)
  OBVIOUS
<1> HIDE DEF r
<1>2. ASSUME Asks(q) PROVE Asks(r)
  <2>1. SUFFICES ASSUME NEW k \in DOMAIN r, r[k].type \in {"attach", "detach"}
                 PROVE  \E j \in k + 1 .. Len(r) : r[j].type = "list_sessions"
    BY DEF Asks
  <2>2. k \in DOMAIN q /\ r[k] = q[k]
    BY <1>1, <2>1
  <2>3. PICK j \in k + 1 .. Len(q) : q[j].type = "list_sessions"
    BY <1>2, <2>1, <2>2 DEF Asks
  <2> QED
    BY <1>1, <2>2, <2>3
<1>3. Lists(r) <=> Lists(q)
  BY <1>1 DEF Lists
<1>4. ASSUME OneList(q) PROVE OneList(r)
  <2>1. \A k \in DOMAIN r : r[k].type = "list_sessions" => k \in DOMAIN q /\ r[k] = q[k]
    BY <1>1
  <2> QED
    BY <1>4, <2>1 DEF OneList
<1> QED
  BY <1>2, <1>3, <1>4 DEF r

\* A sync begins: nothing is stale if it is the only one, and its list will be
\* true.
LEMMA SyncBegins ==
    ASSUME TypeOK, SyncInv, agent' = agent,
           NEW sent, sent \in Seq([type : {"attach", "detach"}, sid : Session]),
           Len(sent) <= 1, BeginSync(sent)
    PROVE  SyncInv'
<1>1. toAgent \in Seq(ToAgentMsgs) /\ Asks(toAgent)
  BY SyncInvIs DEF TypeOK
<1>2. CASE ~agent
  BY <1>1, <1>2, SyncInvIsNext DEF BeginSync
<1>3. CASE agent
  <2> DEFINE u == toAgent \o sent
  <2>1. /\ u \in Seq(ToAgentMsgs) /\ Len(u) = Len(toAgent) + Len(sent)
        /\ \A k \in 1..Len(toAgent) : u[k] = toAgent[k]
        /\ \A k \in 1..Len(sent) : u[Len(toAgent) + k] = sent[k]
        /\ toAgent' \in Seq(ToAgentMsgs) /\ Len(toAgent') = Len(u) + 1
        /\ \A k \in 1..Len(u) : toAgent'[k] = u[k]
        /\ toAgent'[Len(u) + 1] = [type |-> "list_sessions"]
    BY <1>1, <1>3, BeginSyncSends
  <2> HIDE DEF u
  <2>2. /\ Len(toAgent) \in Nat /\ Len(sent) \in Nat /\ Len(u) \in Nat
        /\ DOMAIN toAgent' = 1..(Len(u) + 1) /\ DOMAIN toAgent = 1..Len(toAgent)
    BY <1>1, <2>1
  <2>3. toAgent'[Len(u) + 1].type = "list_sessions"
    BY <2>1
  <2>4. Asks(toAgent')
    <3>1. ASSUME NEW k \in DOMAIN toAgent', toAgent'[k].type \in {"attach", "detach"}
          PROVE  \E j \in k + 1 .. Len(toAgent') : toAgent'[j].type = "list_sessions"
      <4>1. k # Len(u) + 1
        BY <2>3, <3>1
      <4>2. Len(u) + 1 \in k + 1 .. Len(toAgent')
        BY <2>1, <2>2, <4>1
      <4> QED
        BY <2>3, <4>2
    <3> QED
      BY <3>1 DEF Asks
  <2>5. Lists(toAgent')
    BY <2>2, <2>3 DEF Lists
  <2>6. ASSUME ~stale' PROVE lists' = <<>> /\ OneList(toAgent')
    <3>1. lists' = <<>> /\ ~Lists(toAgent)
      BY <2>6 DEF BeginSync, SyncUnderWay, Lists
    <3>2. ASSUME NEW k \in DOMAIN toAgent', toAgent'[k].type = "list_sessions"
          PROVE  k = Len(u) + 1
      <4>1. CASE k \in 1..Len(toAgent)
        BY <2>1, <2>2, <3>1, <3>2, <4>1 DEF Lists
      <4>2. CASE k \in Len(toAgent) + 1 .. Len(u)
        <5>1. k = Len(toAgent) + 1 /\ Len(sent) = 1
          <6> DEFINE a == Len(toAgent)
                     b == Len(sent)
                     c == Len(u)
          <6>1. c = a + b /\ b <= 1 /\ a \in Nat /\ b \in Nat /\ k \in a + 1 .. c
            BY <2>1, <2>2, <4>2
          <6> HIDE DEF a, b, c
          <6>2. k = a + 1 /\ b = 1
            BY <6>1
          <6> QED
            BY <6>2 DEF a, b
        <5>2. toAgent'[k] = sent[1] /\ sent[1] \in [type : {"attach", "detach"}, sid : Session]
          <6>1. toAgent'[k] = u[k]
            BY <2>1, <4>2, <2>2
          <6>2. u[Len(toAgent) + 1] = sent[1]
            BY <2>1, <5>1
          <6>3. sent[1] \in [type : {"attach", "detach"}, sid : Session]
            <7>1. 1 \in 1..Len(sent)
              BY <5>1
            <7> DEFINE S == [type : {"attach", "detach"}, sid : Session]
            <7>2. sent \in Seq(S)
              OBVIOUS
            <7> HIDE DEF S
            <7>3. sent[1] \in S
              BY <7>1, <7>2, ElementOfSeq
            <7> QED
              BY <7>3 DEF S
          <6> QED
            BY <5>1, <6>1, <6>2, <6>3
        <5>3. sent[1].type # "list_sessions"
          BY <5>2
        <5> QED
          BY <3>2, <5>2, <5>3
      <4> QED
        BY <2>1, <2>2, <4>1, <4>2
    <3> QED
      BY <3>1, <3>2 DEF OneList
  <2>7. TabsAreTrue'
    BY <2>5 DEF TabsAreTrue, SyncUnderWay, Lists
  <2>8. ASSUME ~stale' PROVE ListIsTrue'
    BY <2>6, <2>8 DEF ListIsTrue
  <2>9. ASSUME ~stale' PROVE Len(lists') <= 1
    BY <2>6, <2>9
  <2> QED
    BY <1>3, <2>4, <2>5, <2>6, <2>7, <2>8, <2>9, SyncInvIsNext
<1> QED
  BY <1>2, <1>3

\* Nothing but the page, its connection or the handler changes.
LEMMA SyncSame ==
    ASSUME SyncInv, UNCHANGED <<toAgent, syncing, tmux>>, ~stale => TabsAreTrue'
    PROVE  SyncInv'
<1>1. ListIsTrue => ListIsTrue'
  BY DEF ListIsTrue, syncing, tmux
<1> QED
  BY <1>1, SyncInvIs, SyncInvIsNext DEF syncing, tmux

\* What the hub sends to the agent and what it has read are not about lists.
LEMMA TabsStayTrue ==
    ASSUME TabsAreTrue, UNCHANGED <<tabs, live>>,
           SyncUnderWay' \/ ~SyncUnderWay, SyncToCome => SyncToCome',
           socket' = "open" /\ handler' = "serving" => socket = "open" /\ handler = "serving"
    PROVE  TabsAreTrue'
BY DEF TabsAreTrue

LEMMA SyncToComeShown ==
    ASSUME TypeOK, NEW p \in Pages(active), Show(p), socket = "open"
    PROVE  SyncToCome \/ AsksForSync(p) => SyncToCome'
<1>1. toHub \in Seq(ToHubMsgs) /\ p.out \in Seq(TabMsgs) /\ toHub' = toHub \o p.out
  BY DEF TypeOK, Pages, PageSet, Show
<1> DEFINE o == p.out
<1>2. o \in Seq(ToHubMsgs)
  <2>1. TabMsgs \subseteq ToHubMsgs
    BY DEF ToHubMsgs
  <2> QED
    BY <1>1, <2>1, SeqMonotonic
<1>3. /\ toHub \o o \in Seq(ToHubMsgs) /\ Len(toHub \o o) = Len(toHub) + Len(o)
      /\ \A k \in 1..(Len(toHub) + Len(o)) :
            (toHub \o o)[k] = IF k <= Len(toHub) THEN toHub[k] ELSE o[k - Len(toHub)]
  BY <1>1, <1>2, ConcatProperties
<1> HIDE DEF o
<1>4. /\ Len(toHub) \in Nat /\ Len(o) \in Nat /\ DOMAIN toHub = 1..Len(toHub)
      /\ DOMAIN o = 1..Len(o) /\ DOMAIN toHub' = 1..(Len(toHub) + Len(o))
  BY <1>1, <1>2, <1>3 DEF o
<1>5. \A k \in 1..Len(toHub) : k \in DOMAIN toHub' /\ toHub'[k] = toHub[k]
  BY <1>1, <1>3, <1>4 DEF o
<1>6. \A k \in 1..Len(o) : Len(toHub) + k \in DOMAIN toHub' /\ toHub'[Len(toHub) + k] = o[k]
  <2>1. ASSUME NEW k \in 1..Len(o)
        PROVE  Len(toHub) + k \in DOMAIN toHub' /\ toHub'[Len(toHub) + k] = o[k]
    <3>1. /\ Len(toHub) + k \in 1..(Len(toHub) + Len(o)) /\ ~(Len(toHub) + k <= Len(toHub))
          /\ (Len(toHub) + k) - Len(toHub) = k
      BY <1>4
    <3> QED
      BY <1>1, <1>3, <1>4, <3>1 DEF o
  <2> QED
    BY <2>1
<1>7. SyncToCome => SyncToCome'
  BY <1>4, <1>5 DEF SyncToCome
<1>8. AsksForSync(p) => SyncToCome'
  BY <1>4, <1>6 DEF SyncToCome, AsksForSync, o
<1> QED
  BY <1>7, <1>8

LEMMA HeadIsNoSync ==
    ASSUME TypeOK, toHub # <<>>, toHub' = Tail(toHub),
           Head(toHub).type \notin {"attach", "detach"}, SyncToCome
    PROVE  SyncToCome'
<1>1. toHub \in Seq(ToHubMsgs)
  BY DEF TypeOK
<1>2. /\ Len(toHub) \in Nat /\ DOMAIN toHub = 1..Len(toHub)
      /\ DOMAIN toHub' = 1..(Len(toHub) - 1) /\ toHub[1] = Head(toHub)
      /\ \A k \in 1..(Len(toHub) - 1) : toHub'[k] = toHub[k + 1]
  BY <1>1
<1>3. PICK k \in 1..Len(toHub) : toHub[k].type \in {"attach", "detach"}
  BY <1>2 DEF SyncToCome
<1>4. k - 1 \in 1..(Len(toHub) - 1) /\ toHub'[k - 1] = toHub[k]
  <2>1. k # 1
    BY <1>2, <1>3
  <2> QED
    BY <1>2, <1>3, <2>1
<1> QED
  BY <1>2, <1>3, <1>4 DEF SyncToCome

LEMMA SyncHubReads ==
    ASSUME TypeOK, SyncInv, HubReads
    PROVE  SyncInv'
<1> DEFINE m == Head(toHub)
<1>1. /\ toHub # <<>> /\ m \in ToHubMsgs /\ toHub' = Tail(toHub)
      /\ handler \in {"attach", "serving"}
  BY HeadToHub DEF HubReads
<1>2. /\ m.type \in {"attach", "active", "detach", "input"}
      /\ m.type \in {"attach", "detach"} =>
            m \in [type : {"attach", "detach"}, sid : Session]
      /\ m.type = "input" => m.frame \in Bytes
  BY <1>1, ToHubKinds
<1>3. UNCHANGED <<page, link, tmux>> /\ agent' = agent /\ tabs' = tabs /\ live' = live
      /\ socket' = socket
  BY DEF HubReads, tmux, page, link
<1>4. /\ handler = "attach" => FirstMessage(m)
      /\ handler = "serving" => Handle(m)
  BY DEF HubReads
<1>5. m.type \notin {"attach", "detach"} => (SyncToCome => SyncToCome')
  BY <1>1, HeadIsNoSync
<1> HIDE DEF m
<1>6. ASSUME NEW code, Refuse(code) PROVE SyncInv'
  <2>1. TabsAreTrue'
    BY <1>6 DEF Refuse, TabsAreTrue
  <2> QED
    BY <1>3, <1>6, <2>1, SyncSame DEF Refuse
<1>7. ASSUME m.type \in {"attach", "detach"}, BeginSync(<<m>>) PROVE SyncInv'
  <2>1. <<m>> \in Seq([type : {"attach", "detach"}, sid : Session]) /\ Len(<<m>>) <= 1
    BY <1>2, <1>7
  <2> QED
    BY <1>3, <1>7, <2>1, SyncBegins
<1>8. CASE handler = "attach"
  BY <1>2, <1>4, <1>6, <1>7, <1>8 DEF FirstMessage
<1>9. CASE handler = "serving" /\ m.type \in {"attach", "detach"}
  BY <1>4, <1>6, <1>7, <1>9 DEF Handle, PassOn
<1>10. CASE handler = "serving" /\ m.type = "active"
  <2>1. SetHubActive(m)
    BY <1>4, <1>10 DEF Handle
  <2>2. ASSUME ~stale PROVE TabsAreTrue'
    <3>1. TabsAreTrue
      BY <2>2, SyncInvIs
    <3>2. SyncUnderWay' \/ ~SyncUnderWay
      BY <2>1 DEF SetHubActive, SyncUnderWay, syncing
    <3> QED
      BY <1>3, <1>5, <1>10, <3>1, <3>2, TabsStayTrue
  <2> QED
    BY <1>3, <2>1, <2>2, SyncSame DEF SetHubActive
<1>11. CASE handler = "serving" /\ m.type = "input"
  <2>1. Input(m)
    BY <1>4, <1>11 DEF Handle
  <2> DEFINE f == Decode(m.frame)
             i == [type |-> "input", frame |-> Encode(f.sid, f.payload)]
  <2>2. /\ Asks(toAgent) => Asks(toAgent')
        /\ Lists(toAgent') <=> Lists(toAgent)
        /\ OneList(toAgent) => OneList(toAgent')
    <3>1. CASE f # Malformed /\ f.sid = hubActive
      <4>1. Encode(f.sid, f.payload) \in Bytes
        BY <1>2, <1>11, <3>1, DecodeType
      <4>2. i \in ToAgentMsgs /\ i.type = "input"
        BY <4>1 DEF ToAgentMsgs
      <4>3. toAgent' = Append(toAgent, i)
        BY <2>1, <3>1 DEF Input
      <4>4. toAgent \in Seq(ToAgentMsgs)
        BY DEF TypeOK
      <4> HIDE DEF i, f
      <4> QED
        BY <4>2, <4>3, <4>4, InputAppended
    <3>2. CASE ~(f # Malformed /\ f.sid = hubActive)
      BY <2>1, <3>2 DEF Input
    <3> QED
      BY <3>1, <3>2
  <2>3. UNCHANGED <<hub, lists, stale>> /\ handler' = handler
    BY <2>1 DEF Input, hub, syncing
  <2>4. ASSUME ~stale PROVE TabsAreTrue'
    <3>1. TabsAreTrue
      BY <2>4, SyncInvIs
    <3>2. SyncUnderWay' \/ ~SyncUnderWay
      BY <2>2, <2>3 DEF SyncUnderWay, Lists
    <3> QED
      BY <1>3, <1>5, <1>11, <2>3, <3>1, <3>2, TabsStayTrue
  <2>5. ListIsTrue => ListIsTrue'
    BY <1>3, <2>3 DEF ListIsTrue
  <2>6. starting' = starting
    BY <1>3 DEF tmux
  <2> QED
    BY <1>3, <2>2, <2>3, <2>4, <2>5, <2>6, SyncInvIs, SyncInvIsNext
<1> QED
  BY <1>1, <1>2, <1>8, <1>9, <1>10, <1>11

LEMMA SyncAgentReads ==
    ASSUME TypeOK, SyncInv, AgentReads \/ AttachFails
    PROVE  SyncInv'
<1> DEFINE m == Head(toAgent)
<1>1. /\ toAgent # <<>> /\ toAgent \in Seq(ToAgentMsgs) /\ toAgent' = Tail(toAgent)
      /\ m \in ToAgentMsgs
  <2>1. toAgent # <<>> /\ toAgent' = Tail(toAgent)
    BY DEF AgentReads, AttachFails
  <2>2. toAgent \in Seq(ToAgentMsgs)
    BY DEF TypeOK
  <2> QED
    BY <2>1, <2>2
<1>2. UNCHANGED <<page, link, hub, toHub, agent>> /\ tabs' = tabs
  BY DEF AgentReads, AttachFails, page, tmux
<1>3. \/ m.type \in {"attach", "detach"} /\ UNCHANGED syncing
      \/ m.type = "list_sessions" /\ ListSessions
      \/ m.type = "input" /\ UNCHANGED <<attached, live, starting, syncing>>
  BY DEF AgentReads, AttachFails
<1>4. Asks(toAgent) /\ Asks(toAgent')
  BY <1>1, SyncInvIs, AsksTail
<1>5. /\ m.type \in {"attach", "detach"} => Lists(toAgent')
      /\ Lists(toAgent') => Lists(toAgent)
      /\ m.type # "list_sessions" /\ Lists(toAgent) => Lists(toAgent')
      /\ OneList(toAgent) => OneList(toAgent')
      /\ OneList(toAgent) /\ m.type = "list_sessions" => ~Lists(toAgent')
      /\ m.type = "list_sessions" => Lists(toAgent)
  <2>1. m.type = "list_sessions" => Lists(toAgent)
    BY <1>1 DEF Lists
  <2> QED
    BY <1>1, <1>4, <2>1, AsksTail, ListsTail
<1> HIDE DEF m
<1>6. CASE m.type \in {"attach", "detach"} /\ UNCHANGED syncing
  <2>1. ASSUME ~stale PROVE lists = <<>>
    BY <1>5, <1>6, <2>1, SyncInvIs
  <2>2. TabsAreTrue'
    BY <1>5, <1>6 DEF TabsAreTrue, SyncUnderWay, Lists
  <2>3. ASSUME ~stale PROVE ListIsTrue'
    BY <1>6, <2>1, <2>3 DEF ListIsTrue, syncing
  <2> QED
    BY <1>2, <1>4, <1>5, <1>6, <2>1, <2>2, <2>3, SyncInvIs, SyncInvIsNext DEF syncing
<1>7. CASE m.type = "list_sessions" /\ ListSessions
  <2>1. PICK list :
           /\ lists' = Append(lists, list)
           /\ stale' = (stale \/ starting # {} \/ ToSet(list) # live)
    BY <1>7 DEF ListSessions
  <2>2. live' = live /\ starting' = starting
    BY <1>7 DEF ListSessions
  <2>3. SUFFICES ASSUME ~stale'
                 PROVE  /\ agent' /\ Len(lists') <= 1 /\ ~Lists(toAgent') /\ OneList(toAgent')
                        /\ starting' = {} /\ ListIsTrue' /\ TabsAreTrue'
    BY <1>4, SyncInvIsNext
  <2>4. ~stale /\ starting = {} /\ ToSet(list) = live
    BY <2>1, <2>3
  <2>5. agent /\ (lists # <<>> => ~Lists(toAgent)) /\ OneList(toAgent)
    BY <2>4, SyncInvIs
  <2>6. lists = <<>>
    BY <1>5, <1>7, <2>5
  <2>7. lists' = <<list>>
    BY <2>1, <2>6
  <2>8. Len(lists') = 1 /\ lists' # <<>> /\ lists'[1] = list
    BY <2>7
  <2>9. ListIsTrue'
    BY <2>2, <2>4, <2>8 DEF ListIsTrue
  <2>10. TabsAreTrue'
    BY <2>8 DEF TabsAreTrue, SyncUnderWay
  <2> QED
    BY <1>2, <1>5, <1>7, <2>2, <2>4, <2>5, <2>8, <2>9, <2>10
<1>8. CASE m.type = "input" /\ UNCHANGED <<attached, live, starting, syncing>>
  <2>1. Lists(toAgent') <=> Lists(toAgent)
    BY <1>5, <1>8
  <2>2. ASSUME ~stale PROVE TabsAreTrue'
    <3>1. TabsAreTrue
      BY <2>2, SyncInvIs
    <3>2. SyncUnderWay' \/ ~SyncUnderWay
      BY <1>8, <2>1 DEF SyncUnderWay, Lists, syncing
    <3>3. SyncToCome => SyncToCome'
      BY <1>2 DEF SyncToCome
    <3> QED
      BY <1>2, <1>8, <3>1, <3>2, <3>3, TabsStayTrue DEF link, hub
  <2>3. ListIsTrue => ListIsTrue'
    BY <1>8 DEF ListIsTrue, syncing
  <2> QED
    BY <1>2, <1>4, <1>5, <1>8, <2>1, <2>2, <2>3, SyncInvIs, SyncInvIsNext DEF syncing
<1> QED
  BY <1>3, <1>6, <1>7, <1>8

LEMMA SyncInit == Init => SyncInv
<1> SUFFICES ASSUME Init PROVE SyncInv
  OBVIOUS
<1>1. toAgent = <<>> /\ stale = TRUE
  BY DEF Init
<1>2. Asks(toAgent)
  BY <1>1 DEF Asks
<1> QED
  BY <1>1, <1>2, SyncInvIs

LEMMA SyncStep == TypeOK /\ SyncInv /\ [Next]_vars => SyncInv'
<1> SUFFICES ASSUME TypeOK, SyncInv, [Next]_vars PROVE SyncInv'
  OBVIOUS
<1>0. ~stale => TabsAreTrue
  BY SyncInvIs
\* Steps that leave queues, lists, tabs and tmux alone.
<1>1. ASSUME UNCHANGED <<toAgent, syncing, tmux, tabs>>, SyncToCome => SyncToCome',
             socket' = "open" /\ handler' = "serving" => socket = "open" /\ handler = "serving"
      PROVE  SyncInv'
  <2>1. SyncUnderWay' \/ ~SyncUnderWay
    BY <1>1 DEF SyncUnderWay, syncing
  <2>2. tabs' = tabs /\ live' = live
    BY <1>1 DEF tmux
  <2>3. ~stale => TabsAreTrue'
    BY <1>0, <1>1, <2>1, <2>2, TabsStayTrue
  <2> QED
    BY <1>1, <2>3, SyncSame
\* Steps after which nobody is served.
<1>2. ASSUME UNCHANGED <<toAgent, syncing, tmux>>, socket' # "open" \/ handler' # "serving"
      PROVE  SyncInv'
  BY <1>2, SyncSame DEF TabsAreTrue
<1>3. CASE UNCHANGED vars
  <2>1. SyncToCome => SyncToCome'
    BY <1>3 DEF vars, SyncToCome
  <2> QED
    BY <1>1, <1>3, <2>1 DEF vars, link, hub, page
<1>4. CASE LoadPage \/ DialFails \/ Ended \/ Drop \/ Redial \/ Opens
  BY <1>2, <1>4 DEF LoadPage, DialFails, Ended, Drop, Redial, Opens, Closed
<1>5. CASE UserActs
  <2>1. UNCHANGED <<link, hub, toAgent, syncing, tmux>> /\ socket' = socket /\ handler' = handler
    BY <1>5 DEF UserActs, link, hub
  <2>2. CASE Type
    <3>1. SyncToCome => SyncToCome'
      <4> DEFINE m == [type |-> "input", tab |-> active, frame |-> Encode(active, <<1>>)]
      <4>1. toHub' = Append(toHub, m) /\ toHub \in Seq(ToHubMsgs)
        BY <2>2 DEF Type, TypeOK
      <4> HIDE DEF m
      <4>2. \A k \in DOMAIN toHub : k \in DOMAIN toHub' /\ toHub'[k] = toHub[k]
        BY <4>1
      <4> QED
        BY <4>2 DEF SyncToCome
    <3> QED
      BY <1>1, <2>1, <2>2, <3>1 DEF Type, page
  <2>3. CASE \E s \in Session : NewTab(s) \/ CloseTab(s) \/ Select(s)
    <3>1. PICK p \in Pages(active) : Show(p) /\ (p.tabs = tabs \/ AsksForSync(p))
      BY <2>3, TabActs
    <3>2. CASE socket = "open"
      <4>1. SyncToCome \/ AsksForSync(p) => SyncToCome'
        BY <3>1, <3>2, SyncToComeShown
      <4>2. CASE p.tabs = tabs
        BY <1>1, <2>1, <3>1, <4>1, <4>2 DEF Show
      <4>3. CASE AsksForSync(p)
        BY <2>1, <4>1, <4>3, SyncSame DEF TabsAreTrue
      <4> QED
        BY <3>1, <4>2, <4>3
    <3>3. CASE socket # "open"
      BY <1>2, <2>1, <3>3
    <3> QED
      BY <3>2, <3>3
  <2> QED
    BY <1>5, <2>2, <2>3 DEF UserActs
<1>6. CASE ReceiveError \/ TokenExpires
  <2>1. UNCHANGED <<toAgent, syncing, tmux, tabs, toHub, socket, handler>>
    BY <1>6 DEF ReceiveError, TokenExpires, page, link, hub
  <2>2. SyncToCome => SyncToCome'
    BY <2>1 DEF SyncToCome
  <2> QED
    BY <1>1, <2>1, <2>2
<1>7. CASE HubReads
  BY <1>7, SyncHubReads
<1>8. CASE AgentReads \/ AttachFails
  BY <1>8, SyncAgentReads
<1>9. CASE AgentGoes
  <2>1. toAgent' = <<>> /\ stale' = TRUE
    BY <1>9 DEF AgentGoes
  <2>2. Asks(toAgent')
    BY <2>1 DEF Asks
  <2> QED
    BY <2>1, <2>2, SyncInvIsNext
<1>10. CASE AgentComes
  <2>1. stale' /\ toAgent' = toAgent
    <3>1. ~agent /\ stale' = stale /\ toAgent' = toAgent
      BY <1>10 DEF AgentComes, syncing
    <3> QED
      BY <3>1, SyncInvIs
  <2> QED
    BY <2>1, SyncInvIs, SyncInvIsNext
<1>11. ASSUME NEW k \in DOMAIN lists, ReceiveSync(k) PROVE SyncInv'
  <2>1. /\ UNCHANGED <<link, hub, toAgent, stale, tmux>> /\ lists' = RemoveAt(lists, k)
        /\ socket' = socket /\ handler' = handler /\ live' = live
        /\ agent' = agent /\ starting' = starting
    BY <1>11 DEF ReceiveSync, link, hub, tmux
  <2>2. SUFFICES ASSUME ~stale
                 PROVE  lists' = <<>> /\ TabsAreTrue'
    <3>1. ASSUME lists' = <<>> PROVE ListIsTrue' /\ Len(lists') <= 1
      BY <3>1 DEF ListIsTrue
    <3> QED
      BY <2>1, <3>1, SyncInvIs, SyncInvIsNext
  <2>3. Len(lists) <= 1 /\ ListIsTrue /\ lists \in Seq(Seq(Session))
    BY <2>2, SyncInvIs DEF TypeOK
  <2>4. lists' = <<>> /\ k = 1 /\ lists # <<>>
    <3> DEFINE S == Seq(Session)
    <3>1. lists \in Seq(S)
      BY <2>3
    <3> HIDE DEF S
    <3>2. RemoveAt(lists, k) = <<>> /\ k = 1
      BY <2>3, <3>1, RemoveAtType
    <3>3. lists # <<>>
      BY <1>11, <3>1
    <3> QED
      BY <2>1, <3>2, <3>3
  <2>5. ToSet(lists[k]) = live
    BY <2>3, <2>4 DEF ListIsTrue
  <2>6. CASE socket = "open" /\ handler = "serving"
    <3>1. PICK p \in Pages(active) : Show(p) /\ ToSet(p.tabs) = ToSet(lists[k])
      BY <1>11, <2>6, ReceiveSyncShows
    <3>2. ToSet(tabs') = live'
      BY <2>1, <2>5, <3>1 DEF Show
    <3> QED
      BY <2>4, <3>2 DEF TabsAreTrue
  <2>7. CASE ~(socket = "open" /\ handler = "serving")
    BY <2>1, <2>4, <2>7 DEF TabsAreTrue
  <2> QED
    BY <2>4, <2>6, <2>7
<1>12. ASSUME NEW k \in DOMAIN lists, TimedOut(k) PROVE SyncInv'
  BY <1>12, SyncInvIs, SyncInvIsNext DEF TimedOut
<1>13. ASSUME NEW s \in Session, TmuxStarts(s) PROVE SyncInv'
  <2>1. /\ UNCHANGED <<page, link, hub, toHub, toAgent, syncing, agent>> /\ s \in starting
        /\ lists' = lists /\ stale' = stale
    BY <1>13 DEF TmuxStarts, syncing
  <2>2. ASSUME ~stale PROVE Lists(toAgent) /\ lists = <<>>
    BY <2>1, <2>2, SyncInvIs
  <2>3. ASSUME ~stale PROVE ListIsTrue' /\ TabsAreTrue'
    BY <2>1, <2>2, <2>3 DEF ListIsTrue, TabsAreTrue, SyncUnderWay, Lists
  <2> QED
    BY <2>1, <2>2, <2>3, SyncInvIs, SyncInvIsNext
<1>14. ASSUME NEW s \in Session, SessionsChange(s) PROVE SyncInv'
  <2>1. CASE BeginSync(<<>>)
    <3>1. <<>> \in Seq([type : {"attach", "detach"}, sid : Session]) /\ Len(<<>>) <= 1
      OBVIOUS
    <3>2. agent' = agent
      BY <1>14 DEF SessionsChange
    <3> QED
      BY <2>1, <3>1, <3>2, SyncBegins
  <2>2. CASE stale' = TRUE /\ UNCHANGED <<toAgent, lists>>
    BY <2>2, SyncInvIs, SyncInvIsNext
  <2> QED
    BY <1>14, <2>1, <2>2 DEF SessionsChange
<1> QED
  BY <1>3, <1>4, <1>5, <1>6, <1>7, <1>8, <1>9, <1>10, <1>11, <1>12, <1>13, <1>14 DEF Next

-----------------------------------------------------------------------------
(* The back-off *)

Pace == IF offline THEN 1000 ELSE 500

\* DelayInv, of the values of its variables.
Delays(tm, so, at, de, pace) ==
    /\ tm => so = "closed"
    /\ so = "open" => de = 0
    /\ de > 0 => \E n \in 0..MaxStep : at = NextAttempt(n) /\ de = Backoff(n, pace)

LEMMA DelayInvIs ==
    /\ DelayInv <=> Delays(timer, socket, attempt, delay, Pace)
    /\ DelayInv' <=> Delays(timer', socket', attempt', delay', Pace')
<1>1. DelayInv <=> Delays(timer, socket, attempt, delay, Pace)
  BY Zenon DEF DelayInv, Delays, Pace
<1>2. DelayInv' <=> Delays(timer', socket', attempt', delay', Pace')
  BY Zenon DEF DelayInv, Delays, Pace
<1> QED
  BY <1>1, <1>2

LEMMA DelayInit == Init => DelayInv
<1> SUFFICES ASSUME Init PROVE Delays(timer, socket, attempt, delay, Pace)
  BY DelayInvIs
<1>1. timer = FALSE /\ delay = 0
  BY DEF Init
<1> QED
  BY <1>1 DEF Delays

LEMMA DelayClosed ==
    ASSUME TypeOK, DelayInv, Closed, offline' = offline
    PROVE  DelayInv'
<1>1. socket' = "closed" /\ Pace' = Pace
  BY DEF Closed, Pace
<1>2. attempt \in 0..MaxStep
  BY DEF TypeOK
<1>3. Delays(timer, socket, attempt, delay, Pace)
  BY DelayInvIs
<1>4. SUFFICES Delays(timer', "closed", attempt', delay', Pace)
  BY <1>1, DelayInvIs
<1>5. CASE timer \/ paused
  <2>1. attempt' = attempt /\ delay' = delay
    BY <1>5 DEF Closed
  <2> QED
    BY <1>3, <2>1 DEF Delays
<1>6. CASE ~(timer \/ paused)
  <2>1. attempt' = NextAttempt(attempt) /\ delay' = Backoff(attempt, Pace)
    BY <1>6 DEF Closed, Pace
  <2> QED
    BY <1>2, <2>1 DEF Delays
<1> QED
  BY <1>5, <1>6

LEMMA DelayStep == TypeOK /\ DelayInv /\ [Next]_vars => DelayInv'
<1> SUFFICES ASSUME TypeOK, DelayInv, [Next]_vars PROVE DelayInv'
  OBVIOUS
<1>0. Delays(timer, socket, attempt, delay, Pace)
  BY DelayInvIs
<1>1. ASSUME UNCHANGED link PROVE DelayInv'
  <2>1. UNCHANGED <<timer, socket, attempt, delay>> /\ Pace' = Pace
    BY <1>1 DEF link, Pace
  <2> QED
    BY <1>0, <2>1, DelayInvIs
<1>2. CASE LoadPage
  <2>1. /\ UNCHANGED <<timer, attempt, delay>> /\ Pace' = Pace /\ socket = "none"
        /\ socket' = "connecting"
    BY <1>2 DEF LoadPage, Pace
  <2>2. Delays(timer', socket', attempt', delay', Pace')
    BY <1>0, <2>1 DEF Delays
  <2> QED
    BY <2>2, DelayInvIs
<1>3. CASE DialFails \/ Ended \/ Drop
  <2>1. Closed /\ offline' = offline
    BY <1>3 DEF DialFails, Ended, Drop
  <2> QED
    BY <2>1, DelayClosed
<1>4. CASE Redial
  <2>1. /\ UNCHANGED <<attempt, delay>> /\ Pace' = Pace /\ timer' = FALSE
        /\ socket' = "connecting"
    BY <1>4 DEF Redial, Pace
  <2>2. Delays(timer', socket', attempt', delay', Pace')
    BY <1>0, <2>1 DEF Delays
  <2> QED
    BY <2>2, DelayInvIs
<1>5. CASE Opens
  <2>1. timer' = timer /\ delay' = 0 /\ socket = "connecting"
    BY <1>5 DEF Opens
  <2>2. Delays(timer', socket', attempt', delay', Pace')
    BY <1>0, <2>1 DEF Delays
  <2> QED
    BY <2>2, DelayInvIs
<1>6. CASE ReceiveError
  <2>1. UNCHANGED <<timer, socket, attempt, delay>> /\ socket = "open"
    BY <1>6 DEF ReceiveError
  <2>2. Delays(timer', socket', attempt', delay', Pace')
    BY <1>0, <2>1 DEF Delays
  <2> QED
    BY <2>2, DelayInvIs
<1>7. CASE UNCHANGED vars \/ UserActs \/ HubReads \/ AgentReads \/ AttachFails \/ AgentGoes
           \/ AgentComes \/ TokenExpires
  BY <1>1, <1>7 DEF vars, UserActs, HubReads, AgentReads, AttachFails, AgentGoes, AgentComes,
                    TokenExpires
<1>8. ASSUME NEW k, ReceiveSync(k) \/ TimedOut(k) PROVE DelayInv'
  BY <1>1, <1>8 DEF ReceiveSync, TimedOut
<1>9. ASSUME NEW s, TmuxStarts(s) \/ SessionsChange(s) PROVE DelayInv'
  BY <1>1, <1>9 DEF TmuxStarts, SessionsChange
<1> QED
  BY <1>2, <1>3, <1>4, <1>5, <1>6, <1>7, <1>8, <1>9 DEF Next

-----------------------------------------------------------------------------
(* The theorems *)

\* The inductive invariant holds of every behaviour: the types, with InputInv,
\* SyncInv and DelayInv, on which the theorems below rest.
THEOREM Invariance == Spec => []IInv
<1>1. Init => IInv
  BY TypeInit, InputInit, SyncInit, DelayInit DEF IInv, InputInv
<1>2. IInv /\ [Next]_vars => IInv'
  <2>1. TypeOK /\ [Next]_vars => TypeOK'
    BY TypeStep
  <2>2. TypeOK /\ InputInv /\ [Next]_vars => InputInv'
    BY InputStep
  <2>3. TypeOK /\ SyncInv /\ [Next]_vars => SyncInv'
    BY SyncStep
  <2>4. TypeOK /\ DelayInv /\ [Next]_vars => DelayInv'
    BY DelayStep
  <2> QED
    BY <2>1, <2>2, <2>3, <2>4 DEF IInv, InputInv
<1> QED
  BY <1>1, <1>2, PTL DEF Spec

\* Every variable keeps its type; the tabs are distinct, and one of them is
\* shown whenever there is one, through every order of closing, adding and
\* syncing (web/app.js).
THEOREM TypeCorrect == Spec => []TypeOK
<1>1. IInv => TypeOK
  BY DEF IInv
<1> QED
  BY <1>1, Invariance, PTL

\* The hub never drops input that a user types in a tab: when the hub gets to
\* it, the tab's session is the active one of the connection, whatever
\* switches, closes, syncs and reconnects came before (hub.go:476).
THEOREM InputAlwaysGoesThrough == Spec => []InputGoesThrough
<1>1. IInv => InputGoesThrough
  <2> DEFINE m == Head(toHub)
  <2> SUFFICES ASSUME IInv, handler = "serving", toHub # <<>>, m.type = "input"
               PROVE  Decode(m.frame) = [sid |-> hubActive, payload |-> <<1>>] /\ m.tab = hubActive
    BY DEF InputGoesThrough
  <2>1. TypeOK /\ InputInv
    BY DEF IInv, InputInv
  <2>2. m \in ToHubMsgs /\ toHub \in Seq(ToHubMsgs)
    BY <2>1, HeadToHub DEF TypeOK
  <2>3. 1 \in DOMAIN toHub /\ toHub[1] = m
    BY <2>2
  <2>4. InForceOf(toHub, hubActive, 1, m.tab) /\ CanEncode(m.tab) /\ m.frame = Encode(m.tab, <<1>>)
    BY <2>1, <2>3, InputInvIs DEF Inputs
  <2> HIDE DEF m
  <2>5. m.tab = hubActive
    BY <2>4 DEF InForceOf
  <2>6. m.tab \in Bytes
    BY <2>2, ToHubKinds, SessionAssumption
  <2>7. Decode(Encode(m.tab, <<1>>)) = [sid |-> m.tab, payload |-> <<1>>]
    BY <2>4, <2>6, PayloadType, DecodeInvertsEncode
  <2> QED
    BY <2>4, <2>5, <2>7 DEF m
<1> QED
  BY <1>1, Invariance, PTL

\* Once nothing is under way the tabs are the tmux sessions, unless the last
\* list was stale when it was taken (app.js:346, hub.go:626).
THEOREM TabsAlwaysFollowSessions == Spec => []TabsFollowSessions
<1>1. IInv => TabsFollowSessions
  <2> SUFFICES ASSUME IInv, Quiet, ~stale PROVE ToSet(tabs) = live
    BY DEF TabsFollowSessions
  <2>1. TabsAreTrue
    BY DEF IInv, SyncInv
  <2>2. ~SyncToCome
    <3>1. toHub = <<>>
      BY DEF Quiet
    <3> QED
      BY <3>1 DEF SyncToCome
  <2> QED
    BY <2>1, <2>2 DEF TabsAreTrue, Quiet
<1> QED
  BY <1>1, Invariance, PTL

\* A failed dial is followed by a longer pause than the one before, or by the
\* longest (scheduleReconnect, web/app.js).
THEOREM BackoffAlwaysGrows == Spec => BackoffGrows
<1>1. IInv /\ [Next]_vars =>
         [timer' /\ ~timer /\ delay > 0 => delay' > delay \/ delay' = Cap]_vars
  <2> SUFFICES ASSUME IInv, Next, timer', ~timer, delay > 0
               PROVE  delay' > delay \/ delay' = Cap
    BY DEF vars
  <2>1. DialFails \/ Ended \/ Drop
    <3>1. CASE LoadPage \/ UserActs \/ Redial \/ Opens \/ ReceiveError
      BY <3>1 DEF LoadPage, UserActs, Redial, Opens, ReceiveError, link
    <3>2. CASE \/ HubReads \/ AgentReads \/ AttachFails \/ AgentGoes \/ AgentComes
               \/ TokenExpires
      BY <3>2 DEF HubReads, AgentReads, AttachFails, AgentGoes, AgentComes, TokenExpires, link
    <3>3. CASE \E k \in DOMAIN lists : ReceiveSync(k) \/ TimedOut(k)
      BY <3>3 DEF ReceiveSync, TimedOut, link
    <3>4. CASE \E s \in Session : TmuxStarts(s) \/ SessionsChange(s)
      BY <3>4 DEF TmuxStarts, SessionsChange, link
    <3> QED
      BY <3>1, <3>2, <3>3, <3>4 DEF Next
  <2>2. Closed
    BY <2>1 DEF DialFails, Ended, Drop
  <2>3. delay' = Backoff(attempt, Pace)
    <3>1. ~(timer \/ paused)
      <4>1. timer' # timer
        OBVIOUS
      <4>2. timer \/ paused => UNCHANGED <<timer, attempt, delay>>
        BY <2>2 DEF Closed
      <4>3. UNCHANGED <<timer, attempt, delay>> => timer' = timer
        OBVIOUS
      <4> QED
        BY <4>1, <4>2, <4>3, Zenon
    <3> QED
      BY <2>2, <3>1, Zenon DEF Closed, Pace
  <2>4. Pace \in {500, 1000}
    BY DEF Pace
  <2>5. PICK n \in 0..MaxStep : attempt = NextAttempt(n) /\ delay = Backoff(n, Pace)
    BY DelayInvIs DEF IInv, Delays
  <2>6. n \in 0..5 /\ n <= MaxStep
    BY NextAttemptType, LongestPause
  <2> HIDE DEF Pace
  <2> QED
    BY <2>3, <2>4, <2>5, <2>6, BackoffSteps
<1> QED
  BY <1>1, Invariance, PTL DEF Spec, BackoffGrows
=============================================================================
