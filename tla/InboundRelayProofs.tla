------------------------- MODULE InboundRelayProofs -------------------------
(***************************************************************************)
(* Proofs about the way of the messages to the worker, for any messages    *)
(* and any number of attempts.                                             *)
(***************************************************************************)
EXTENDS InboundRelay, SequenceTheorems, TLAPS

(* m stands before n in q.                                                 *)
Before(q, m, n) == \E i, j \in DOMAIN q : i < j /\ q[i] = m /\ q[j] = n

ArrivedOnce == \A i, j \in DOMAIN arrived : arrived[i] = arrived[j] => i = j

Active == relay.pc # "idle"

(* What is being relayed, and can be.                                      *)
Relaying ==
    /\ Active => relay.msg \in Elements(arrived) /\ relay.msg \in Messages
    /\ relay.pc = "waiting" => relay.attempt < MaxAttempts

(* The messages to come stand in the order of their arrival, behind the    *)
(* one that is being relayed.                                              *)
StreamSorted ==
    /\ Elements(stream) \subseteq Elements(arrived)
    /\ \A i, j \in DOMAIN stream : i < j => Before(arrived, stream[i], stream[j])
    /\ Active => \A i \in DOMAIN stream : Before(arrived, relay.msg, stream[i])

(* The message m has been dealt with: all others come behind it.           *)
Past(m, a, s, r) ==
    /\ m \in Elements(a)
    /\ r.pc # "idle" => Before(a, m, r.msg)
    /\ \A i \in DOMAIN s : Before(a, m, s[i])

(* What the worker has, may yet get, or has acknowledged is dealt with.    *)
AllPast ==
    /\ \A k \in DOMAIN worker : Past(worker[k].msg, arrived, stream, relay)
    /\ \A r \in late : Past(r.msg, arrived, stream, relay)
    /\ \A m \in acked : Past(m, arrived, stream, relay)

(* A late request is the only one for its message, and was not answered.   *)
LateOnce ==
    /\ \A r, s \in late : r.msg = s.msg => r = s
    /\ \A r \in late : r.msg \notin acked /\ \A k \in DOMAIN worker : worker[k].msg # r.msg

(* Acknowledged messages stand in the worker's order of arrival.           *)
AckedSorted ==
    \A i, j \in DOMAIN worker :
        i < j /\ worker[i].msg \in acked /\ worker[j].msg \in acked
            => Before(arrived, worker[i].msg, worker[j].msg)

RInv == /\ TypeOK /\ ArrivedOnce /\ Relaying /\ StreamSorted /\ AllPast /\ LateOnce
        /\ AtMostOnce /\ AckedSorted

Requests == [msg : Messages, audio : BOOLEAN]

----------------------------------------------------------------------------
(* No message arrives before itself.                                       *)
LEMMA BeforeIrreflexive ==
    ASSUME ArrivedOnce, arrived \in Seq(Messages)
    PROVE  \A m : ~Before(arrived, m, m)
  <1>1. DOMAIN arrived \subseteq Int
    BY LenProperties
  <1>2. QED
    BY <1>1 DEF ArrivedOnce, Before

(* As long as nothing arrives, no message comes again.                     *)
LEMMA ArrivedOnceStays ==
    ASSUME arrived' = arrived
    PROVE  ArrivedOnce' <=> ArrivedOnce
  BY DEF ArrivedOnce

(* Appending to a sequence.                                                *)
LEMMA Appended ==
    ASSUME NEW S, NEW s \in Seq(S), NEW e \in S
    PROVE  /\ Append(s, e) \in Seq(S)
           /\ DOMAIN s = 1 .. Len(s) /\ Len(s) \in Nat
           /\ DOMAIN Append(s, e) = 1 .. Len(s) + 1
           /\ \A k \in DOMAIN s : k \in DOMAIN Append(s, e) /\ Append(s, e)[k] = s[k] /\ k < Len(s) + 1
           /\ Append(s, e)[Len(s) + 1] = e
           /\ Len(s) + 1 \in DOMAIN Append(s, e)
           /\ \A k \in DOMAIN Append(s, e) : k \in DOMAIN s \/ k = Len(s) + 1
           /\ \A k \in DOMAIN Append(s, e) : k \in Int
  <1> DEFINE a == Append(s, e)
  <1>1. /\ a \in Seq(S) /\ Len(a) = Len(s) + 1
        /\ \A k \in 1 .. Len(s) : a[k] = s[k]
        /\ a[Len(s) + 1] = e
    BY AppendProperties
  <1>2. DOMAIN s = 1 .. Len(s) /\ Len(s) \in Nat /\ DOMAIN a = 1 .. Len(a)
    BY <1>1, LenProperties
  <1> HIDE DEF a
  <1>3. QED
    BY <1>1, <1>2 DEF a

----------------------------------------------------------------------------
(* The inductive invariant holds initially.                                *)
LEMMA InitRInv == Init => RInv
  BY EmptySeq, RelayAssumption
  DEF Init, RInv, TypeOK, ArrivedOnce, Active, Relaying, StreamSorted, AllPast, LateOnce, AtMostOnce,
      AckedSorted, Idle, Elements

(* The worker gets a request that nobody waits for: what it is for is past *)
(* and was never acknowledged.                                             *)
Delivers(r) ==
    /\ r \in Requests
    /\ worker' = Append(worker, r)
    /\ \A k \in DOMAIN worker : worker[k].msg # r.msg

(* A delivery of what is past is the only one of its message.              *)
LEMMA DeliveredOnce ==
    ASSUME RInv, NEW r, Delivers(r)
    PROVE  /\ worker' \in Seq(Requests)
           /\ AtMostOnce'
           /\ \A k \in DOMAIN worker' : worker'[k].msg = r.msg
                                        \/ (k \in DOMAIN worker /\ worker'[k] = worker[k])
  <1>1. worker \in Seq(Requests) /\ r \in Requests /\ worker' = Append(worker, r)
    BY DEF RInv, TypeOK, Requests, Delivers
  <1>2. /\ Append(worker, r) \in Seq(Requests)
        /\ \A k \in DOMAIN worker : Append(worker, r)[k] = worker[k]
        /\ Append(worker, r)[Len(worker) + 1] = r
        /\ \A k \in DOMAIN Append(worker, r) : k \in DOMAIN worker \/ k = Len(worker) + 1
    BY <1>1, Appended
  <1>3. AtMostOnce'
    <2>1. SUFFICES ASSUME NEW i \in DOMAIN worker', NEW j \in DOMAIN worker',
                          worker'[i].msg = worker'[j].msg
                   PROVE  i = j
      BY DEF AtMostOnce
    <2>2. CASE i \in DOMAIN worker /\ j \in DOMAIN worker
      BY <1>1, <1>2, <2>1, <2>2 DEF RInv, AtMostOnce
    <2>3. CASE i \notin DOMAIN worker \/ j \notin DOMAIN worker
      BY <1>1, <1>2, <2>1, <2>3 DEF Delivers
    <2>4. QED
      BY <2>2, <2>3
  <1>4. ASSUME NEW k \in DOMAIN worker'
        PROVE  worker'[k].msg = r.msg \/ (k \in DOMAIN worker /\ worker'[k] = worker[k])
    <2>1. CASE k \in DOMAIN worker
      BY <1>1, <1>2, <2>1
    <2>2. CASE k = Len(worker) + 1
      BY <1>1, <1>2, <2>2
    <2>3. QED
      BY <1>1, <1>2, <2>1, <2>2
  <1>5. worker' \in Seq(Requests)
    BY <1>1, <1>2
  <1>6. QED
    BY <1>3, <1>4, <1>5

(* If the worker's new message is not acknowledged, those that are keep    *)
(* their order; if it came behind all of them, too.                        *)
LEMMA SortedStays ==
    ASSUME RInv, NEW r, Delivers(r), arrived' = arrived,
           \/ acked' = acked /\ r.msg \notin acked
           \/ /\ acked' = acked \cup {r.msg}
              /\ \A k \in DOMAIN worker : Before(arrived, worker[k].msg, r.msg)
    PROVE  AckedSorted'
  <1>1. worker \in Seq(Requests) /\ r \in Requests /\ worker' = Append(worker, r)
    BY DEF RInv, TypeOK, Requests, Delivers
  <1>2. /\ \A k \in DOMAIN worker : Append(worker, r)[k] = worker[k] /\ k < Len(worker) + 1
        /\ Append(worker, r)[Len(worker) + 1] = r
        /\ \A k \in DOMAIN Append(worker, r) : (k \in DOMAIN worker \/ k = Len(worker) + 1) /\ k \in Int
        /\ Len(worker) \in Nat
    BY <1>1, Appended
  <1>3. SUFFICES ASSUME NEW i \in DOMAIN worker', NEW j \in DOMAIN worker', i < j,
                        worker'[i].msg \in acked', worker'[j].msg \in acked'
                 PROVE  Before(arrived, worker'[i].msg, worker'[j].msg)
    BY DEF AckedSorted
  <1>4. i \in DOMAIN worker /\ worker'[i] = worker[i]
    BY <1>1, <1>2, <1>3
  <1>5. worker[i].msg \in acked
    BY <1>3, <1>4 DEF Delivers
  <1>6. CASE j \in DOMAIN worker
    <2>1. worker'[j] = worker[j] /\ worker[j].msg \in acked
      BY <1>1, <1>2, <1>3, <1>6 DEF Delivers
    <2>2. QED
      BY <1>3, <1>4, <1>5, <1>6, <2>1 DEF RInv, AckedSorted
  <1>7. CASE j \notin DOMAIN worker
    <2>1. worker'[j] = r
      BY <1>1, <1>2, <1>7
    <2>2. QED
      BY <1>3, <1>4, <1>5, <2>1
  <1>8. QED
    BY <1>6, <1>7

----------------------------------------------------------------------------
(* Steps.                                                                  *)

(* What is being relayed is news to the worker.                            *)
LEMMA ActiveIsNew ==
    ASSUME RInv, Active
    PROVE  /\ relay.msg \in Messages /\ relay.msg \notin acked
           /\ \A k \in DOMAIN worker : worker[k].msg # relay.msg /\ Before(arrived, worker[k].msg, relay.msg)
           /\ \A r \in late : r.msg # relay.msg
  <1>1. \A m : Past(m, arrived, stream, relay) => Before(arrived, m, relay.msg) /\ m # relay.msg
    BY BeforeIrreflexive DEF RInv, TypeOK, Past, Active
  <1>2. QED
    BY <1>1 DEF RInv, AllPast, Relaying

(* The relay goes on with its message or leaves it; the stream stays or is *)
(* lost.                                                                   *)
GoesOn ==
    /\ arrived' = arrived
    /\ stream' = stream \/ stream' = << >>
    /\ Active' => Active /\ relay'.msg = relay.msg
    /\ relay'.pc = "waiting" => relay'.attempt < MaxAttempts

(* When the relay goes on, what is past stays past, with what it leaves.   *)
LEMMA GoesOnEffect ==
    ASSUME RInv, GoesOn
    PROVE  /\ ArrivedOnce' /\ Relaying' /\ StreamSorted'
           /\ \A m : Past(m, arrived, stream, relay) => Past(m, arrived', stream', relay')
           /\ Active /\ ~Active' => Past(relay.msg, arrived', stream', relay')
  <1>1. /\ arrived' = arrived
        /\ ArrivedOnce' /\ Elements(arrived)' = Elements(arrived)
    BY ArrivedOnceStays DEF RInv, GoesOn, Elements
  <1>2. DOMAIN stream' \subseteq DOMAIN stream /\ \A i \in DOMAIN stream' : stream'[i] = stream[i]
    BY EmptySeq DEF GoesOn
  <1>3. Relaying'
    BY <1>1 DEF RInv, GoesOn, Relaying
  <1>4. StreamSorted'
    <2>1. Elements(stream)' \subseteq Elements(stream)
      BY <1>2 DEF Elements
    <2>2. \A i, j \in DOMAIN stream' : i < j => Before(arrived', stream'[i], stream'[j])
      BY <1>1, <1>2 DEF RInv, StreamSorted
    <2>3. Active' => \A i \in DOMAIN stream' : Before(arrived', relay'.msg, stream'[i])
      BY <1>1, <1>2 DEF RInv, StreamSorted, GoesOn
    <2>4. QED
      BY <1>1, <2>1, <2>2, <2>3 DEF RInv, StreamSorted
  <1>5. ASSUME NEW m, Past(m, arrived, stream, relay) PROVE Past(m, arrived', stream', relay')
    BY <1>1, <1>2, <1>5 DEF Past, GoesOn, Active
  <1>6. ASSUME Active, ~Active' PROVE Past(relay.msg, arrived', stream', relay')
    BY <1>1, <1>2, <1>6 DEF Past, RInv, Relaying, StreamSorted, GoesOn, Active, Elements
  <1>7. QED
    BY <1>1, <1>3, <1>4, <1>5, <1>6

(* Nothing reaches the worker.                                             *)
LEMMA QuietPreserves ==
    ASSUME RInv, GoesOn, TypeOK', UNCHANGED <<worker, late, acked>>
    PROVE  RInv'
  <1>1. /\ ArrivedOnce' /\ Relaying' /\ StreamSorted'
        /\ \A m : Past(m, arrived, stream, relay) => Past(m, arrived', stream', relay')
        /\ arrived' = arrived
    BY GoesOnEffect DEF GoesOn
  <1>2. AllPast'
    BY <1>1 DEF RInv, AllPast
  <1>3. LateOnce' /\ AtMostOnce' /\ AckedSorted'
    BY <1>1 DEF RInv, LateOnce, AtMostOnce, AckedSorted
  <1>4. QED
    BY <1>1, <1>2, <1>3 DEF RInv

(* A request reaches the worker.                                           *)
LEMMA DeliveryPreserves ==
    ASSUME RInv, GoesOn, TypeOK', NEW r, Delivers(r),
           Past(r.msg, arrived', stream', relay'), r.msg \notin acked,
           late' \subseteq late, \A q \in late' : q.msg # r.msg,
           \/ acked' = acked
           \/ /\ acked' = acked \cup {r.msg}
              /\ \A k \in DOMAIN worker : Before(arrived, worker[k].msg, r.msg)
    PROVE  RInv'
  <1>1. /\ ArrivedOnce' /\ Relaying' /\ StreamSorted'
        /\ \A m : Past(m, arrived, stream, relay) => Past(m, arrived', stream', relay')
    BY GoesOnEffect
  <1>2. /\ AtMostOnce'
        /\ \A k \in DOMAIN worker' : worker'[k].msg = r.msg
                                     \/ (k \in DOMAIN worker /\ worker'[k] = worker[k])
    BY DeliveredOnce
  <1>3. AckedSorted'
    BY SortedStays DEF GoesOn
  <1>4. AllPast'
    <2>1. \A k \in DOMAIN worker' : Past(worker'[k].msg, arrived', stream', relay')
      BY <1>1, <1>2 DEF RInv, AllPast
    <2>2. /\ \A q \in late' : Past(q.msg, arrived', stream', relay')
          /\ \A m \in acked' : Past(m, arrived', stream', relay')
      BY <1>1 DEF RInv, AllPast
    <2>3. QED
      BY <2>1, <2>2 DEF AllPast
  <1>5. LateOnce'
    BY <1>2 DEF RInv, LateOnce
  <1>6. QED
    BY <1>1, <1>2, <1>3, <1>4, <1>5 DEF RInv

(* A request is given up and may come later.                               *)
LEMMA PostponedPreserves ==
    ASSUME RInv, GoesOn, TypeOK', Active, ~Active', late' = late \cup {Request},
           UNCHANGED <<worker, acked>>
    PROVE  RInv'
  <1>1. /\ ArrivedOnce' /\ Relaying' /\ StreamSorted'
        /\ \A m : Past(m, arrived, stream, relay) => Past(m, arrived', stream', relay')
        /\ Past(relay.msg, arrived', stream', relay')
        /\ arrived' = arrived
    BY GoesOnEffect DEF GoesOn
  <1>2. Request.msg = relay.msg
    BY DEF Request
  <1>3. AllPast'
    BY <1>1, <1>2 DEF RInv, AllPast
  <1>4. LateOnce'
    BY <1>2, ActiveIsNew DEF RInv, LateOnce
  <1>5. AtMostOnce' /\ AckedSorted'
    BY <1>1 DEF RInv, AtMostOnce, AckedSorted
  <1>6. QED
    BY <1>1, <1>3, <1>4, <1>5 DEF RInv

(* A request that is posted has its type.                                  *)
LEMMA RequestType ==
    ASSUME RInv, Active
    PROVE  Request \in Requests /\ Request.msg = relay.msg
  BY ActiveIsNew DEF Request, Requests, RInv, TypeOK

(* The idle relay has the type of a relay.                                 *)
LEMMA IdleType ==
    /\ Idle \in [pc : {"idle", "reacting", "fetching", "posting", "waiting"},
                 msg : Messages \cup {None}, audio : BOOLEAN, attempt : 1 .. MaxAttempts]
    /\ Idle.pc = "idle"
  BY RelayAssumption DEF Idle

(* The relay leaves a message whose request is out.                        *)
LEMMA GivenUpPreserves ==
    ASSUME RInv, relay.pc = "posting", relay' = Idle, GivenUp, arrived' = arrived,
           stream' = stream \/ stream' = << >>, acked' = acked
    PROVE  RInv'
  <1>1. Active /\ ~Active' /\ GoesOn /\ Request \in Requests /\ Request.msg = relay.msg
    BY IdleType, RequestType DEF Active, GoesOn
  <1>2. /\ arrived' \in Seq(Messages) /\ stream' \in Seq(Messages) /\ acked' \subseteq Messages
        /\ relay' \in [pc : {"idle", "reacting", "fetching", "posting", "waiting"},
                       msg : Messages \cup {None}, audio : BOOLEAN, attempt : 1 .. MaxAttempts]
    BY IdleType, EmptySeq DEF RInv, TypeOK
  <1>3. CASE UNCHANGED <<worker, late>>
    <2>1. TypeOK'
      BY <1>2, <1>3 DEF RInv, TypeOK
    <2>2. QED
      BY <1>1, <1>3, <2>1, QuietPreserves
  <1>4. CASE worker' = Append(worker, Request) /\ UNCHANGED late
    <2>1. Delivers(Request)
      BY <1>1, <1>4, ActiveIsNew DEF Delivers
    <2>2. TypeOK'
      BY <1>2, <1>4, <2>1, DeliveredOnce DEF RInv, TypeOK, Requests
    <2>3. /\ Past(Request.msg, arrived', stream', relay') /\ Request.msg \notin acked
          /\ \A q \in late : q.msg # Request.msg
      BY <1>1, GoesOnEffect, ActiveIsNew
    <2>4. QED
      BY <1>1, <1>4, <2>1, <2>2, <2>3, DeliveryPreserves
  <1>5. CASE late' = late \cup {Request} /\ UNCHANGED worker
    <2>1. TypeOK'
      BY <1>1, <1>2, <1>5 DEF RInv, TypeOK, Requests
    <2>2. QED
      BY <1>1, <1>5, <2>1, PostponedPreserves
  <1>6. QED
    BY <1>3, <1>4, <1>5 DEF GivenUp

----------------------------------------------------------------------------
(* A message arrives: it comes behind all others.                          *)
LEMMA ArrivePreserves ==
    ASSUME RInv, NEW m \in Messages, Arrive(m)
    PROVE  RInv'
  <1>1. /\ arrived \in Seq(Messages) /\ stream \in Seq(Messages)
        /\ m \notin Elements(arrived)
        /\ arrived' = Append(arrived, m) /\ stream' = Append(stream, m)
        /\ relay' = relay /\ worker' = worker /\ late' = late /\ acked' = acked
    BY DEF RInv, TypeOK, Arrive
  <1>2. /\ arrived' \in Seq(Messages)
        /\ \A k \in DOMAIN arrived : k \in DOMAIN arrived' /\ arrived'[k] = arrived[k] /\ k < Len(arrived) + 1
        /\ arrived'[Len(arrived) + 1] = m /\ Len(arrived) + 1 \in DOMAIN arrived'
        /\ \A k \in DOMAIN arrived' : k \in DOMAIN arrived \/ k = Len(arrived) + 1
    BY <1>1, Appended
  <1>3. /\ stream' \in Seq(Messages)
        /\ \A k \in DOMAIN stream : k \in DOMAIN stream' /\ stream'[k] = stream[k] /\ k < Len(stream) + 1
        /\ stream'[Len(stream) + 1] = m
        /\ \A k \in DOMAIN stream' : (k \in DOMAIN stream \/ k = Len(stream) + 1) /\ k \in Int
        /\ Len(stream) \in Nat
    BY <1>1, Appended
  <1>4. /\ \A x, y : Before(arrived, x, y) => Before(arrived', x, y)
        /\ \A x \in Elements(arrived) : Before(arrived', x, m)
        /\ Elements(arrived) \subseteq Elements(arrived')
        /\ m \in Elements(arrived')
    BY <1>2 DEF Before, Elements
  <1>5. TypeOK'
    BY <1>1, <1>2, <1>3 DEF RInv, TypeOK
  <1>6. ArrivedOnce'
    BY <1>1, <1>2 DEF RInv, ArrivedOnce, Elements
  <1>7. Relaying'
    BY <1>1, <1>4 DEF RInv, Relaying, Active
  <1>8. \A k \in DOMAIN stream : stream[k] \in Elements(arrived)
    BY DEF RInv, StreamSorted, Elements
  <1>9. StreamSorted'
    <2>1. Elements(stream') \subseteq Elements(arrived')
      BY <1>3, <1>4, <1>8 DEF Elements
    <2>2. ASSUME NEW i \in DOMAIN stream', NEW j \in DOMAIN stream', i < j
          PROVE  Before(arrived', stream'[i], stream'[j])
      <3>1. i \in DOMAIN stream /\ stream'[i] = stream[i]
        BY <1>3, <2>2
      <3>2. CASE j \in DOMAIN stream
        BY <1>3, <1>4, <2>2, <3>1, <3>2 DEF RInv, StreamSorted
      <3>3. CASE j \notin DOMAIN stream
        BY <1>3, <1>4, <1>8, <3>1, <3>3
      <3>4. QED
        BY <3>2, <3>3
    <2>3. ASSUME Active', NEW i \in DOMAIN stream'
          PROVE  Before(arrived', relay'.msg, stream'[i])
      <3>1. Active /\ relay.msg \in Elements(arrived)
        BY <1>1, <2>3 DEF RInv, Relaying, Active
      <3>2. CASE i \in DOMAIN stream
        BY <1>1, <1>3, <1>4, <3>1, <3>2 DEF RInv, StreamSorted
      <3>3. CASE i \notin DOMAIN stream
        BY <1>1, <1>3, <1>4, <3>1, <3>3
      <3>4. QED
        BY <3>2, <3>3
    <2>4. QED
      BY <2>1, <2>2, <2>3 DEF StreamSorted
  <1>10. ASSUME NEW x, Past(x, arrived, stream, relay)
         PROVE  Past(x, arrived', stream', relay')
    BY <1>1, <1>3, <1>4, <1>10 DEF Past
  <1>11. AllPast'
    BY <1>1, <1>10 DEF RInv, AllPast
  <1>12. LateOnce' /\ AtMostOnce' /\ AckedSorted'
    BY <1>1, <1>4 DEF RInv, LateOnce, AtMostOnce, AckedSorted
  <1>13. QED
    BY <1>5, <1>6, <1>7, <1>9, <1>11, <1>12 DEF RInv

(* The next message is read: what is past stays before it.                 *)
LEMMA BeginPreserves ==
    ASSUME RInv, Begin
    PROVE  RInv'
  <1>1. /\ arrived \in Seq(Messages) /\ stream \in Seq(Messages) /\ stream # << >>
        /\ arrived' = arrived /\ stream' = Tail(stream)
        /\ worker' = worker /\ late' = late /\ acked' = acked
    BY DEF RInv, TypeOK, Begin
  <1> DEFINE n == Len(stream)
  <1>2. /\ n \in Nat \ {0} /\ DOMAIN stream = 1 .. n
        /\ stream' \in Seq(Messages) /\ DOMAIN stream' = 1 .. n - 1
        /\ \A k \in 1 .. n - 1 : stream'[k] = stream[k + 1]
        /\ Head(stream) \in Messages /\ Head(stream) = stream[1]
    BY <1>1, HeadTailProperties, LenProperties, EmptySeq
  <1> HIDE DEF n
  <1>3. /\ 1 \in DOMAIN stream
        /\ \A k \in DOMAIN stream' : k + 1 \in DOMAIN stream /\ 1 < k + 1 /\ stream'[k] = stream[k + 1]
    BY <1>2
  <1>4. /\ relay'.pc = "reacting" /\ relay'.msg = stream[1]
        /\ relay' \in [pc : {"idle", "reacting", "fetching", "posting", "waiting"},
                       msg : Messages \cup {None}, audio : BOOLEAN, attempt : 1 .. MaxAttempts]
    BY <1>2, IdleType DEF Begin, Idle
  <1>5. TypeOK'
    BY <1>1, <1>2, <1>4 DEF RInv, TypeOK
  <1>5a. \A k \in DOMAIN stream : stream[k] \in Elements(arrived)
    BY DEF RInv, StreamSorted, Elements
  <1>6. ArrivedOnce' /\ Relaying'
    <2>1. relay'.msg \in Elements(arrived) /\ relay'.msg \in Messages
      BY <1>2, <1>3, <1>4, <1>5a
    <2>2. ArrivedOnce'
      BY <1>1 DEF RInv, ArrivedOnce
    <2>3. QED
      BY <1>1, <1>4, <2>1, <2>2 DEF Relaying
  <1>7. StreamSorted'
    <2>1. Elements(stream') \subseteq Elements(arrived')
      BY <1>1, <1>3, <1>5a DEF Elements
    <2>2. ASSUME NEW i \in DOMAIN stream', NEW j \in DOMAIN stream', i < j
          PROVE  Before(arrived', stream'[i], stream'[j])
      <3>1. i + 1 < j + 1
        BY <1>2, <2>2
      <3>2. QED
        BY <1>1, <1>3, <3>1 DEF RInv, StreamSorted
    <2>3. \A i \in DOMAIN stream' : Before(arrived', relay'.msg, stream'[i])
      BY <1>1, <1>3, <1>4 DEF RInv, StreamSorted
    <2>4. QED
      BY <2>1, <2>2, <2>3 DEF StreamSorted
  <1>8. ASSUME NEW x, Past(x, arrived, stream, relay)
        PROVE  Past(x, arrived', stream', relay')
    BY <1>1, <1>3, <1>4, <1>8 DEF Past
  <1>9. AllPast'
    BY <1>1, <1>8 DEF RInv, AllPast
  <1>10. LateOnce' /\ AtMostOnce' /\ AckedSorted'
    BY <1>1 DEF RInv, LateOnce, AtMostOnce, AckedSorted
  <1>11. QED
    BY <1>5, <1>6, <1>7, <1>9, <1>10 DEF RInv

(* The relay goes on, or leaves its message, and tells nobody.             *)
LEMMA SilentPreserves ==
    ASSUME RInv, GoesOn, UNCHANGED <<worker, late, acked>>,
           relay' \in [pc : {"idle", "reacting", "fetching", "posting", "waiting"},
                       msg : Messages \cup {None}, audio : BOOLEAN, attempt : 1 .. MaxAttempts]
    PROVE  RInv'
  <1>1. TypeOK'
    BY EmptySeq DEF RInv, TypeOK, GoesOn
  <1>2. QED
    BY <1>1, QuietPreserves

----------------------------------------------------------------------------
(* Every step of the relay, the worker and signal-cli.                     *)
LEMMA RInvNext == RInv /\ [Next]_vars => RInv'
  <1> SUFFICES ASSUME RInv, [Next]_vars
               PROVE  RInv'
    OBVIOUS
  <1>0. /\ relay \in [pc : {"idle", "reacting", "fetching", "posting", "waiting"},
                      msg : Messages \cup {None}, audio : BOOLEAN, attempt : 1 .. MaxAttempts]
        /\ MaxAttempts \in Nat \ {0}
        /\ relay.pc = "waiting" => relay.attempt < MaxAttempts
    BY RelayAssumption DEF RInv, TypeOK, Relaying
  <1>1. ASSUME NEW m \in Messages, Arrive(m) PROVE RInv'
    BY <1>1, ArrivePreserves
  <1>2. CASE Begin
    BY <1>2, BeginPreserves
  <1>3. CASE Reacted
    BY <1>0, <1>3, SilentPreserves DEF Reacted, GoesOn, Active
  <1>4. CASE Fetched
    BY <1>0, <1>4, SilentPreserves DEF Fetched, GoesOn, Active
  <1>5. CASE FetchRaises
    BY <1>5, IdleType, SilentPreserves DEF FetchRaises, GoesOn, Active
  <1>6. CASE Accepted
    <2>1. Active /\ ~Active' /\ GoesOn /\ Request \in Requests /\ Request.msg = relay.msg
      BY <1>6, IdleType, RequestType DEF Accepted, Active, GoesOn
    <2>2. /\ Delivers(Request) /\ Request.msg \notin acked
          /\ \A q \in late : q.msg # Request.msg
          /\ \A k \in DOMAIN worker : Before(arrived, worker[k].msg, Request.msg)
          /\ acked' = acked \cup {Request.msg} /\ late' = late
      BY <1>6, <2>1, ActiveIsNew DEF Delivers, Accepted
    <2>3. Past(Request.msg, arrived', stream', relay')
      BY <2>1, GoesOnEffect
    <2>4. TypeOK'
      BY <1>6, <2>1, <2>2, IdleType, ActiveIsNew, DeliveredOnce DEF Accepted, RInv, TypeOK, Requests
    <2>5. QED
      BY <2>1, <2>2, <2>3, <2>4, DeliveryPreserves
  <1>7. CASE AnswerLost
    BY <1>7, GivenUpPreserves DEF AnswerLost
  <1>8. CASE Rejected
    BY <1>8, IdleType, SilentPreserves DEF Rejected, GoesOn, Active
  <1>9. CASE RateLimited
    <2>1. CASE relay.attempt < MaxAttempts
      BY <1>0, <1>9, <2>1, SilentPreserves DEF RateLimited, GoesOn, Active
    <2>2. CASE ~(relay.attempt < MaxAttempts)
      BY <1>9, <2>2, IdleType, SilentPreserves DEF RateLimited, GoesOn, Active
    <2>3. QED
      BY <2>1, <2>2
  <1>10. CASE Waited
    <2>1. relay.attempt + 1 \in 1 .. MaxAttempts
      BY <1>0, <1>10 DEF Waited
    <2>2. /\ relay' = [relay EXCEPT !.pc = "posting", !.attempt = relay.attempt + 1]
          /\ UNCHANGED <<arrived, stream, worker, late, acked>> /\ relay.pc # "idle"
      BY <1>10 DEF Waited
    <2>3. relay' \in [pc : {"idle", "reacting", "fetching", "posting", "waiting"},
                      msg : Messages \cup {None}, audio : BOOLEAN, attempt : 1 .. MaxAttempts]
      BY <1>0, <2>1, <2>2
    <2>4. GoesOn
      BY <1>0, <2>2 DEF GoesOn, Active
    <2>5. QED
      BY <2>2, <2>3, <2>4, SilentPreserves
  <1>11. ASSUME NEW r \in late, LateRequest(r) PROVE RInv'
    <2>1. GoesOn /\ worker' = Append(worker, r) /\ late' = late \ {r} /\ acked' = acked
      BY <1>0, <1>11 DEF LateRequest, GoesOn, Active
    <2>2. /\ Delivers(r) /\ r.msg \notin acked
          /\ \A q \in late' : q.msg # r.msg
      BY <1>11, <2>1 DEF RInv, TypeOK, LateOnce, Delivers, Requests
    <2>3. Past(r.msg, arrived', stream', relay')
      BY <1>11 DEF RInv, AllPast, LateRequest
    <2>4. TypeOK'
      BY <1>11, <2>1, <2>2, DeliveredOnce DEF LateRequest, RInv, TypeOK, Requests
    <2>5. QED
      BY <2>1, <2>2, <2>3, <2>4, DeliveryPreserves
  <1>12. CASE StreamLost
    BY <1>0, <1>12, SilentPreserves DEF StreamLost, GoesOn, Active
  <1>13. CASE Stopped
    <2>1. CASE relay.pc = "posting"
      BY <1>13, <2>1, GivenUpPreserves DEF Stopped
    <2>2. CASE relay.pc # "posting"
      BY <1>13, <2>2, IdleType, SilentPreserves DEF Stopped, GoesOn, Active
    <2>3. QED
      BY <2>1, <2>2
  <1>14. CASE UNCHANGED vars
    BY <1>0, <1>14, SilentPreserves DEF vars, GoesOn, Active
  <1>15. QED
    BY <1>1, <1>2, <1>3, <1>4, <1>5, <1>6, <1>7, <1>8, <1>9, <1>10, <1>11, <1>12, <1>13, <1>14
    DEF Next, Relay

----------------------------------------------------------------------------
(* What is past comes first, and nothing is past twice.                    *)
THEOREM RelayInvariant == Spec => []RInv
  BY InitRInv, RInvNext, PTL DEF Spec

(* The state has its type: the handler never counts more than MaxAttempts  *)
(* attempts (engine_client.py:158-204).                                    *)
THEOREM RelayTypeOK == Spec => []TypeOK
  <1>1. RInv => TypeOK
    BY DEF RInv
  <1>2. QED
    BY <1>1, RelayInvariant, PTL

(* The worker gets no message twice, whatever it answers and whichever     *)
(* answers get lost (engine_client.py:158-204).                            *)
THEOREM RelayAtMostOnce == Spec => []AtMostOnce
  <1>1. RInv => AtMostOnce
    BY DEF RInv
  <1>2. QED
    BY <1>1, RelayInvariant, PTL

(* The place of a message among those that have arrived.                   *)
LEMMA PositionOf ==
    ASSUME ArrivedOnce, NEW i \in DOMAIN arrived
    PROVE  Position(arrived[i]) = i
  BY DEF ArrivedOnce, Position

(* The worker gets the messages it acknowledges in their order of arrival  *)
(* (signal_listener.py:128-130, app.py:46-80).                             *)
THEOREM RelayInOrder == Spec => []InOrder
  <1>1. RInv => InOrder
    <2>1. SUFFICES ASSUME RInv, NEW i \in DOMAIN worker, NEW j \in DOMAIN worker, i < j,
                          worker[i].msg \in acked, worker[j].msg \in acked
                   PROVE  Position(worker[i].msg) <= Position(worker[j].msg)
      BY DEF InOrder
    <2>2. Before(arrived, worker[i].msg, worker[j].msg)
      BY <2>1 DEF RInv, AckedSorted
    <2>3. PICK k, l \in DOMAIN arrived : k < l /\ arrived[k] = worker[i].msg /\ arrived[l] = worker[j].msg
      BY <2>2 DEF Before
    <2>4. Position(worker[i].msg) = k /\ Position(worker[j].msg) = l
      BY <2>1, <2>3, PositionOf DEF RInv
    <2>5. k \in Int /\ l \in Int
      BY <2>1, LenProperties DEF RInv, TypeOK
    <2>6. QED
      BY <2>3, <2>4, <2>5
  <1>2. QED
    BY <1>1, RelayInvariant, PTL
=============================================================================
