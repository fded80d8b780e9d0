------------------------ MODULE SignalListenerProofs ------------------------
(***************************************************************************)
(* Proofs about the listener, for any delays.  The wake-up flag outlives   *)
(* the attempt it was set in; what makes a backoff be cut short for a      *)
(* reason is that the flag is cleared as the backoff begins (Awake).       *)
(***************************************************************************)
EXTENDS SignalListener, TLAPS

(* During a backoff the flag is up only if a check was answered in it.     *)
Awake == consumer.pc = "backoff" /\ wakeup => answered

IInv == TypeOK /\ Awake

ConsumerPC == {"connecting", "streaming", "handling", "backoff"}
Timeouts == 0 .. (IF CheckInterval > CheckTimeout THEN CheckInterval ELSE CheckTimeout)

(* The two delays of a monitor are within its timer's range.               *)
LEMMA MonitorTimers ==
    ASSUME ListenerAssumption
    PROVE  CheckInterval \in Timeouts /\ CheckTimeout \in Timeouts /\ Asleep.timer \in Timeouts
  BY DEF ListenerAssumption, Timeouts, Asleep

(* The delay before an attempt stays within the jittered cap.              *)
LEMMA BackOffType ==
    ASSUME ListenerAssumption, TypeOK, BackOff
    PROVE  /\ consumer' \in [pc : ConsumerPC, timer : 0 .. (RetryMax + Jitter)]
           /\ consumer'.pc = "backoff" /\ ~wakeup' /\ answered' \in BOOLEAN
  <1>1. PICK extra \in 0 .. Jitter : consumer' = [pc |-> "backoff", timer |-> backoff + extra]
    BY DEF BackOff
  <1>2. backoff + extra \in 0 .. (RetryMax + Jitter)
    BY <1>1 DEF ListenerAssumption, TypeOK
  <1>3. QED
    BY <1>1, <1>2 DEF BackOff, ConsumerPC

(* Doubling never takes the backoff out of its range.                      *)
LEMMA DoubledInRange ==
    ASSUME ListenerAssumption, NEW b \in RetryInitial .. RetryMax
    PROVE  Least(2 * b, RetryMax) \in RetryInitial .. RetryMax
  BY DEF ListenerAssumption, Least

(* A second less on a timer keeps it in its range.                         *)
LEMMA BeforeType ==
    ASSUME NEW m \in Nat, NEW t \in 0 .. m
    PROVE  Before(t) \in 0 .. m
  BY DEF Before

(* A step of the listener's task preserves the invariant.                  *)
LEMMA ConsumeKeeps ==
    ASSUME ListenerAssumption, IInv, Consume \/ Keepalive \/ Message
    PROVE  IInv'
  <1> USE ListenerAssumption
  <1>1. /\ consumer \in [pc : ConsumerPC, timer : 0 .. (RetryMax + Jitter)]
        /\ RetryMax + Jitter \in Nat /\ StaleThreshold \in Nat
        /\ RetryInitial \in RetryInitial .. RetryMax
    BY DEF IInv, TypeOK, ConsumerPC, ListenerAssumption
  <1>2. CASE Connect
    BY <1>1, <1>2 DEF Connect, IInv, TypeOK, Awake
  <1>3. CASE ConnectFails
    <2>1. BackOff
      BY <1>3 DEF ConnectFails
    <2>2. /\ consumer' \in [pc : ConsumerPC, timer : 0 .. (RetryMax + Jitter)]
          /\ consumer'.pc = "backoff" /\ ~wakeup' /\ answered' \in BOOLEAN
          /\ wakeup' \in BOOLEAN
      BY <2>1, BackOffType DEF IInv, BackOff
    <2>3. QED
      BY <1>3, <2>2 DEF ConnectFails, IInv, TypeOK, Awake, ConsumerPC
  <1>4. CASE Handled
    BY <1>1, <1>4 DEF Handled, IInv, TypeOK, Awake, ConsumerPC
  <1>5. CASE StreamEnds
    <2>1. BackOff
      BY <1>5 DEF StreamEnds
    <2>2. /\ consumer' \in [pc : ConsumerPC, timer : 0 .. (RetryMax + Jitter)]
          /\ consumer'.pc = "backoff" /\ ~wakeup' /\ answered' \in BOOLEAN
          /\ wakeup' \in BOOLEAN
      BY <2>1, BackOffType DEF IInv, BackOff
    <2>3. QED
      BY <1>5, <2>2 DEF StreamEnds, IInv, TypeOK, Awake, ConsumerPC
  <1>6. CASE BackoffEnds
    <2>1. backoff' \in RetryInitial .. RetryMax
      BY <1>6, DoubledInRange DEF BackoffEnds, IInv, TypeOK
    <2>2. QED
      BY <1>1, <1>6, <2>1 DEF BackoffEnds, IInv, TypeOK, Awake
  <1>7. CASE Keepalive
    BY <1>1, <1>7 DEF Keepalive, IInv, TypeOK, Awake
  <1>8. CASE Message
    BY <1>1, <1>8 DEF Message, IInv, TypeOK, Awake, ConsumerPC
  <1>9. QED
    BY <1>2, <1>3, <1>4, <1>5, <1>6, <1>7, <1>8 DEF Consume

(* A step of the health monitor preserves the invariant.                   *)
LEMMA MonitorKeeps ==
    ASSUME ListenerAssumption, IInv, Monitor
    PROVE  IInv'
  <1>1. monitor' \in [pc : {"sleeping", "wakes", "pings"}, timer : Timeouts]
    BY MonitorTimers
       DEF Monitor, Check, WakeAnswered, PingAnswered, WakeFails, ForceReconnect, Asleep
  <1>2. idle' \in 0 .. StaleThreshold
    BY DEF Monitor, Check, WakeAnswered, PingAnswered, WakeFails, ForceReconnect, IInv, TypeOK,
           ListenerAssumption
  <1>3. /\ response' \in {"none", "open", "broken"}
        /\ consumer' = consumer /\ daemon' = daemon /\ backoff' = backoff
        /\ wakeup' \in BOOLEAN /\ answered' \in BOOLEAN
        /\ \/ UNCHANGED <<wakeup, answered>>
           \/ consumer.pc = "backoff" => answered'
    BY DEF Monitor, Check, WakeAnswered, PingAnswered, WakeFails, ForceReconnect, IInv, TypeOK
  <1>4. TypeOK'
    BY <1>1, <1>2, <1>3 DEF IInv, TypeOK, Timeouts
  <1>5. Awake'
    <2>1. CASE UNCHANGED <<wakeup, answered>>
      BY <1>3, <2>1 DEF IInv, Awake
    <2>2. CASE consumer.pc = "backoff" => answered'
      BY <1>3, <2>2 DEF Awake
    <2>3. QED
      BY <1>3, <2>1, <2>2
  <1>6. QED
    BY <1>4, <1>5 DEF IInv

(* Neither signal-cli nor the clock breaks the invariant.                  *)
LEMMA WorldKeeps ==
    ASSUME ListenerAssumption, IInv,
           DaemonDies \/ DaemonStarts \/ DaemonTurns \/ StreamCut \/ Tick \/ UNCHANGED vars
    PROVE  IInv'
  <1>1. CASE Tick
    <2>1. consumer' \in [pc : ConsumerPC, timer : 0 .. (RetryMax + Jitter)]
      BY <1>1, BeforeType DEF Tick, IInv, TypeOK, ConsumerPC, ListenerAssumption
    <2>2. monitor' \in [pc : {"sleeping", "wakes", "pings"}, timer : Timeouts]
      BY <1>1, BeforeType DEF Tick, IInv, TypeOK, Timeouts, ListenerAssumption
    <2>3. idle' \in 0 .. StaleThreshold
      BY <1>1 DEF Tick, IInv, TypeOK, Least, ListenerAssumption
    <2>4. consumer'.pc = consumer.pc
      BY <1>1 DEF Tick, IInv, TypeOK
    <2>5. QED
      BY <1>1, <2>1, <2>2, <2>3, <2>4
         DEF Tick, IInv, TypeOK, Awake, ConsumerPC, Timeouts
  <1>2. CASE DaemonDies \/ DaemonStarts \/ DaemonTurns \/ StreamCut \/ UNCHANGED vars
    BY <1>2 DEF DaemonDies, DaemonStarts, DaemonTurns, StreamCut, vars, Broken, IInv, TypeOK,
                Awake
  <1>3. QED
    BY <1>1, <1>2

(* The inductive invariant from which the theorems below follow.           *)
THEOREM ListenerInvariance == Spec => []IInv
  <1>1. Init => IInv
    <2> SUFFICES ASSUME Init PROVE IInv
      OBVIOUS
    <2>1. /\ 0 \in 0 .. (RetryMax + Jitter) /\ 0 \in 0 .. StaleThreshold
          /\ RetryInitial \in RetryInitial .. RetryMax
      BY ListenerAssumption DEF ListenerAssumption
    <2>2. monitor \in [pc : {"sleeping", "wakes", "pings"}, timer : Timeouts]
      BY MonitorTimers, ListenerAssumption DEF Init
    <2>3. QED
      BY <2>1, <2>2 DEF Init, IInv, TypeOK, Awake, Timeouts
  <1>2. IInv /\ [Next]_vars => IInv'
    BY ConsumeKeeps, MonitorKeeps, WorldKeeps, ListenerAssumption DEF Next
  <1>3. QED
    BY <1>1, <1>2, PTL DEF Spec

(* The state of the listener has its type: the backoff stays between its   *)
(* first and its greatest delay however many attempts fail.                *)
THEOREM ListenerTyped == Spec => []TypeOK
  <1>1. IInv => TypeOK
    BY DEF IInv
  <1>2. QED
    BY <1>1, ListenerInvariance, PTL

(* A backoff is cut short only by a check answered during it.              *)
THEOREM OnlyAnAnswerWakes == Spec => CutShortByAnswer
  <1>1. IInv /\ [Next]_vars =>
           [consumer.pc = "backoff" /\ consumer.timer > 0 /\ consumer'.pc = "connecting"
               => answered]_vars
    <2> SUFFICES ASSUME IInv, Next, consumer.pc = "backoff", consumer.timer > 0,
                        consumer'.pc = "connecting"
                 PROVE  answered
      BY DEF vars
    <2>1. BackoffEnds
      <3>1. consumer' # consumer /\ consumer'.pc # consumer.pc
        OBVIOUS
      <3>2. CASE Consume \/ Keepalive \/ Message
        BY <3>1, <3>2 DEF Consume, Keepalive, Message, Connect, ConnectFails, Handled, StreamEnds
      <3>3. CASE Tick
        BY <3>1, <3>3 DEF Tick, IInv, TypeOK
      <3>4. QED
        BY <3>1, <3>2, <3>3
           DEF Next, Monitor, Check, WakeAnswered, PingAnswered, WakeFails, ForceReconnect,
               DaemonDies, DaemonStarts, DaemonTurns, StreamCut
    <2>2. wakeup
      BY <2>1 DEF BackoffEnds, IInv, TypeOK
    <2>3. QED
      BY <2>2 DEF IInv, Awake
  <1>2. QED
    BY <1>1, ListenerInvariance, PTL DEF Spec, CutShortByAnswer
=============================================================================
