---------------------- MODULE AttachmentSchedulerProofs ----------------------
(***************************************************************************)
(* Proofs about the paced sends, for any senders, jobs, rates and bucket   *)
(* sizes.  Every step but a tick and a backoff lets one sender go on from  *)
(* some bucket b, so the lemmas say once what that does (Advances).        *)
(***************************************************************************)
EXTENDS AttachmentScheduler, TLAPS

Working == {"notice", "asleep", "rpc", "backoff"}

(* A batch under way is one of the job's, a call that is done has none     *)
(* left, and one that backs off has an attempt left.                       *)
InRange ==
    \A s \in Senders :
       /\ sender[s].pc \in Working => sender[s].batch <= Batches(s)
       /\ sender[s].batch <= Batches(s) + 1
       /\ sender[s].pc = "done" => sender[s].batch > Batches(s)
       /\ sender[s].pc = "backoff" => sender[s].attempt < MaxAttempts

(* As long as all_ok holds, every batch so far was sent.                   *)
AllSent ==
    \A s \in Senders : sender[s].allOk => sender[s].sent = 1 .. (sender[s].batch - 1)

(* The bucket promises what is there, and refills no faster.               *)
Credit == NeverOverCredited /\ (synced => bucket.rate <= ServerRate)

SInv == TypeOK /\ InRange /\ AllSent /\ Credit

(* The same of the bucket b that sender s goes on from: what s itself was  *)
(* uploading is over.                                                      *)
Sound(s, b) ==
    /\ b.tokens <= account
    /\ OthersUpload(s) \/ Projected(b) <= account

(* Sender s, having had the locals l, goes on from bucket b with locals m. *)
Advances(s, b, l, m) ==
    /\ m \in Sender
    /\ m.batch = l.batch /\ m.allOk = l.allOk /\ m.sent = l.sent
    /\ m.pc \in Working => m.batch <= Batches(s)
    /\ m.pc = "done" => m.batch > Batches(s)
    /\ m.pc # "backoff"
    /\ sender' = [sender EXCEPT ![s] = m]
    /\ bucket' \in Bucket /\ bucket'.rate = b.rate
    /\ account' \in 0 .. Full
    /\ ahead' \in [Senders -> SUBSET Senders]
    /\ b.drifted => bucket'.drifted
    /\ Sound(s, b) /\ ~bucket'.drifted =>
          /\ bucket'.tokens <= account'
          /\ OthersUpload(s) \/ m.pc = "rpc" \/ Projected(bucket') <= account'
          /\ m.pc = "rpc" => ~m.limited

----------------------------------------------------------------------------
(* Arithmetic of the bucket.                                               *)

(* A full bucket is a positive number of units.                            *)
LEMMA FullType ==
    ASSUME SchedulerAssumption
    PROVE  Full \in Nat /\ Full > 0 /\ Unit \in Nat \ {0} /\ Capacity \in Nat \ {0}
  BY DEF SchedulerAssumption, Full

(* What a refill gives is between nothing and a full bucket.               *)
LEMMA ProjectedType ==
    ASSUME SchedulerAssumption, NEW b \in Bucket
    PROVE  /\ Projected(b) \in 0 .. Full
           /\ b.tokens \in 0 .. Full /\ b.since \in 0 .. Full
           /\ b.rate \in Nat \ {0} /\ b.rate * b.since \in Nat
  <1>1. /\ b.tokens \in 0 .. Full /\ b.since \in 0 .. Full
        /\ b.rate \in Nat \ {0} /\ Full \in Nat
    BY FullType DEF Bucket, SchedulerAssumption
  <1>2. b.rate * b.since \in Nat
    BY <1>1
  <1>3. QED
    BY <1>1, <1>2 DEF Projected, Least

(* A bucket whose clock has just been restarted has its tokens.            *)
LEMMA FreshProjected ==
    ASSUME SchedulerAssumption, NEW b \in Bucket, b.since = 0
    PROVE  Projected(b) = b.tokens
  <1>1. b.rate * 0 = 0
    BY ProjectedType
  <1>2. QED
    BY <1>1, ProjectedType, FullType DEF Projected, Least

(* The tokens a batch costs: more than none, and no more than fit.         *)
LEMMA CostType ==
    ASSUME SchedulerAssumption, NEW s \in Senders, NEW i \in Nat \ {0}, i <= Batches(s)
    PROVE  Job[s].sizes[i] * Unit \in 1 .. Full
  <1>1. Job[s].sizes \in Seq(1 .. Capacity)
    BY DEF SchedulerAssumption
  <1>2. Job[s].sizes[i] \in 1 .. Capacity
    BY <1>1 DEF Batches
  <1>3. \A n \in 1 .. Capacity : n * Unit \in 1 .. Capacity * Unit
    <2> SUFFICES ASSUME NEW n \in 1 .. Capacity
                 PROVE  n * Unit \in 1 .. Capacity * Unit
      OBVIOUS
    <2>1. \A u \in Nat \ {0}, a, c \in Nat : a <= c => a * u <= c * u
      OBVIOUS
    <2>2. Unit \in Nat \ {0} /\ 1 \in Nat /\ n \in Nat /\ Capacity \in Nat
          /\ 1 <= n /\ n <= Capacity
      BY FullType
    <2>3. 1 * Unit <= n * Unit /\ n * Unit <= Capacity * Unit
      BY <2>1, <2>2, Zenon
    <2>4. 1 * Unit >= 1 /\ n * Unit \in Int /\ Capacity * Unit \in Int
      BY FullType
    <2>5. 1 * Unit \in Int
      BY <2>2
    <2>6. \A x, y, z \in Int : 1 <= x /\ x <= y /\ y <= z => y \in 1 .. z
      OBVIOUS
    <2>7. QED
      BY <2>3, <2>4, <2>6, <2>5
  <1>4. QED
    BY <1>2, <1>3 DEF Full

(* The number of batches of a job.                                         *)
LEMMA BatchesType ==
    ASSUME SchedulerAssumption, NEW s \in Senders
    PROVE  Batches(s) \in Nat
  BY DEF SchedulerAssumption, Batches

(* A deficit takes a whole number of ticks.                                *)
LEMMA DivUpType ==
    ASSUME NEW a \in Nat, NEW r \in Nat \ {0}
    PROVE  DivUp(a, r) \in Nat
  BY DEF DivUp

(* Of two capped numbers, the one that is no more and grows no more stays  *)
(* so.                                                                     *)
LEMMA LeastGrows ==
    ASSUME NEW full \in Nat, NEW x \in Nat, NEW a \in Nat, NEW r \in Nat, NEW q \in Nat,
           Least(full, x) <= a, r <= q
    PROVE  Least(full, x + r) <= Least(full, a + q)
  <1>1. CASE full <= x
    BY <1>1 DEF Least
  <1>2. CASE x < full
    BY <1>2 DEF Least
  <1>3. QED
    BY <1>1, <1>2

(* A tick adds at most the rate of the server to what a refill would give. *)
LEMMA TickCredit ==
    ASSUME SchedulerAssumption, NEW b \in Bucket, b.rate <= ServerRate,
           NEW a \in 0 .. Full, Projected(b) <= a
    PROVE  Projected([b EXCEPT !.since = Least(Full, b.since + 1)])
              <= Least(Full, a + ServerRate)
  <1> DEFINE c == [b EXCEPT !.since = Least(Full, b.since + 1)]
  <1>1. /\ b.tokens \in 0 .. Full /\ b.since \in 0 .. Full /\ b.rate \in Nat \ {0}
        /\ b.rate * b.since \in Nat /\ ServerRate \in Nat /\ Full \in Nat /\ Full > 0
    BY ProjectedType, FullType DEF SchedulerAssumption
  <1>2. c.tokens = b.tokens /\ c.rate = b.rate /\ c.since = Least(Full, b.since + 1)
    BY DEF Bucket
  <1>3. CASE b.since + 1 <= Full
    <2>1. c.since = b.since + 1
      <3> HIDE DEF c
      <3>1. Least(Full, b.since + 1) = b.since + 1
        BY <1>1, <1>3 DEF Least
      <3>2. QED
        BY <1>2, <3>1
    <2>2. b.rate * (b.since + 1) = b.rate * b.since + b.rate
      BY <1>1
    <2> DEFINE x == b.tokens + b.rate * b.since
    <2>3. x \in Nat /\ Projected(b) = Least(Full, x)
      BY <1>1 DEF Projected
    <2>4. c.tokens + c.rate * c.since = x + b.rate
      <3>1. c.rate * c.since = b.rate * b.since + b.rate
        BY <1>2, <2>1, <2>2
      <3>2. b.tokens \in Nat /\ b.rate * b.since \in Nat /\ b.rate \in Nat
        BY <1>1
      <3>3. b.tokens + (b.rate * b.since + b.rate) = (b.tokens + b.rate * b.since) + b.rate
        <4> DEFINE y == b.rate * b.since
        <4>1. y \in Nat
          BY <3>2
        <4> HIDE DEF y
        <4>2. b.tokens + (y + b.rate) = (b.tokens + y) + b.rate
          BY <3>2, <4>1
        <4>3. QED
          BY <4>2 DEF y
      <3> HIDE DEF c
      <3>4. QED
        BY <1>2, <3>1, <3>3
    <2> HIDE DEF c, x
    <2>5. Projected(c) = Least(Full, x + b.rate)
      BY <2>4 DEF Projected
    <2>6. a \in Nat /\ b.rate \in Nat /\ Least(Full, x) <= a
      BY <1>1, <2>3
    <2>7. Least(Full, x + b.rate) <= Least(Full, a + ServerRate)
      BY <1>1, <2>3, <2>6, LeastGrows
    <2>8. QED
      BY <2>5, <2>7 DEF c
  <1>4. CASE b.since + 1 > Full
    <2>1. b.since = Full
      BY <1>1, <1>4
    <2>2. b.rate * Full >= Full
      <3>1. \A q \in Nat \ {0}, n \in Nat : q * n >= n
        OBVIOUS
      <3>2. QED
        BY <1>1, <3>1
    <2>3. Projected(b) = Full
      BY <1>1, <2>1, <2>2 DEF Projected, Least
    <2>4. a = Full
      BY <1>1, <2>3
    <2>5. Projected(c) <= Full
      <3>1. c \in Bucket
        <4>1. Least(Full, b.since + 1) \in 0 .. Full
          BY <1>1 DEF Least
        <4>2. QED
          BY <4>1 DEF Bucket
      <3>2. QED
        BY <1>1, <3>1, ProjectedType
    <2>6. QED
      BY <1>1, <2>4, <2>5 DEF Least
  <1>5. QED
    BY <1>1, <1>3, <1>4

----------------------------------------------------------------------------
(* One sender going on.                                                    *)

(* A pass of acquire takes tokens the account has as well, if the bucket   *)
(* promised no more than that, or leaves everybody's tokens alone.         *)
LEMMA AcquireEffect ==
    ASSUME SchedulerAssumption, TypeOK, NEW s \in Senders, NEW b \in Bucket,
           NEW l \in Sender, l.batch <= Batches(s),
           Acquire(s, b, l, Job[s].sizes[l.batch] * Unit)
    PROVE  \E m : Advances(s, b, l, m) /\ m.pc \in {"rpc", "asleep"}
  <1> DEFINE cost == Job[s].sizes[l.batch] * Unit
             d == b.drifted \/ (b.since > 0 /\ OthersUpload(s))
             f == RefilledBy(s, b)
  <1>1. l.batch \in Nat \ {0} /\ cost \in 1 .. Full
    BY CostType DEF Sender
  <1>2. /\ f \in Bucket /\ f.tokens = Projected(b) /\ f.since = 0 /\ f.rate = b.rate
        /\ f.drifted = d
    <2>1. Projected(b) \in 0 .. Full /\ 0 \in 0 .. Full
      BY ProjectedType, FullType
    <2>2. d \in BOOLEAN
      BY DEF Bucket
    <2>3. f = [b EXCEPT !.tokens = Projected(b), !.since = 0, !.drifted = d]
      BY DEF Bucket, Refilled, RefilledBy
    <2> HIDE DEF d, f
    <2>4. f.tokens = Projected(b) /\ f.since = 0 /\ f.rate = b.rate /\ f.drifted = d
      BY <2>3 DEF Bucket
    <2>5. f \in Bucket
      BY <2>1, <2>2, <2>3 DEF Bucket
    <2>6. QED
      BY <2>4, <2>5
  <1>3. /\ f.tokens \in 0 .. Full /\ account \in 0 .. Full /\ Full \in Nat
        /\ f.rate \in Nat \ {0} /\ ahead \in [Senders -> SUBSET Senders]
    BY <1>2, ProjectedType, FullType DEF TypeOK
  <1>a. Sound(s, b) /\ ~d => Projected(b) <= account
    <2>1. CASE OthersUpload(s)
      <3>1. b.since \in 0 .. Full /\ Full \in Nat
        BY ProjectedType, FullType
      <3>2. ~(b.since > 0) => b.since = 0
        BY <3>1
      <3>3. ~d => b.since = 0
        BY <2>1, <3>2
      <3>4. QED
        BY <3>3, FreshProjected DEF Sound
    <2>2. CASE ~OthersUpload(s)
      BY <2>2 DEF Sound
    <2>3. QED
      BY <2>1, <2>2
  <1>b. b.drifted => d
    OBVIOUS
  <1> HIDE DEF cost, d, f
  <1>4. CASE f.tokens >= cost
    <2> DEFINE m == [l EXCEPT !.pc = "rpc", !.limited = account < cost]
               g == [f EXCEPT !.tokens = f.tokens - cost]
    <2>1. /\ bucket' = g
          /\ account' = IF account >= cost THEN account - cost ELSE account
          /\ sender' = [sender EXCEPT ![s] = m]
          /\ ahead' = [r \in Senders |-> IF r = s THEN {} ELSE ahead[r] \ {s}]
      BY <1>4 DEF Acquire, cost, f
    <2>2. /\ g \in Bucket /\ g.tokens = f.tokens - cost /\ g.since = 0 /\ g.rate = b.rate
          /\ g.drifted = d
      <3>1. cost \in Nat
        BY <1>1, <1>3
      <3>2. \A n, q \in Nat : \A x \in 0 .. n : x >= q => x - q \in 0 .. n
        OBVIOUS
      <3>3. f.tokens - cost \in 0 .. Full
        BY <1>3, <1>4, <3>1, <3>2
      <3>4. QED
        BY <1>2, <3>3 DEF Bucket
    <2>3. Projected(g) = f.tokens - cost
      BY <2>2, FreshProjected
    <2>4. (account < cost) \in BOOLEAN
      OBVIOUS
    <2>5. m \in Sender
      BY <2>4 DEF Sender, PC
    <2>6. /\ m.pc = "rpc" /\ m.limited = (account < cost) /\ m.batch = l.batch
          /\ m.allOk = l.allOk /\ m.sent = l.sent
      BY DEF Sender
    <2>7. account' \in 0 .. Full
      BY <1>1, <1>3, <2>1
    <2>8. ahead' \in [Senders -> SUBSET Senders]
      BY <1>3, <2>1
    <2>9. Sound(s, b) /\ ~bucket'.drifted => bucket'.tokens <= account' /\ ~m.limited
      <3> SUFFICES ASSUME Sound(s, b), ~bucket'.drifted
                   PROVE  bucket'.tokens <= account' /\ ~m.limited
        OBVIOUS
      <3>1. bucket'.tokens = Projected(b) - cost
        BY <1>2, <2>1, <2>2
      <3>2. Projected(b) <= account
        BY <1>a, <2>1, <2>2
      <3>3. cost \in Nat /\ Projected(b) \in Nat /\ account \in Nat
        BY <1>1, <1>2, <1>3
      <3>4. account >= cost /\ ~(account < cost)
        BY <1>2, <1>4, <3>2, <3>3
      <3>5. account' = account - cost
        BY <2>1, <3>4
      <3> HIDE DEF m
      <3>6. ~m.limited
        BY <2>6, <3>4
      <3>7. QED
        BY <3>1, <3>2, <3>3, <3>5, <3>6
    <2> HIDE DEF m, g
    <2>10. Advances(s, b, l, m)
      BY <1>b, <2>1, <2>2, <2>5, <2>6, <2>7, <2>8, <2>9 DEF Advances
    <2>11. QED
      BY <2>6, <2>10
  <1>5. CASE ~(f.tokens >= cost)
    <2> DEFINE m == [l EXCEPT !.pc = "asleep", !.timer = DivUp(cost - f.tokens, f.rate)]
    <2>1. /\ bucket' = f /\ account' = account
          /\ sender' = [sender EXCEPT ![s] = m]
          /\ ahead' = IF sender[s].pc = "asleep" THEN ahead
                      ELSE [ahead EXCEPT ![s] = {r \in Senders : sender[r].pc = "asleep"}]
      BY <1>5 DEF Acquire, cost, f
    <2>2. cost - f.tokens \in Nat
      <3> DEFINE k == f.tokens
      <3>1. cost \in Nat /\ k \in Nat /\ ~(k >= cost)
        BY <1>1, <1>3, <1>5
      <3> HIDE DEF cost, k
      <3>2. cost - k \in Nat
        BY ONLY <3>1
      <3>3. QED
        BY <3>2 DEF k
    <2>3. DivUp(cost - f.tokens, f.rate) \in Nat
      BY <1>3, <2>2, DivUpType
    <2>4. m \in Sender
      BY <2>3 DEF Sender, PC
    <2>5. /\ m.pc = "asleep" /\ m.batch = l.batch /\ m.allOk = l.allOk /\ m.sent = l.sent
      BY DEF Sender
    <2>6. Projected(f) = f.tokens /\ f.tokens = Projected(b)
      BY <1>2, FreshProjected
    <2>7. ahead' \in [Senders -> SUBSET Senders]
      BY <1>3, <2>1
    <2> HIDE DEF m
    <2>8. Advances(s, b, l, m)
      BY <1>2, <1>3, <1>a, <1>b, <2>1, <2>4, <2>5, <2>6, <2>7 DEF Advances
    <2>9. QED
      BY <2>5, <2>8
  <1>6. QED
    BY <1>4, <1>5

(* The turn to a batch: the call returns, a notice goes out, or acquire.   *)
LEMMA BeginBatchEffect ==
    ASSUME SchedulerAssumption, TypeOK, NEW s \in Senders, NEW b \in Bucket,
           NEW l \in Sender, BeginBatch(s, b, l)
    PROVE  \E m : Advances(s, b, l, m)
  <1>1. l.batch \in Nat \ {0} /\ Batches(s) \in Nat
    BY BatchesType DEF Sender
  <1>2. account \in 0 .. Full /\ ahead \in [Senders -> SUBSET Senders]
    BY DEF TypeOK
  <1>3. ASSUME NEW pc \in {"done", "notice"},
               sender' = [sender EXCEPT ![s] = [l EXCEPT !.pc = pc]],
               bucket' = b, UNCHANGED <<account, ahead>>,
               pc = "notice" => l.batch <= Batches(s),
               pc = "done" => l.batch > Batches(s)
        PROVE  \E m : Advances(s, b, l, m)
    <2> DEFINE m == [l EXCEPT !.pc = pc]
    <2>1. m \in Sender
      BY DEF Sender, PC
    <2>2. m.pc = pc /\ m.batch = l.batch /\ m.allOk = l.allOk /\ m.sent = l.sent
      BY DEF Sender
    <2>3. pc # "rpc"
      BY <1>3
    <2> HIDE DEF m
    <2>4. Advances(s, b, l, m)
      BY <1>2, <1>3, <2>1, <2>2, <2>3 DEF Advances, Sound, Working, m
    <2>5. QED
      BY <2>4
  <1>4. CASE l.batch > Batches(s)
    BY <1>1, <1>3, <1>4 DEF BeginBatch
  <1>5. CASE ~(l.batch > Batches(s))
    <2>1. l.batch <= Batches(s)
      BY <1>1, <1>5
    <2>2. CASE Job[s].paced /\ EstimateWait(b, Job[s].sizes[l.batch] * Unit) >= NoticeAfter
      BY <1>1, <1>3, <1>5, <2>1, <2>2 DEF BeginBatch
    <2>3. CASE ~(Job[s].paced /\ EstimateWait(b, Job[s].sizes[l.batch] * Unit) >= NoticeAfter)
      BY <1>5, <2>1, <2>3, AcquireEffect DEF BeginBatch
    <2>4. QED
      BY <2>2, <2>3
  <1>6. QED
    BY <1>4, <1>5

(* What one sender does preserves the invariant, if the bucket it goes on  *)
(* from is one to trust whenever the bucket was or is to be trusted.       *)
LEMMA AdvancePreserves ==
    ASSUME SchedulerAssumption, SInv, NEW s \in Senders, NEW b \in Bucket,
           NEW l \in Sender, NEW m, Advances(s, b, l, m),
           l.allOk => l.sent = 1 .. (l.batch - 1),
           l.batch <= Batches(s) + 1,
           synced' \in BOOLEAN,
           (synced \/ synced') /\ ~b.drifted => Sound(s, b),
           synced' => b.rate <= ServerRate
    PROVE  /\ SInv'
           /\ synced /\ ~bucket'.drifted =>
                 \A r \in Senders : Starts(r) => ~sender'[r].limited
  <1>1. sender \in [Senders -> Sender]
    BY DEF SInv, TypeOK
  <1>2. sender' \in [Senders -> Sender]
    BY <1>1 DEF Advances
  <1>3. /\ sender'[s] = m
        /\ \A r \in Senders : r # s => sender'[r] = sender[r]
    BY <1>1 DEF Advances
  <1>4. TypeOK'
    BY <1>2 DEF Advances, TypeOK
  <1>5. InRange'
    BY <1>3 DEF InRange, SInv, Advances, Batches
  <1>6. AllSent'
    BY <1>3 DEF AllSent, SInv, Advances
  <1>a. ASSUME synced \/ synced', ~bucket'.drifted
        PROVE  Sound(s, b)
    BY <1>a DEF Advances
  <1>7. Credit'
    <2> SUFFICES ASSUME synced', ~bucket'.drifted
                 PROVE  /\ bucket'.tokens <= account'
                        /\ \/ \E r \in Senders : Uploading(r)'
                           \/ Projected(bucket') <= account'
      BY DEF Credit, NeverOverCredited, Projected, Advances
    <2>1. /\ bucket'.tokens <= account'
          /\ OthersUpload(s) \/ m.pc = "rpc" \/ Projected(bucket') <= account'
          /\ m.pc = "rpc" => ~m.limited
      BY <1>a DEF Advances, Sound
    <2>2. OthersUpload(s) => \E r \in Senders : Uploading(r)'
      BY <1>3 DEF OthersUpload, Uploading
    <2>3. m.pc = "rpc" => Uploading(s)'
      BY <1>3, <2>1 DEF Uploading
    <2>4. QED
      BY <2>1, <2>2, <2>3
  <1>8. ASSUME synced, ~bucket'.drifted, NEW r \in Senders, Starts(r)
        PROVE  ~sender'[r].limited
    <2>1. r = s
      BY <1>3, <1>8 DEF Starts
    <2>2. QED
      BY <1>3, <1>8, <1>a, <2>1 DEF Advances, Starts
  <1>9. QED
    BY <1>4, <1>5, <1>6, <1>7, <1>8 DEF SInv

----------------------------------------------------------------------------
(* Every step of a sender, and a tick.                                     *)

(* What the invariant says of the locals of one sender.                    *)
LEMMA LocalsType ==
    ASSUME SchedulerAssumption, SInv, NEW s \in Senders
    PROVE  /\ sender[s] \in Sender /\ sender[s].batch \in Nat \ {0}
           /\ sender[s].attempt \in 1 .. MaxAttempts
           /\ sender[s].batch <= Batches(s) + 1 /\ Batches(s) \in Nat
           /\ sender[s].pc \in Working => sender[s].batch <= Batches(s)
           /\ sender[s].allOk => sender[s].sent = 1 .. (sender[s].batch - 1)
           /\ bucket \in Bucket /\ account \in 0 .. Full /\ synced \in BOOLEAN
  <1>1. sender[s] \in Sender /\ bucket \in Bucket /\ account \in 0 .. Full /\ synced \in BOOLEAN
    BY DEF SInv, TypeOK
  <1>2. sender[s].batch \in Nat \ {0} /\ sender[s].attempt \in 1 .. MaxAttempts
    BY <1>1 DEF Sender
  <1>3. QED
    BY <1>1, <1>2, BatchesType DEF SInv, InRange, AllSent

(* The locals with which a batch is tried again.                           *)
LEMMA NextAttempt ==
    ASSUME MaxAttempts \in Nat, NEW l \in Sender, l.attempt < MaxAttempts
    PROVE  LET n == [l EXCEPT !.attempt = @ + 1]
           IN  n \in Sender /\ n.batch = l.batch /\ n.allOk = l.allOk /\ n.sent = l.sent
  <1>1. l.attempt \in 1 .. MaxAttempts
    BY DEF Sender
  <1>2. l.attempt + 1 \in 1 .. MaxAttempts
    BY <1>1
  <1>3. QED
    BY <1>2 DEF Sender

(* The locals with which the next batch begins.                            *)
LEMMA NextBatch ==
    ASSUME SchedulerAssumption, NEW l \in Sender, NEW ok \in BOOLEAN
    PROVE  LET n == BatchOver(l, ok)
           IN  /\ n \in Sender /\ n.batch = l.batch + 1
               /\ n.allOk = (l.allOk /\ ok) /\ n.sent = l.sent
  <1>1. /\ l.batch \in Nat \ {0} /\ l.allOk \in BOOLEAN /\ 1 \in 1 .. MaxAttempts
    BY DEF Sender, SchedulerAssumption
  <1>2. l.batch + 1 \in Nat \ {0} /\ (l.allOk /\ ok) \in BOOLEAN
    BY <1>1
  <1>3. QED
    BY <1>1, <1>2 DEF Sender, BatchOver

(* Restarting the clock of the refill gives nobody a token.                *)
LEMMA ReportedType ==
    ASSUME SchedulerAssumption, NEW b \in Bucket
    PROVE  LET c == Reported(b)
           IN  /\ c \in Bucket /\ c.rate = b.rate /\ c.drifted = b.drifted
               /\ c.tokens = b.tokens /\ Projected(c) = b.tokens
  <1> DEFINE c == Reported(b)
  <1>1. /\ c \in Bucket /\ c.rate = b.rate /\ c.tokens = b.tokens /\ c.since = 0
        /\ c.drifted = b.drifted
    BY FullType DEF Bucket, Reported
  <1>2. Projected(c) = b.tokens
    BY <1>1, FreshProjected
  <1>3. QED
    BY <1>1, <1>2

(* After an upload that failed, only a clock that has not gone on leaves   *)
(* the bucket without drift.                                               *)
LEMMA UnreportedType ==
    ASSUME SchedulerAssumption, NEW s, NEW b \in Bucket
    PROVE  LET c == Unreported(s, b)
           IN  /\ c \in Bucket /\ c.rate = b.rate /\ c.tokens = b.tokens
               /\ Projected(c) = Projected(b)
               /\ ~c.drifted => ~b.drifted
               /\ ~c.drifted /\ Uploading(s) => Projected(b) = b.tokens
  <1> DEFINE c == Unreported(s, b)
             d == b.drifted \/ (b.since > 0 /\ Uploading(s))
  <1>1. c = [b EXCEPT !.drifted = d] /\ d \in BOOLEAN
    BY DEF Bucket, Unreported
  <1>2. ~d /\ Uploading(s) => b.since = 0
    BY ProjectedType, FullType
  <1>3. ~d => ~b.drifted
    OBVIOUS
  <1> HIDE DEF c, d
  <1>4. /\ c \in Bucket /\ c.rate = b.rate /\ c.tokens = b.tokens /\ c.since = b.since
        /\ c.drifted = d
    BY <1>1 DEF Bucket
  <1>5. Projected(c) = Projected(b)
    BY <1>4 DEF Projected
  <1>6. QED
    BY <1>2, <1>3, <1>4, <1>5, FreshProjected DEF c

(* A bucket after a 429 promises nothing.                                  *)
LEMMA FedType ==
    ASSUME SchedulerAssumption, NEW b \in Bucket, NEW hinted \in BOOLEAN
    PROVE  /\ Fed(b, hinted) \in Bucket /\ Projected(Fed(b, hinted)) = 0
           /\ Fed(b, hinted).tokens = 0
  <1>1. /\ Fed(b, hinted) \in Bucket
        /\ Fed(b, hinted).tokens = 0 /\ Fed(b, hinted).since = 0
    BY FullType DEF Bucket, Fed
  <1>2. QED
    BY <1>1, FreshProjected

(* A call that fails and backs off preserves the invariant.                *)
LEMMA BackoffPreserves ==
    ASSUME SchedulerAssumption, SInv, NEW s \in Senders,
           sender[s].pc = "rpc", sender[s].attempt < MaxAttempts,
           sender' = [sender EXCEPT ![s].pc = "backoff",
                                    ![s].timer = Backoff[sender[s].attempt]],
           bucket' = Unreported(s, bucket),
           UNCHANGED <<account, ahead, synced>>
    PROVE  /\ SInv'
           /\ \A r \in Senders : ~Starts(r)
  <1>1. /\ sender[s] \in Sender /\ sender[s].attempt \in 1 .. MaxAttempts
        /\ sender[s].batch <= Batches(s) /\ sender \in [Senders -> Sender]
    BY LocalsType DEF Working, SInv, TypeOK
  <1>2. Backoff[sender[s].attempt] \in Nat
    BY <1>1 DEF SchedulerAssumption
  <1> DEFINE m == [sender[s] EXCEPT !.pc = "backoff", !.timer = Backoff[sender[s].attempt]]
  <1>3. m \in Sender
    BY <1>1, <1>2 DEF Sender, PC
  <1>4. /\ m.pc = "backoff" /\ m.batch = sender[s].batch /\ m.attempt = sender[s].attempt
        /\ m.allOk = sender[s].allOk /\ m.sent = sender[s].sent
    BY <1>1 DEF Sender
  <1>5. sender'[s] = m /\ \A r \in Senders : r # s => sender'[r] = sender[r]
    BY <1>1
  <1>6. sender' = [sender EXCEPT ![s] = m]
    BY <1>1
  <1> HIDE DEF m
  <1>a. /\ bucket' \in Bucket /\ bucket'.rate = bucket.rate
        /\ bucket'.tokens = bucket.tokens /\ Projected(bucket') = Projected(bucket)
        /\ ~bucket'.drifted => ~bucket.drifted
        /\ ~bucket'.drifted /\ Uploading(s) => Projected(bucket) = bucket.tokens
    BY UnreportedType DEF SInv, TypeOK
  <1>7. TypeOK'
    BY <1>1, <1>3, <1>6, <1>a DEF SInv, TypeOK
  <1>8. InRange'
    BY <1>1, <1>4, <1>5 DEF SInv, InRange, Batches
  <1>9. AllSent'
    <2> SUFFICES ASSUME NEW r \in Senders, sender'[r].allOk
                 PROVE  sender'[r].sent = 1 .. (sender'[r].batch - 1)
      BY DEF AllSent
    <2>1. /\ sender'[r].batch = sender[r].batch /\ sender'[r].allOk = sender[r].allOk
          /\ sender'[r].sent = sender[r].sent
      BY <1>4, <1>5
    <2>2. sender[r].allOk => sender[r].sent = 1 .. (sender[r].batch - 1)
      BY DEF SInv, AllSent
    <2>3. QED
      BY <2>1, <2>2
  <1>10. Credit'
    <2> SUFFICES ASSUME synced, ~bucket'.drifted
                 PROVE  /\ bucket'.tokens <= account
                        /\ \/ \E r \in Senders : Uploading(r)'
                           \/ Projected(bucket') <= account
      BY <1>a DEF SInv, Credit, NeverOverCredited, Projected
    <2>1. /\ bucket.tokens <= account
          /\ (\E r \in Senders : Uploading(r)) \/ Projected(bucket) <= account
      BY <1>a DEF SInv, Credit, NeverOverCredited
    <2>2. CASE \E r \in Senders \ {s} : Uploading(r)
      BY <1>5, <1>a, <2>1, <2>2 DEF Uploading
    <2>3. CASE Uploading(s)
      BY <1>a, <2>1, <2>3
    <2>4. CASE ~\E r \in Senders : Uploading(r)
      BY <1>a, <2>1, <2>4
    <2>5. QED
      BY <2>2, <2>3, <2>4
  <1>11. \A r \in Senders : ~Starts(r)
    BY <1>4, <1>5 DEF Starts
  <1>12. QED
    BY <1>7, <1>8, <1>9, <1>10, <1>11 DEF SInv

(* A step of a sender preserves the invariant, and starts no RPC that the  *)
(* server limits if the bucket was to be trusted.                          *)
LEMMA StepPreserves ==
    ASSUME SchedulerAssumption, SInv, NEW s \in Senders, Submit(s) \/ Step(s)
    PROVE  /\ SInv'
           /\ synced /\ ~bucket'.drifted =>
                 \A r \in Senders : Starts(r) => ~sender'[r].limited
  <1> DEFINE l0 == sender[s]
  <1>1. /\ l0 \in Sender /\ l0.batch \in Nat \ {0} /\ l0.attempt \in 1 .. MaxAttempts
        /\ l0.batch <= Batches(s) + 1 /\ Batches(s) \in Nat
        /\ l0.pc \in Working => l0.batch <= Batches(s)
        /\ l0.allOk => l0.sent = 1 .. (l0.batch - 1)
        /\ bucket \in Bucket /\ account \in 0 .. Full /\ synced \in BOOLEAN
    BY LocalsType
  <1>2. /\ synced /\ ~bucket.drifted =>
              /\ bucket.tokens <= account
              /\ OthersUpload(s) \/ Uploading(s) \/ Projected(bucket) <= account
        /\ synced => bucket.rate <= ServerRate
    BY DEF SInv, Credit, NeverOverCredited, OthersUpload
  <1>a. ~Uploading(s) /\ synced /\ ~bucket.drifted => Sound(s, bucket)
    BY <1>2 DEF Sound
  <1>3. TypeOK
    BY DEF SInv
  <1>4. MaxAttempts \in Nat \ {0} /\ ServerRate \in Nat \ {0}
    BY DEF SchedulerAssumption
  <1>5. CASE Submit(s)
    <2>1. PICK m : Advances(s, bucket, l0, m)
      BY <1>1, <1>3, <1>5, BeginBatchEffect DEF Submit
    <2>2. synced' = synced /\ ~Uploading(s)
      BY <1>5 DEF Submit, Uploading
    <2>3. QED
      BY <1>1, <1>2, <1>a, <2>1, <2>2, AdvancePreserves
  <1>6. CASE NoticeSent(s) \/ Wake(s)
    <2>1. l0.batch <= Batches(s) /\ synced' = synced /\ ~Uploading(s)
      BY <1>1, <1>6 DEF NoticeSent, Wake, Working, Uploading
    <2>2. Acquire(s, bucket, l0, Job[s].sizes[l0.batch] * Unit)
      BY <1>6 DEF NoticeSent, Wake, Cost
    <2>3. PICK m : Advances(s, bucket, l0, m)
      BY <1>1, <1>3, <2>1, <2>2, AcquireEffect
    <2>4. QED
      BY <1>1, <1>2, <1>a, <2>1, <2>3, AdvancePreserves
  <1>7. CASE Retry(s)
    <2>1. /\ l0.batch <= Batches(s) /\ synced' = synced /\ l0.attempt < MaxAttempts
          /\ ~Uploading(s)
      BY <1>1, <1>7 DEF Retry, Working, SInv, InRange, Uploading
    <2> DEFINE l == [l0 EXCEPT !.attempt = @ + 1]
    <2>2. /\ l \in Sender /\ l.batch = l0.batch /\ l.allOk = l0.allOk /\ l.sent = l0.sent
      BY <1>1, <1>4, <2>1, NextAttempt
    <2>3. Acquire(s, bucket, l, Job[s].sizes[l.batch] * Unit)
      BY <1>7, <2>2 DEF Retry, Cost
    <2> HIDE DEF l
    <2>4. PICK m : Advances(s, bucket, l, m)
      BY <1>1, <1>3, <2>1, <2>2, <2>3, AcquireEffect
    <2>5. QED
      BY <1>1, <1>2, <1>a, <2>1, <2>2, <2>4, AdvancePreserves
  <1>8. CASE RpcSucceeds(s)
    <2> DEFINE k == [l0 EXCEPT !.sent = @ \cup {l0.batch}]
               l == BatchOver(k, TRUE)
               b == Reported(bucket)
    <2>1. synced' = synced /\ BeginBatch(s, b, l) /\ l0.batch <= Batches(s)
      BY <1>1, <1>8 DEF RpcSucceeds, Working
    <2>2. /\ k \in Sender /\ k.batch = l0.batch /\ k.allOk = l0.allOk
          /\ k.sent = l0.sent \cup {l0.batch}
      BY <1>1 DEF Sender
    <2>3. /\ l \in Sender /\ l.batch = l0.batch + 1 /\ l.allOk = (l0.allOk /\ TRUE)
          /\ l.sent = l0.sent \cup {l0.batch}
      <3> HIDE DEF k
      <3>1. QED
        BY <2>2, NextBatch
    <2>4. /\ b \in Bucket /\ b.rate = bucket.rate /\ b.drifted = bucket.drifted
          /\ b.tokens = bucket.tokens /\ Projected(b) = bucket.tokens
      BY <1>1, ReportedType
    <2> HIDE DEF b, k, l
    <2>5. l.allOk => l.sent = 1 .. (l.batch - 1)
      <3>1. l.allOk => l0.sent = 1 .. (l0.batch - 1)
        BY <1>1, <2>3
      <3>2. (1 .. (l0.batch - 1)) \cup {l0.batch} = 1 .. (l0.batch + 1 - 1)
        BY <1>1
      <3>3. l.batch = l0.batch + 1 /\ l.sent = l0.sent \cup {l0.batch}
        BY <2>3
      <3>4. ASSUME l.allOk
            PROVE  l.sent = 1 .. (l0.batch + 1 - 1)
        BY <3>1, <3>2, <3>3, <3>4
      <3>5. l.batch - 1 = l0.batch + 1 - 1
        BY <1>1, <3>3
      <3>6. QED
        BY <3>4, <3>5
    <2>6. l.batch <= Batches(s) + 1
      BY <1>1, <2>1, <2>3
    <2>7. PICK m : Advances(s, b, l, m)
      BY <1>3, <2>1, <2>3, <2>4, BeginBatchEffect
    <2>8. synced /\ ~b.drifted => Sound(s, b)
      BY <1>2, <2>4 DEF Sound
    <2>9. QED
      BY <1>1, <1>2, <2>1, <2>3, <2>4, <2>5, <2>6, <2>7, <2>8, AdvancePreserves
  <1>9. CASE RpcFails(s)
    <2>1. synced' = synced /\ l0.batch <= Batches(s)
      BY <1>1, <1>9 DEF RpcFails, Working
    <2> DEFINE b == Unreported(s, bucket)
    <2>2. CASE l0.attempt < MaxAttempts
      BY <1>1, <1>9, <2>2, BackoffPreserves DEF RpcFails
    <2>3. CASE ~(l0.attempt < MaxAttempts)
      <3> DEFINE l == BatchOver(l0, FALSE)
      <3>1. BeginBatch(s, b, l)
        BY <1>9, <2>3 DEF RpcFails
      <3>2. l \in Sender /\ l.batch = l0.batch + 1 /\ ~l.allOk
        BY <1>1, NextBatch
      <3>3. /\ b \in Bucket /\ b.rate = bucket.rate /\ b.tokens = bucket.tokens
            /\ Projected(b) = Projected(bucket) /\ (~b.drifted => ~bucket.drifted)
            /\ ~b.drifted /\ Uploading(s) => Projected(bucket) = bucket.tokens
        BY <1>1, UnreportedType
      <3> HIDE DEF b, l
      <3>4. PICK m : Advances(s, b, l, m)
        BY <1>3, <3>1, <3>2, <3>3, BeginBatchEffect
      <3>5. l.batch <= Batches(s) + 1
        BY <1>1, <2>1, <3>2
      <3>6. synced /\ ~b.drifted => Sound(s, b)
        BY <1>2, <3>3 DEF Sound
      <3>7. QED
        BY <1>1, <1>2, <2>1, <3>2, <3>3, <3>4, <3>5, <3>6, AdvancePreserves
    <2>4. QED
      BY <2>2, <2>3
  <1>10. CASE RpcLimited(s)
    <2>1. l0.batch <= Batches(s)
      BY <1>1, <1>10 DEF RpcLimited, Working
    <2>2. PICK hinted \in BOOLEAN :
             /\ IF l0.attempt < MaxAttempts
                THEN Acquire(s, Fed(bucket, hinted), [l0 EXCEPT !.attempt = @ + 1], Cost(s))
                ELSE BeginBatch(s, Fed(bucket, hinted), BatchOver(l0, FALSE))
             /\ synced' = (Fed(bucket, hinted).rate <= ServerRate)
      BY <1>10 DEF RpcLimited
    <2> DEFINE b == Fed(bucket, hinted)
    <2>3. b \in Bucket /\ Projected(b) = 0 /\ b.tokens = 0
      BY <1>1, FedType
    <2>4. synced' = (b.rate <= ServerRate)
      BY <2>2
    <2>a. synced' \in BOOLEAN
      BY <2>4
    <2>5. Sound(s, b)
      BY <1>1, <2>3, FullType DEF Sound
    <2>6. CASE l0.attempt < MaxAttempts
      <3> DEFINE l == [l0 EXCEPT !.attempt = @ + 1]
      <3>1. l \in Sender /\ l.batch = l0.batch /\ l.allOk = l0.allOk /\ l.sent = l0.sent
        BY <1>1, <1>4, <2>6, NextAttempt
      <3>2. Acquire(s, b, l, Job[s].sizes[l.batch] * Unit)
        BY <2>2, <2>6, <3>1 DEF Cost
      <3> HIDE DEF b, l
      <3>3. PICK m : Advances(s, b, l, m)
        BY <1>1, <1>3, <2>1, <2>3, <3>1, <3>2, AcquireEffect
      <3>4. QED
        BY <1>1, <2>3, <2>4, <2>a, <2>5, <3>1, <3>3, AdvancePreserves
    <2>7. CASE ~(l0.attempt < MaxAttempts)
      <3> DEFINE l == BatchOver(l0, FALSE)
      <3>1. BeginBatch(s, b, l)
        BY <2>2, <2>7
      <3>2. l \in Sender /\ l.batch = l0.batch + 1 /\ ~l.allOk
        BY <1>1, NextBatch
      <3> HIDE DEF b, l
      <3>3. PICK m : Advances(s, b, l, m)
        BY <1>3, <2>3, <3>1, <3>2, BeginBatchEffect
      <3>4. l.batch <= Batches(s) + 1
        BY <1>1, <2>1, <3>2
      <3>5. QED
        BY <2>3, <2>4, <2>a, <2>5, <3>2, <3>3, <3>4, AdvancePreserves
    <2>8. QED
      BY <2>6, <2>7
  <1>11. QED
    BY <1>5, <1>6, <1>7, <1>8, <1>9, <1>10 DEF Step

(* A tick preserves the invariant: the bucket refills no faster than the   *)
(* account.                                                                *)
LEMMA TickPreserves ==
    ASSUME SchedulerAssumption, SInv, Tick
    PROVE  SInv'
  <1> DEFINE t(s) == IF sender[s].timer = 0 THEN 0 ELSE sender[s].timer - 1
             c == [bucket EXCEPT !.since = Least(Full, bucket.since + 1)]
  <1>1. /\ bucket' = c
        /\ sender' = [s \in Senders |-> [sender[s] EXCEPT !.timer = t(s)]]
        /\ synced' = synced /\ ahead' = ahead
        /\ account' = IF \E s \in Senders : Uploading(s)
                      THEN account ELSE Least(Full, account + ServerRate)
    BY DEF Tick, t, c
  <1>2. /\ bucket \in Bucket /\ account \in 0 .. Full /\ Full \in Nat /\ ServerRate \in Nat
        /\ bucket.since \in 0 .. Full
    BY ProjectedType, FullType DEF SInv, TypeOK, SchedulerAssumption
  <1>3. \A s \in Senders :
           /\ sender'[s] \in Sender /\ sender'[s].pc = sender[s].pc
           /\ sender'[s].batch = sender[s].batch /\ sender'[s].attempt = sender[s].attempt
           /\ sender'[s].allOk = sender[s].allOk /\ sender'[s].sent = sender[s].sent
           /\ sender'[s].limited = sender[s].limited
    <2> SUFFICES ASSUME NEW s \in Senders
                 PROVE  /\ sender'[s] \in Sender /\ sender'[s].pc = sender[s].pc
                        /\ sender'[s].batch = sender[s].batch
                        /\ sender'[s].attempt = sender[s].attempt
                        /\ sender'[s].allOk = sender[s].allOk
                        /\ sender'[s].sent = sender[s].sent
                        /\ sender'[s].limited = sender[s].limited
      OBVIOUS
    <2>1. sender[s] \in Sender
      BY DEF SInv, TypeOK
    <2>2. t(s) \in Nat
      BY <2>1 DEF Sender
    <2>3. sender'[s] = [sender[s] EXCEPT !.timer = t(s)]
      BY <1>1
    <2> HIDE DEF t
    <2>4. QED
      BY <2>1, <2>2, <2>3 DEF Sender
  <1>4. /\ c \in Bucket /\ c.rate = bucket.rate
        /\ c.tokens = bucket.tokens /\ c.drifted = bucket.drifted
    <2>1. Least(Full, bucket.since + 1) \in 0 .. Full
      BY <1>2 DEF Least
    <2>2. QED
      BY <1>2, <2>1 DEF Bucket
  <1>5. account' \in 0 .. Full
    BY <1>1, <1>2 DEF Least
  <1>6. sender' = [s \in Senders |-> sender'[s]]
    BY <1>1
  <1>7. TypeOK'
    BY <1>1, <1>3, <1>4, <1>5, <1>6 DEF SInv, TypeOK
  <1>8. InRange'
    BY <1>3 DEF SInv, InRange, Batches
  <1>9. AllSent'
    BY <1>3 DEF SInv, AllSent
  <1>10. Credit'
    <2>1. synced => bucket'.rate <= ServerRate
      BY <1>1, <1>4 DEF SInv, Credit
    <2> SUFFICES ASSUME synced, ~bucket.drifted
                 PROVE  /\ bucket'.tokens <= account'
                        /\ \/ \E s \in Senders : Uploading(s)'
                           \/ Projected(bucket') <= account'
      BY <1>1, <1>4, <2>1 DEF Credit, NeverOverCredited, Projected
    <2>2. /\ bucket.tokens <= account /\ bucket.rate <= ServerRate
          /\ (\E s \in Senders : Uploading(s)) \/ Projected(bucket) <= account
      BY DEF SInv, Credit, NeverOverCredited
    <2>3. CASE \E s \in Senders : Uploading(s)
      BY <1>1, <1>3, <1>4, <2>2, <2>3 DEF Uploading
    <2>4. CASE ~\E s \in Senders : Uploading(s)
      <3>1. account' = Least(Full, account + ServerRate) /\ Projected(bucket) <= account
        BY <1>1, <2>2, <2>4
      <3>2. Projected(bucket') <= account'
        BY <1>1, <1>2, <2>2, <3>1, TickCredit
      <3>3. bucket.tokens <= account'
        BY <1>2, <2>2, <3>1, ProjectedType DEF Least
      <3>4. QED
        BY <1>1, <1>4, <3>2, <3>3
    <2>5. QED
      BY <2>3, <2>4
  <1>11. QED
    BY <1>7, <1>8, <1>9, <1>10 DEF SInv

----------------------------------------------------------------------------
(* The invariant, and what it gives.                                       *)

(* The invariant holds at the start: a bucket taken to be full is to be    *)
(* trusted if the server's is.                                             *)
LEMMA InitSInv ==
    ASSUME SchedulerAssumption, Init
    PROVE  SInv
  <1>1. Full \in Nat /\ Full > 0 /\ MaxAttempts \in Nat \ {0}
    BY FullType DEF SchedulerAssumption
  <1>2. bucket \in Bucket /\ bucket.tokens = Full /\ bucket.since = 0
        /\ bucket.rate = DefaultRate
    BY <1>1 DEF Init, Bucket
  <1>3. \A s \in Senders : /\ sender[s] \in Sender /\ sender[s].pc = "idle"
                           /\ sender[s].batch = 1 /\ sender[s].sent = {}
    <2> SUFFICES ASSUME NEW s \in Senders
                 PROVE  /\ sender[s] \in Sender /\ sender[s].pc = "idle"
                        /\ sender[s].batch = 1 /\ sender[s].sent = {}
      OBVIOUS
    <2>1. sender[s] = [pc |-> "idle", batch |-> 1, attempt |-> 1, timer |-> 0,
                       limited |-> FALSE, allOk |-> TRUE, sent |-> {}]
      BY DEF Init
    <2>2. 1 \in 1 .. MaxAttempts /\ {} \in SUBSET Nat
      BY <1>1
    <2>3. QED
      BY <2>1, <2>2 DEF Sender, PC
  <1>4. TypeOK
    BY <1>2, <1>3 DEF Init, TypeOK
  <1>5. InRange
    <2> SUFFICES ASSUME NEW s \in Senders
                 PROVE  sender[s].pc = "idle" /\ sender[s].batch <= Batches(s) + 1
      BY <1>3 DEF InRange, Working
    <2>1. QED
      BY <1>3, BatchesType
  <1>6. AllSent
    <2>1. {} = 1 .. (1 - 1)
      OBVIOUS
    <2>2. QED
      BY <1>3, <2>1 DEF AllSent
  <1>7. Credit
    <2>1. Projected(bucket) = Full
      BY <1>2, FreshProjected
    <2>2. synced => account = Full /\ DefaultRate <= ServerRate
      BY DEF Init
    <2>3. QED
      BY <1>1, <1>2, <2>1, <2>2 DEF Credit, NeverOverCredited
  <1>8. QED
    BY <1>4, <1>5, <1>6, <1>7 DEF SInv

(* Every step preserves the invariant and, from a bucket to be trusted,    *)
(* starts no RPC that the server limits.                                   *)
LEMMA NextSInv ==
    ASSUME SchedulerAssumption, SInv, [Next]_vars
    PROVE  /\ SInv'
           /\ synced /\ ~bucket'.drifted =>
                 \A r \in Senders : Starts(r) => ~sender'[r].limited
  <1>1. CASE UNCHANGED vars
    BY <1>1 DEF vars, SInv, TypeOK, InRange, AllSent, Credit, NeverOverCredited, Projected,
                Batches, Uploading, Starts
  <1>2. CASE \E s \in Senders : Submit(s) \/ Step(s)
    BY <1>2, StepPreserves
  <1>3. CASE Tick
    <2>1. \A r \in Senders : /\ sender'[r].pc = sender[r].pc
                             /\ sender'[r].batch = sender[r].batch
      BY <1>3 DEF Tick, SInv, TypeOK, Sender
    <2>2. QED
      BY <1>3, <2>1, TickPreserves DEF Starts
  <1>4. QED
    BY <1>1, <1>2, <1>3 DEF Next

(* The invariant is one of the specification.                              *)
LEMMA SInvariant == SchedulerAssumption => (Spec => []SInv)
  <1> SUFFICES ASSUME SchedulerAssumption
               PROVE  Spec => []SInv
    OBVIOUS
  <1>1. Init => SInv
    BY InitSInv
  <1>2. SInv /\ [Next]_vars => SInv'
    BY NextSInv
  <1>3. QED
    BY <1>1, <1>2, PTL DEF Spec

(* The paced sends keep their types, whatever the jobs and the rates       *)
(* (signal_rate_limit.py, signal_client.py): a sender never passes its     *)
(* attempts, and the bucket is never over full nor below empty.            *)
THEOREM SchedulerTypeCorrect == SchedulerAssumption => (Spec => []TypeOK)
  <1> SUFFICES ASSUME SchedulerAssumption
               PROVE  Spec => []TypeOK
    OBVIOUS
  <1>1. SInv => TypeOK
    BY DEF SInv
  <1>2. QED
    BY <1>1, SInvariant, PTL

(* send_attachments answers True only if every batch was sent, for every   *)
(* number of batches and of calls at once (signal_client.py:512-521).      *)
THEOREM TrueOnlyIfAllSent == SchedulerAssumption => (Spec => []TrueMeansAllSent)
  <1> SUFFICES ASSUME SchedulerAssumption
               PROVE  Spec => []TrueMeansAllSent
    OBVIOUS
  <1>1. SInv => TrueMeansAllSent
    <2> SUFFICES ASSUME SInv, NEW s \in Senders, sender[s].pc = "done", sender[s].allOk
                 PROVE  sender[s].sent = 1 .. Batches(s)
      BY DEF TrueMeansAllSent
    <2>1. /\ sender[s].batch \in Nat /\ Batches(s) \in Nat
          /\ sender[s].batch <= Batches(s) + 1
          /\ sender[s].sent = 1 .. (sender[s].batch - 1)
      BY LocalsType
    <2>2. sender[s].batch > Batches(s)
      BY DEF SInv, InRange
    <2>3. sender[s].batch - 1 = Batches(s)
      <3>1. \A i, j \in Nat : i <= j + 1 /\ i > j => i - 1 = j
        OBVIOUS
      <3>2. QED
        BY <2>1, <2>2, <3>1
    <2>4. QED
      BY <2>1, <2>3
  <1>2. QED
    BY <1>1, SInvariant, PTL

(* However many sends share the bucket, and though the server refills      *)
(* nothing during an upload: a bucket that has started from a known state  *)
(* of the account, at no more than its rate, does not promise more than    *)
(* the account has, as long as no refill credits the time of an upload     *)
(* (signal_rate_limit.py:231-233, 284-289).                                *)
THEOREM BucketTrustworthy == SchedulerAssumption => (Spec => []NeverOverCredited)
  <1> SUFFICES ASSUME SchedulerAssumption
               PROVE  Spec => []NeverOverCredited
    OBVIOUS
  <1>1. SInv => NeverOverCredited
    BY DEF SInv, Credit
  <1>2. QED
    BY <1>1, SInvariant, PTL

(* So no RPC that starts from then on is answered with a 429, whatever     *)
(* the number of sends sharing the bucket (signal_rate_limit.py:310-330),  *)
(* until a refill credits the time of another send's upload or of one that *)
(* failed.                                                                 *)
THEOREM NoFurther429 == SchedulerAssumption => (Spec => NeverLimitedOnceSynced)
  <1> SUFFICES ASSUME SchedulerAssumption
               PROVE  Spec => NeverLimitedOnceSynced
    OBVIOUS
  <1> DEFINE A == \A s \in Senders :
                     synced /\ Starts(s) /\ ~bucket'.drifted => ~sender'[s].limited
  <1>1. SInv /\ [Next]_vars => [A]_vars
    BY NextSInv
  <1> HIDE DEF A
  <1>2. Spec => [][A]_vars
    BY <1>1, SInvariant, PTL DEF Spec
  <1>3. QED
    BY <1>2 DEF NeverLimitedOnceSynced, A
=============================================================================
