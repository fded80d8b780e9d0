------------------------ MODULE AttachmentScheduler ------------------------
(***************************************************************************)
(* The sends of attachments and voice notes (signal_client.py) paced by    *)
(* the process-wide token bucket (signal_rate_limit.py), against the       *)
(* bucket Signal's server keeps for the account.                           *)
(*                                                                         *)
(* A sender is one call of send_attachments or send_voice_note; its job is *)
(* the sizes of its batches.  The lock of the scheduler is never held at   *)
(* an await, so it never makes anyone wait: acquire is one step up to its  *)
(* sleep, and a step here runs from the answer of one await to the next    *)
(* await.  Time passes in ticks and tokens are counted in units, so that a *)
(* rate is a whole number of units per tick.                               *)
(***************************************************************************)
EXTENDS Integers, Sequences

CONSTANTS
    Senders,        \* concurrent calls of the media senders
    Job,            \* Job[s]: [sizes: batch sizes, paced: whether send_attachments]
    Unit,           \* units in a token
    Capacity,       \* tokens in a full bucket, here and at the server
    DefaultRate,    \* refill_rate before any feedback, in units per tick
    ServerRate,     \* the server's refill rate
    MaxAttempts,    \* SIGNAL_RATE_LIMIT_MAX_ATTEMPTS
    Backoff,        \* Backoff[a]: the sleep after failed attempt a, in ticks (2.0 ** a)
    NoticeAfter     \* SIGNAL_BATCH_PACING_NOTICE_THRESHOLD, in ticks

ASSUME SchedulerAssumption ==
    /\ \A s \in Senders : /\ Job[s].sizes \in Seq(1 .. Capacity)
                          /\ Job[s].paced \in BOOLEAN
    /\ Unit \in Nat \ {0}
    /\ Capacity \in Nat \ {0}
    /\ DefaultRate \in Nat \ {0}
    /\ ServerRate \in Nat \ {0}
    /\ MaxAttempts \in Nat \ {0}
    /\ Backoff \in [1 .. MaxAttempts -> Nat]
    /\ NoticeAfter \in Nat

VARIABLES
    bucket,     \* tokens, refill_rate, the ticks since last_refill; drifted
    sender,     \* sender[s]: the locals of call s
    account,    \* the server's bucket
    synced,     \* history: the bucket has started from a known state of it
    ahead       \* history: ahead[s]: those who slept in acquire when s began to

vars == <<bucket, sender, account, synced, ahead>>

Full == Capacity * Unit
Least(a, b) == IF a <= b THEN a ELSE b
DivUp(a, b) == (a + b - 1) \div b

Batches(s) == Len(Job[s].sizes)
Cost(s) == Job[s].sizes[sender[s].batch] * Unit

PC == {"idle", "notice", "asleep", "rpc", "backoff", "done"}

(* attempt is the attempt of the batch under way, timer what is left of a  *)
(* sleep, limited the server's verdict on the RPC under way, allOk         *)
(* all_ok; sent, history, the batches the server has accepted.             *)
Sender == [pc : PC, batch : Nat \ {0}, attempt : 1 .. MaxAttempts, timer : Nat,
           limited : BOOLEAN, allOk : BOOLEAN, sent : SUBSET Nat]

(* drifted, history: since the last 429 a refill may have credited time in *)
(* which an upload was under way.                                          *)
Bucket == [tokens : 0 .. Full, rate : {DefaultRate, ServerRate}, since : 0 .. Full,
           drifted : BOOLEAN]

(* A started gateway takes the server's bucket to be full.                 *)
Init ==
    /\ bucket = [tokens |-> Full, rate |-> DefaultRate, since |-> 0, drifted |-> FALSE]
    /\ account \in 0 .. Full
    /\ synced = (account = Full /\ DefaultRate <= ServerRate)
    /\ sender = [s \in Senders |-> [pc |-> "idle", batch |-> 1, attempt |-> 1, timer |-> 0,
                                    limited |-> FALSE, allOk |-> TRUE, sent |-> {}]]
    /\ ahead = [s \in Senders |-> {}]

----------------------------------------------------------------------------
(* SignalAttachmentScheduler.                                              *)

(* What tokens would be after a refill now.                                *)
ProjectedUncapped(b) ==      \* mutant: no cap
    b.tokens + b.rate * b.since
Projected(b) == Least(Full, b.tokens + b.rate * b.since)

RefilledClockOnly(b) == [b EXCEPT !.since = 0]   \* mutant: nothing credited

Refilled(b) == [b EXCEPT !.tokens = Projected(b), !.since = 0]

EstimateWait(b, cost) ==
    IF Projected(b) >= cost THEN 0 ELSE DivUp(cost - Projected(b), b.rate)

ReportedNothing(b) == b      \* mutant: the clock goes on

(* report_rpc_duration restarts the clock of the refill.                   *)
Reported(b) == [b EXCEPT !.since = 0]

FedTokensKept(b, hinted) ==  \* mutant: tokens are not zeroed
    [tokens |-> b.tokens, rate |-> IF hinted THEN ServerRate ELSE b.rate, since |-> 0,
     drifted |-> FALSE]

(* feedback empties the bucket; a hint is the server's rate.               *)
Fed(b, hinted) == [tokens |-> 0, rate |-> IF hinted THEN ServerRate ELSE b.rate, since |-> 0,
                   drifted |-> FALSE]

(***************************************************************************)
(* The server takes in s's upload, and refills nothing meanwhile           *)
(* (signal_rate_limit.py:286-287).  A refill by s counts the time of the   *)
(* uploads of others in; one after an upload of its own that failed, and   *)
(* so was not reported, counts that one in (Unreported).                   *)
(***************************************************************************)
Uploading(s) == sender[s].pc = "rpc" /\ ~sender[s].limited
OthersUpload(s) == \E r \in Senders \ {s} : Uploading(r)

RefilledBy(s, b) ==
    [Refilled(b) EXCEPT !.drifted = @ \/ (b.since > 0 /\ OthersUpload(s))]
Unreported(s, b) ==
    [b EXCEPT !.drifted = @ \/ (b.since > 0 /\ Uploading(s))]

(***************************************************************************)
(* One pass of acquire's loop with bucket b, by sender s whose locals are  *)
(* l: the tokens are taken and the RPC starts, at which the server checks  *)
(* its own bucket; or s sleeps for as long as the deficit takes to refill. *)
(***************************************************************************)
Acquire(s, b, l, cost) ==
    LET f == RefilledBy(s, b)
    IN  IF f.tokens >= cost
        THEN /\ bucket' = [f EXCEPT !.tokens = @ - cost]
             /\ account' = IF account >= cost THEN account - cost ELSE account
             /\ sender' = [sender EXCEPT ![s] = [l EXCEPT !.pc = "rpc",
                                                          !.limited = account < cost]]
             /\ ahead' = [r \in Senders |-> IF r = s THEN {} ELSE ahead[r] \ {s}]
        ELSE /\ bucket' = f
             /\ sender' = [sender EXCEPT ![s] =
                              [l EXCEPT !.pc = "asleep",
                                        !.timer = DivUp(cost - f.tokens, f.rate)]]
             /\ ahead' = IF sender[s].pc = "asleep" THEN ahead
                         ELSE [ahead EXCEPT ![s] = {r \in Senders : sender[r].pc = "asleep"}]
             /\ UNCHANGED account

----------------------------------------------------------------------------
(* send_attachments, send_voice_note and _send_attachment_batch.           *)

(* Sender s, its locals being l, turns to batch l.batch or returns.        *)
BeginBatch(s, b, l) ==
    IF l.batch > Batches(s)
    THEN /\ sender' = [sender EXCEPT ![s] = [l EXCEPT !.pc = "done"]]
         /\ bucket' = b
         /\ UNCHANGED <<account, ahead>>
    ELSE LET cost == Job[s].sizes[l.batch] * Unit
         IN  IF Job[s].paced /\ EstimateWait(b, cost) >= NoticeAfter
             THEN /\ sender' = [sender EXCEPT ![s] = [l EXCEPT !.pc = "notice"]]
                  /\ bucket' = b
                  /\ UNCHANGED <<account, ahead>>
             ELSE Acquire(s, b, l, cost)

(* The batch under way is over, in success or not; on to the next one.     *)
BatchOverLastCounts(l, ok) ==    \* mutant: the last batch decides
    [l EXCEPT !.batch = @ + 1, !.attempt = 1, !.allOk = ok]

BatchOver(l, ok) == [l EXCEPT !.batch = @ + 1, !.attempt = 1, !.allOk = @ /\ ok]

Submit(s) ==
    /\ sender[s].pc = "idle"
    /\ BeginBatch(s, bucket, sender[s])
    /\ UNCHANGED synced

(* The pacing notice is best effort: whether it was sent does not matter.  *)
NoticeSent(s) ==
    /\ sender[s].pc = "notice"
    /\ Acquire(s, bucket, sender[s], Cost(s))
    /\ UNCHANGED synced

Wake(s) ==
    /\ sender[s].pc = "asleep"
    /\ sender[s].timer = 0
    /\ Acquire(s, bucket, sender[s], Cost(s))
    /\ UNCHANGED synced

RpcSucceeds(s) ==
    /\ sender[s].pc = "rpc" /\ ~sender[s].limited
    /\ LET l == [sender[s] EXCEPT !.sent = @ \cup {sender[s].batch}]
       IN  BeginBatch(s, Reported(bucket), BatchOver(l, TRUE))
    /\ UNCHANGED synced

(* The RPC fails or its timeout passes, so that a 429 goes unseen;         *)
(* signal-cli may have sent the batch all the same.  The duration is not   *)
(* reported.                                                               *)
RpcFails(s) ==
    /\ sender[s].pc = "rpc"
    /\ LET b == Unreported(s, bucket)
       IN  IF sender[s].attempt < MaxAttempts
           THEN /\ sender' = [sender EXCEPT ![s].pc = "backoff",
                                            ![s].timer = Backoff[sender[s].attempt]]
                /\ bucket' = b
                /\ UNCHANGED <<account, ahead>>
           ELSE BeginBatch(s, b, BatchOver(sender[s], FALSE))
    /\ UNCHANGED synced

Retry(s) ==
    /\ sender[s].pc = "backoff"
    /\ sender[s].timer = 0
    /\ Acquire(s, bucket, [sender[s] EXCEPT !.attempt = @ + 1], Cost(s))
    /\ UNCHANGED synced

(* The server's 429, with or without its rate.                             *)
RpcLimited(s) ==
    /\ sender[s].pc = "rpc" /\ sender[s].limited
    /\ \E hinted \in BOOLEAN :
          LET b == Fed(bucket, hinted)
          IN  /\ IF sender[s].attempt < MaxAttempts
                 THEN Acquire(s, b, [sender[s] EXCEPT !.attempt = @ + 1], Cost(s))
                 ELSE BeginBatch(s, b, BatchOver(sender[s], FALSE))
              /\ synced' = (b.rate <= ServerRate)

Step(s) == \/ NoticeSent(s) \/ Wake(s) \/ Retry(s)
           \/ RpcSucceeds(s) \/ RpcFails(s) \/ RpcLimited(s)

----------------------------------------------------------------------------
(* One tick.  A refill never exceeds Full, so that since need not either.  *)
Tick ==
    /\ bucket' = [bucket EXCEPT !.since = Least(Full, @ + 1)]
    /\ account' = IF \E s \in Senders : Uploading(s)
                  THEN account ELSE Least(Full, account + ServerRate)
    /\ sender' = [s \in Senders |->
                    [sender[s] EXCEPT !.timer = IF @ = 0 THEN 0 ELSE @ - 1]]
    /\ UNCHANGED <<synced, ahead>>

Next ==
    \/ \E s \in Senders : Submit(s) \/ Step(s)
    \/ Tick

Spec == Init /\ [][Next]_vars

(* The clock runs, timers wake their sleepers, and every RPC has a timeout *)
(* (_signal_send_timeout).  Nothing has to be submitted.                   *)
Fairness == WF_vars(Tick) /\ \A s \in Senders : WF_vars(Step(s))
FairSpec == Spec /\ Fairness

----------------------------------------------------------------------------
TypeOK ==
    /\ bucket \in Bucket
    /\ sender \in [Senders -> Sender]
    /\ account \in 0 .. Full
    /\ synced \in BOOLEAN
    /\ ahead \in [Senders -> SUBSET Senders]

(* A step in which s starts an RPC.                                        *)
Starts(s) ==
    /\ sender'[s].pc = "rpc"
    /\ sender[s].pc # "rpc" \/ sender'[s].batch # sender[s].batch

(***************************************************************************)
(* Once the bucket has started from a known state of the server's, at no   *)
(* more than its rate, it never promises tokens the account does not have, *)
(* however many sends share it and though the account stands still during  *)
(* an upload (signal_rate_limit.py:231-233, 284-289): its tokens are there *)
(* during an upload, and what a refill would give as well when there is    *)
(* none.  Unless it has drifted: scheduler_upload shows that it then may.  *)
(***************************************************************************)
NeverOverCredited ==
    synced /\ ~bucket.drifted =>
       /\ bucket.tokens <= account
       /\ (\E s \in Senders : Uploading(s)) \/ Projected(bucket) <= account

(***************************************************************************)
(* So a send that starts from then on is not answered with a 429: one 429  *)
(* with a hint is the last one (signal_rate_limit.py:310-330), until a     *)
(* refill comes during the upload of another send or after an upload that  *)
(* failed.                                                                 *)
(***************************************************************************)
NeverLimitedOnceSynced ==
    [][\A s \in Senders :
          synced /\ Starts(s) /\ ~bucket'.drifted => ~sender'[s].limited]_vars

(***************************************************************************)
(* send_attachments answers True only if every batch was sent: a batch     *)
(* that fails is not covered up by a later one (signal_client.py:512-521). *)
(***************************************************************************)
TrueMeansAllSent ==
    \A s \in Senders : sender[s].pc = "done" /\ sender[s].allOk
                          => sender[s].sent = 1 .. Batches(s)

(***************************************************************************)
(* A send ends, whoever else is taking tokens (signal_rate_limit.py:       *)
(* 250-279): nobody sleeps in acquire for ever.                            *)
(***************************************************************************)
SendEnds == \A s \in Senders : sender[s].pc # "idle" ~> sender[s].pc = "done"

(***************************************************************************)
(* signal_rate_limit.py:284-289: the bucket does not credit the time of an *)
(* upload, in which the server refills nothing, and so does not drift into *)
(* a 429.                                                                  *)
(***************************************************************************)
UploadNotCredited ==
    [][\A s \in Senders :
          synced /\ Starts(s) => ~sender'[s].limited]_vars

(***************************************************************************)
(* signal_rate_limit.py:9-10 and 180-181: acquires are served first come,  *)
(* first served, so tokens go to the longest waiter if anyone waits.       *)
(***************************************************************************)
FifoGrant ==
    [][\A s, r \in Senders :
          /\ Starts(s)
          /\ sender[r].pc = "asleep" /\ r # s
          => sender[s].pc = "asleep" /\ r \notin ahead[s]]_vars
=============================================================================
