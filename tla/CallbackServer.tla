--------------------------- MODULE CallbackServer ---------------------------
(***************************************************************************)
(* The reply path: POST /progress-callback (callback_server.py) and the    *)
(* deliveries it schedules (dispatch.py), over the cache of delivered      *)
(* replies (CompletedKeys).                                                *)
(*                                                                         *)
(* The gateway runs on one event loop.  A request handler is synchronous   *)
(* once its body has been read, so it is one action.  A delivery is a      *)
(* background task of its own: each action of a task is one awaited call   *)
(* to signal-cli or to the media host together with the code that runs     *)
(* from its answer to the next await.  A call that signal-cli does not     *)
(* acknowledge may all the same reach the user later (signal_rate_limit.py *)
(* 155-160), also after the gateway has been restarted.                    *)
(*                                                                         *)
(* Requests that are refused (bad token, malformed body, unrecognized      *)
(* payload) and "status" callbacks return before any state is read; they   *)
(* are stuttering steps here.                                              *)
(***************************************************************************)
EXTENDS CompletedKeys, FiniteSets

CONSTANTS
    Callbacks,      \* the callbacks the worker may post, any number of times
    MaxRequests,    \* bound: accepted requests in a behaviour
    MaxRestarts,    \* bound: restarts of the gateway process
    Horizon,        \* bound: the last tick of the clock
    MaxLate         \* bound: calls given up on that may still be carried out

(* What the handler and the dispatcher read of a CallbackPayload: chunks   *)
(* is the number of chunks the text splits into, voice whether there is a  *)
(* voice url or base64, atts the number of attachments with a url.         *)
Callback == [type : {"progress", "complete", "error"}, user : STRING, key : Keys,
             chunks : Nat, voice : BOOLEAN, atts : Nat]

ASSUME CallbackAssumption ==
    /\ Callbacks \subseteq Callback
    /\ MaxRequests \in Nat
    /\ MaxRestarts \in Nat
    /\ Horizon \in Nat
    /\ MaxLate \in Nat

VARIABLES
    inFlight,   \* app.state.in_flight
    nreq,       \* requests accepted so far; the n-th one is named n
    tasks,      \* tasks[n]: the background task of request n
    boot,       \* how often the process was restarted
    shown,      \* what the user's Signal client has been given
    late        \* unacknowledged calls that signal-cli may still carry out

vars == <<dedupVars, inFlight, nreq, tasks, boot, shown, late>>

Requests == 1 .. MaxRequests
Accepted == 1 .. nreq

(* A message of delivery n: its voice note, the i-th chunk of its text,    *)
(* its i-th attachment, the fallback text of an error.                     *)
Item(n, kind, i) == [by |-> n, kind |-> kind, i |-> i]
Kinds == {"voice", "text", "file", "fallback"}
Items == [by : Requests, kind : Kinds, i : Nat]

Waiting == {"voice_get", "voice_send", "text", "att_get", "att_send", "fallback", "react"}
PC == Waiting \cup {"dropped", "end", "lost"}

(* The locals of a task: call is its payload, tried and sent count the     *)
(* chunks handed to signal-cli and those acknowledged, fetched the         *)
(* downloads attempted, got are the attachments downloaded.  arrived, done *)
(* and boot are history: when the request came, when the task ended, in    *)
(* which run of the process.                                               *)
Task == [pc : PC, call : Callbacks, tried : Nat, sent : Nat, voiceOk : BOOLEAN,
         fetched : Nat, got : SUBSET Nat, attOk : BOOLEAN, delivered : BOOLEAN,
         arrived : Nat, done : Nat, boot : Nat]

Active(n) == n \in Accepted /\ tasks[n].pc \in Waiting
Completes(n) == n \in Accepted /\ tasks[n].call.type = "complete" /\ tasks[n].pc # "dropped"

Init ==
    /\ DedupInit
    /\ inFlight = {}
    /\ nreq = 0
    /\ tasks = << >>
    /\ boot = 0
    /\ shown = {}
    /\ late = {}

----------------------------------------------------------------------------
(* The order of the steps of a delivery.                                   *)

AfterText(c) == IF c.type = "progress" THEN "end"
                ELSE IF c.atts > 0 THEN "att_get"
                ELSE "react"

TextOrBeyond(c) == IF c.chunks > 0 THEN "text" ELSE AfterText(c)

FirstAwait(c) == IF c.type = "error" THEN "fallback"
                 ELSE IF c.type = "complete" /\ c.voice THEN "voice_get"
                 ELSE TextOrBeyond(c)

(* A delivered voice note suppresses the text.                             *)
AfterVoiceWithText(c, ok) == TextOrBeyond(c)    \* mutant: it does not
AfterVoice(c, ok) == IF ok THEN AfterText(c) ELSE TextOrBeyond(c)

NewTask(c, pc) ==
    [pc |-> pc, call |-> c, tried |-> 0, sent |-> 0, voiceOk |-> FALSE,
     fetched |-> 0, got |-> {}, attOk |-> TRUE, delivered |-> FALSE,
     arrived |-> now, done |-> 0, boot |-> boot]

----------------------------------------------------------------------------
(* The handler of POST /progress-callback.                                 *)

DuplicateIfMarked(k) == Live(k)             \* mutant: no look at in_flight
DuplicateIfRunning(k) == k \in inFlight     \* mutant: no look at the cache
Duplicate(k) == Live(k) \/ k \in inFlight

Accept(c, pc) ==
    /\ nreq < MaxRequests
    /\ nreq' = nreq + 1
    /\ tasks' = [n \in 1 .. nreq' |-> IF n = nreq' THEN NewTask(c, pc) ELSE tasks[n]]
    /\ UNCHANGED <<boot, shown, late>>

(* progress and error: scheduled without looking at any shared state.      *)
FireAndForget(c) ==
    /\ c.type \in {"progress", "error"}
    /\ Accept(c, FirstAwait(c))
    /\ UNCHANGED <<dedupVars, inFlight>>

(* complete: dropped if its key is delivered or being delivered; else its  *)
(* key is reserved before the delivery is scheduled.                       *)
DropDuplicate(c) ==
    /\ c.type = "complete"
    /\ Duplicate(c.key)
    /\ Accept(c, "dropped")
    /\ IsCompleted
    /\ UNCHANGED inFlight

ScheduleComplete(c) ==
    /\ c.type = "complete"
    /\ ~Duplicate(c.key)
    /\ Accept(c, FirstAwait(c))
    /\ IsCompleted
    /\ inFlight' = inFlight \cup {c.key}

Handle(c) == FireAndForget(c) \/ DropDuplicate(c) \/ ScheduleComplete(c)

----------------------------------------------------------------------------
(* Calls to signal-cli (external): acknowledged, refused, or given up on   *)
(* while signal-cli may still be working on them.                          *)

Acknowledged(items) == shown' = shown \cup items /\ UNCHANGED late
GivenUp(items) ==
    /\ \E S \in SUBSET items : late' = late \cup S
    /\ Cardinality(late') <= MaxLate
    /\ UNCHANGED shown
Call(items, ok) == IF ok THEN Acknowledged(items) ELSE GivenUp(items)

(* Task n goes on with the locals t; no other task and no shared state     *)
(* changes.                                                                *)
Continue(n, t) ==
    /\ tasks' = [tasks EXCEPT ![n] = t]
    /\ UNCHANGED <<dedupVars, inFlight, nreq, boot>>

At(n, pc) == n \in Accepted /\ tasks[n].pc = pc

(* Mutant: a delivery that fails or raises keeps its reservation.          *)
ReleaseIfDelivered(k, delivered) ==
    IF delivered THEN MarkCompleted(k) /\ inFlight' = inFlight \ {k}
                 ELSE UNCHANGED <<dedupVars, inFlight>>

(***************************************************************************)
(* _deliver_and_mark after dispatch_callback: a delivery that succeeded is *)
(* marked before its reservation is released, in one synchronous step.     *)
(***************************************************************************)
Release(k, delivered) ==
    /\ IF delivered THEN MarkCompleted(k) ELSE UNCHANGED dedupVars
    /\ inFlight' = inFlight \ {k}

EndTask(n, delivered) ==
    /\ tasks' = [tasks EXCEPT ![n] = [@ EXCEPT !.pc = "end", !.delivered = delivered,
                                              !.done = now]]
    /\ Release(tasks[n].call.key, delivered)
    /\ UNCHANGED <<nreq, boot>>

(* A media step may raise (an unusable url, a full disk): the exception    *)
(* leaves dispatch_callback and the reply is not marked.                   *)
Raise(n) == EndTask(n, FALSE) /\ UNCHANGED <<shown, late>>

(* No workspace or client can be made for the media of n: it raises before *)
(* its first await, the text is not tried either.                          *)
NoWorkspace(n) ==
    /\ n \in Accepted
    /\ LET t == tasks[n]
       IN  /\ t.call.type = "complete" /\ (t.call.voice \/ t.call.atts > 0)
           /\ At(n, FirstAwait(t.call)) /\ t.tried = 0 /\ t.fetched = 0
    /\ Raise(n)

(* The voice url, or failing that the base64, gives a file, or neither     *)
(* does.                                                                   *)
FetchVoice(n) ==
    /\ At(n, "voice_get")
    /\ \/ /\ \E pc \in {"voice_send", TextOrBeyond(tasks[n].call)} :
                Continue(n, [tasks[n] EXCEPT !.pc = pc])
          /\ UNCHANGED <<shown, late>>
       \/ Raise(n)

SendVoice(n) ==
    /\ At(n, "voice_send")
    /\ \E ok \in BOOLEAN :
          /\ Call({Item(n, "voice", 1)}, ok)
          /\ Continue(n, [tasks[n] EXCEPT !.voiceOk = ok,
                                          !.pc = AfterVoice(tasks[n].call, ok)])

(* A chunk that fails does not keep the later ones from being sent.        *)
SendChunk(n) ==
    /\ At(n, "text")
    /\ \E ok \in BOOLEAN :
          LET t == tasks[n]
              i == t.tried + 1
          IN  /\ Call({Item(n, "text", i)}, ok)
              /\ Continue(n, [t EXCEPT
                    !.tried = i,
                    !.sent  = IF ok THEN @ + 1 ELSE @,
                    !.pc    = IF i = t.call.chunks THEN AfterText(t.call) ELSE @])

(* The files that could be downloaded are sent; without any, the send is   *)
(* skipped.                                                                *)
FetchAttachment(n) ==
    /\ At(n, "att_get")
    /\ \/ /\ \E ok \in BOOLEAN :
                LET t   == tasks[n]
                    i   == t.fetched + 1
                    got == IF ok THEN t.got \cup {i} ELSE t.got
                IN  Continue(n, [t EXCEPT
                       !.fetched = i,
                       !.got     = got,
                       !.attOk   = @ /\ ok,
                       !.pc      = IF i < t.call.atts THEN @
                                   ELSE IF got = {} THEN "react" ELSE "att_send"])
          /\ UNCHANGED <<shown, late>>
       \/ Raise(n)

(* The files leave in batches: a failed send may have delivered some.      *)
SendAttachments(n) ==
    LET files == {Item(n, "file", j) : j \in tasks[n].got}
    IN  /\ At(n, "att_send")
        /\ \E ok \in BOOLEAN :
              /\ IF ok THEN Acknowledged(files)
                 ELSE /\ \E S \in SUBSET files, R \in SUBSET files :
                            shown' = shown \cup S /\ late' = late \cup (R \ S)
                      /\ Cardinality(late') <= MaxLate
              /\ Continue(n, [tasks[n] EXCEPT !.attOk = @ /\ ok, !.pc = "react"])

SendFallback(n) ==
    /\ At(n, "fallback")
    /\ \E ok \in BOOLEAN : Call({Item(n, "fallback", 1)}, ok)
    /\ Continue(n, [tasks[n] EXCEPT !.pc = "react"])

(* Whether dispatch_callback calls the reply delivered.                    *)
ReplyOk(t) == \/ t.voiceOk
              \/ t.call.chunks > 0 /\ t.sent = t.call.chunks
              \/ t.call.chunks = 0 /\ ~t.call.voice
DeliveredIgnoringFiles(t) == ReplyOk(t)     \* mutant
Delivered(t) == ReplyOk(t) /\ t.attOk

(* The reaction is cosmetic: its outcome is ignored, and the delivery ends *)
(* in the same step.  What emoji the message then bears is not modelled.   *)
React(n) ==
    /\ At(n, "react")
    /\ UNCHANGED <<shown, late>>
    /\ IF tasks[n].call.type = "complete"
       THEN EndTask(n, Delivered(tasks[n]))
       ELSE Continue(n, [tasks[n] EXCEPT !.pc = "end"])

Step(n) == \/ NoWorkspace(n)
           \/ FetchVoice(n) \/ SendVoice(n) \/ SendChunk(n)
           \/ FetchAttachment(n) \/ SendAttachments(n)
           \/ SendFallback(n) \/ React(n)

----------------------------------------------------------------------------
(* The environment.                                                        *)

(* signal-cli finishes a call the gateway has given up on.                 *)
LateArrival ==
    /\ \E x \in late : shown' = shown \cup {x} /\ late' = late \ {x}
    /\ UNCHANGED <<dedupVars, inFlight, nreq, tasks, boot>>

(* What signal-cli is working on for task n.                               *)
Outstanding(n) ==
    CASE At(n, "voice_send") -> {Item(n, "voice", 1)}
      [] At(n, "text")       -> {Item(n, "text", tasks[n].tried + 1)}
      [] At(n, "att_send")   -> {Item(n, "file", j) : j \in tasks[n].got}
      [] At(n, "fallback")   -> {Item(n, "fallback", 1)}
      [] OTHER               -> {}

(* The process ends and is started again; everything it knew was in        *)
(* memory.                                                                 *)
Restart ==
    /\ boot < MaxRestarts
    /\ boot' = boot + 1
    /\ FreshCache
    /\ inFlight' = {}
    /\ tasks' = [n \in Accepted |->
                    IF Active(n) THEN [tasks[n] EXCEPT !.pc = "lost"] ELSE tasks[n]]
    /\ GivenUp(UNION {Outstanding(n) : n \in Accepted})
    /\ UNCHANGED nreq

Elapse ==
    /\ now < Horizon
    /\ Tick
    /\ UNCHANGED <<inFlight, nreq, tasks, boot, shown, late>>

Next ==
    \/ \E c \in Callbacks : Handle(c)
    \/ \E n \in Accepted : Step(n)
    \/ LateArrival
    \/ Restart
    \/ Elapse

Spec == Init /\ [][Next]_vars

(* A task is run on as soon as what it awaits has ended, and every awaited *)
(* call has a timeout (30 s, 60 s for media): each task keeps going.       *)
Fairness == \A n \in Requests : WF_vars(n \in Accepted /\ Step(n))
FairSpec == Spec /\ Fairness

----------------------------------------------------------------------------
TypeOK ==
    /\ DedupTypeOK
    /\ inFlight \subseteq Keys
    /\ nreq \in 0 .. MaxRequests
    /\ tasks \in [Accepted -> Task]
    /\ boot \in 0 .. MaxRestarts
    /\ shown \subseteq Items
    /\ late \subseteq Items

(***************************************************************************)
(* A reservation stands for a running delivery and for nothing else: it is *)
(* neither leaked by a delivery that fails or raises, which would block    *)
(* the reply for good, nor released early (callback_server.py:55,68).      *)
(***************************************************************************)
InFlightExact ==
    inFlight = {tasks[n].call.key : n \in {m \in Accepted : Completes(m) /\ Active(m)}}

(***************************************************************************)
(* However callbacks and deliveries interleave, two deliveries of the same *)
(* reply are never running together (callback_server.py:142-151).          *)
(***************************************************************************)
OneDeliveryPerKey ==
    \A m, n \in Accepted :
       /\ Completes(m) /\ Active(m)
       /\ Completes(n) /\ Active(n)
       /\ tasks[m].call.key = tasks[n].call.key
       => m = n

(***************************************************************************)
(* The lazy sweep is invisible: no step but the passing of its time to     *)
(* live, and the loss of the process, turns a delivered key back into one  *)
(* that would be delivered again (dedup.py:50-73).                         *)
(***************************************************************************)
OnlyTimeForgets ==
    [][\A k \in Keys :
          Live(k) /\ ~Live(k)' => boot' # boot \/ now' >= entries[k]]_vars

(***************************************************************************)
(* Within one run of the process, a reply that was delivered is not sent   *)
(* again before its time to live has passed, whatever was swept in the     *)
(* meantime (dedup.py:3-6).                                                *)
(***************************************************************************)
OncePerTtl ==
    \A m, n \in Accepted :
       /\ m < n
       /\ Completes(m) /\ Completes(n)
       /\ tasks[m].call.key = tasks[n].call.key
       /\ tasks[m].boot = tasks[n].boot
       /\ tasks[m].delivered
       => tasks[n].arrived >= tasks[m].done + Ttl

(* Everything the callback of task n asked for has reached the user.       *)
WholeReply(n) ==
    LET c == tasks[n].call
    IN  /\ \/ c.voice /\ Item(n, "voice", 1) \in shown
           \/ c.chunks > 0 /\ \A i \in 1 .. c.chunks : Item(n, "text", i) \in shown
           \/ ~c.voice /\ c.chunks = 0
        /\ \A i \in 1 .. c.atts : Item(n, "file", i) \in shown

(***************************************************************************)
(* A key in the cache, which makes the gateway ignore repetitions of the   *)
(* reply, stands for a reply the user has in full (callback_server.py:     *)
(* 10-15): a partial failure is never remembered as a delivery.            *)
(***************************************************************************)
CompletedMeansShown ==
    \A k \in DOMAIN entries :
       \E n \in Accepted : Completes(n) /\ tasks[n].call.key = k /\ WholeReply(n)

(***************************************************************************)
(* Once the voice note is acknowledged the same content is not sent as     *)
(* text as well, neither before nor after (dispatch.py:288-291).  The      *)
(* README of the gateway (389) has media after the text; see README.       *)
(***************************************************************************)
VoiceSuppressesText ==
    \A n \in Accepted : tasks[n].voiceOk =>
       \A x \in shown \cup late : ~(x.by = n /\ x.kind = "text")

(***************************************************************************)
(* Every reservation is released: a delivery ends, however its calls fail. *)
(***************************************************************************)
ReservationReleased == \A k \in Keys : k \in inFlight ~> k \notin inFlight

(* What a key's state means to the worker that repeats a callback.         *)
Status(k) == IF k \in inFlight THEN "delivering"
             ELSE IF Live(k) THEN "done"
             ELSE "open"

Ledger == INSTANCE ReplyLedger WITH status <- [k \in Keys |-> Status(k)]

(***************************************************************************)
(* The reservation set and the cache with its lazy sweep together keep the *)
(* ledger of replies that the module's docstring promises.                 *)
(***************************************************************************)
KeepsLedger == Ledger!Spec

(***************************************************************************)
(* callback_server.py:10 and dedup.py:3-6: what is dropped is a repetition *)
(* of a complete callback that came before it.                             *)
(***************************************************************************)
DroppedOnlyRepeats ==
    \A n \in Accepted : tasks[n].pc = "dropped" =>
       \E m \in Accepted :
          m < n /\ Completes(m) /\ tasks[m].call.key = tasks[n].call.key
                /\ tasks[m].call.user = tasks[n].call.user

(***************************************************************************)
(* dispatch.py:288-290: a voice reply whose delivery failed has its text   *)
(* sent, or at least attempted, before the delivery ends.                  *)
(***************************************************************************)
VoiceFailureFallsBackToText ==
    \A n \in Accepted :
       LET t == tasks[n]
       IN  t.pc = "end" /\ t.call.type = "complete" /\ t.call.voice /\ ~t.voiceOk
              => t.tried = t.call.chunks
=============================================================================
