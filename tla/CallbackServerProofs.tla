------------------------ MODULE CallbackServerProofs ------------------------
(***************************************************************************)
(* Proofs about the reply path, for any keys, callbacks and bounds.  The   *)
(* inductive invariant says how far a task can be (Placed), that a later   *)
(* delivery of a key was scheduled after the earlier one had ended         *)
(* (Serial), and that the cache still knows every delivery of this run of  *)
(* the process whose time to live has not passed (Remembered).             *)
(***************************************************************************)
EXTENDS CallbackServer, TLAPS

Fits(t) ==
    /\ t.pc \in {"voice_get", "voice_send", "att_get", "att_send"}
          => t.call.type = "complete"
    /\ t.pc = "text" => t.call.type # "error"
    /\ t.delivered => t.pc = "end" /\ t.call.type = "complete" /\ t.done <= now
    /\ t.boot <= boot
    /\ t.pc \in Waiting => t.boot = boot

Placed == \A n \in Accepted : Fits(tasks[n])

(* A reserved key is the key of a running delivery, and the other way      *)
(* round, without the set comprehension.                                   *)
Reserved ==
    /\ \A n \in Accepted : Completes(n) /\ Active(n) => tasks[n].call.key \in inFlight
    /\ \A k \in inFlight :
          \E n \in Accepted : Completes(n) /\ Active(n) /\ tasks[n].call.key = k

Serial ==
    \A m, n \in Accepted :
       /\ m < n
       /\ Completes(m) /\ Completes(n)
       /\ tasks[m].call.key = tasks[n].call.key
       /\ tasks[m].boot = tasks[n].boot
       => ~Active(m)

Remembered ==
    \A n \in Accepted :
       /\ tasks[n].delivered
       /\ tasks[n].boot = boot
       /\ now < tasks[n].done + Ttl
       => /\ tasks[n].call.key \in DOMAIN entries
          /\ entries[tasks[n].call.key] >= tasks[n].done + Ttl

(* A key being delivered is not a completed one.                           *)
Exclusive == \A k \in inFlight : ~Live(k)

IInv == TypeOK /\ Placed /\ Reserved /\ Serial /\ Remembered /\ Exclusive /\ OncePerTtl

----------------------------------------------------------------------------
(* What the cache's operations do, each read as a whole.                   *)

(* The lazy sweep changes what is stored, not what is completed.           *)
LEMMA SweepKeepsLive ==
    ASSUME DedupTypeOK
    PROVE  /\ DOMAIN Swept \subseteq DOMAIN entries
           /\ Swept \in [DOMAIN Swept -> Nat]
           /\ \A k \in DOMAIN Swept : Swept[k] = entries[k]
           /\ \A k \in DOMAIN entries : entries[k] > now => k \in DOMAIN Swept
           /\ SweepDue => \A k \in DOMAIN Swept : Swept[k] > now
  BY DEF DedupTypeOK, Swept

(* A look at the cache changes no key between completed and not, and       *)
(* leaves a swept cache.                                                   *)
LEMMA IsCompletedEffect ==
    ASSUME DedupTypeOK, DedupAssumption, IsCompleted
    PROVE  /\ DedupTypeOK'
           /\ now' = now
           /\ \A k : Live(k)' <=> Live(k)
           /\ \A k \in DOMAIN entries :
                 entries[k] > now => k \in DOMAIN entries' /\ entries'[k] = entries[k]
           /\ SweptClean => SweptClean'
  <1>1. now' = now /\ entries' = Swept /\ lastSweep' = IF SweepDue THEN now ELSE lastSweep
    BY DEF IsCompleted, SweepClock
  <1>2. DedupTypeOK'
    BY <1>1, SweepKeepsLive DEF DedupTypeOK
  <1>3. \A k : Live(k)' <=> Live(k)
    BY <1>1, SweepKeepsLive DEF Live
  <1>4. SweptClean => SweptClean'
    BY <1>1, SweepKeepsLive DEF SweptClean, DedupTypeOK
  <1>5. QED
    BY <1>1, <1>2, <1>3, <1>4, SweepKeepsLive

(* A mark completes its key for Ttl ticks, and no other key changes.       *)
LEMMA MarkCompletedEffect ==
    ASSUME DedupTypeOK, DedupAssumption, NEW k \in Keys, MarkCompleted(k)
    PROVE  /\ DedupTypeOK'
           /\ now' = now
           /\ k \in DOMAIN entries' /\ entries'[k] = now + Ttl
           /\ \A j : j # k => (Live(j)' <=> Live(j))
           /\ \A j \in DOMAIN entries : j # k /\ entries[j] > now
                 => j \in DOMAIN entries' /\ entries'[j] = entries[j]
           /\ SweptClean => SweptClean'
  <1>1. /\ now' = now
        /\ entries' = [j \in DOMAIN Swept \cup {k} |->
                          IF j = k THEN now + Ttl ELSE Swept[j]]
        /\ lastSweep' = IF SweepDue THEN now ELSE lastSweep
    BY DEF MarkCompleted, SweepClock
  <1>2. now + Ttl \in Nat /\ now + Ttl > now
    BY DEF DedupTypeOK, DedupAssumption
  <1>3. DedupTypeOK'
    BY <1>1, <1>2, SweepKeepsLive DEF DedupTypeOK
  <1>4. \A j : j # k => (Live(j)' <=> Live(j))
    BY <1>1, SweepKeepsLive DEF Live
  <1>5. SweptClean => SweptClean'
    BY <1>1, <1>2, SweepKeepsLive DEF SweptClean, DedupTypeOK
  <1>6. QED
    BY <1>1, <1>3, <1>4, <1>5, SweepKeepsLive

(* A restarted process has nothing completed.                              *)
LEMMA FreshCacheEffect ==
    ASSUME DedupTypeOK, FreshCache
    PROVE  /\ DedupTypeOK' /\ now' = now /\ SweptClean'
           /\ \A k : ~Live(k)'
  BY DEF DedupTypeOK, FreshCache, SweptClean, Live

(* A tick can only end a completion, and only one whose time is up.        *)
LEMMA TickEffect ==
    ASSUME DedupTypeOK, Tick
    PROVE  /\ DedupTypeOK' /\ now' = now + 1 /\ entries' = entries
           /\ SweptClean => SweptClean'
           /\ \A k : Live(k)' => Live(k)
  BY DEF DedupTypeOK, Tick, SweptClean, Live

----------------------------------------------------------------------------
(* What a step of a delivery does to the shared state.                     *)

(* Task n becomes t and is not at its end, or has nothing to release.      *)
GoesOn(n, t) ==
    /\ t.pc \in Waiting \/ t.call.type # "complete"
    /\ ~t.delivered
    /\ UNCHANGED <<dedupVars, inFlight>>

(* Task n becomes t, the end of a complete delivery.                       *)
Ends(n, t) ==
    /\ t.pc = "end" /\ t.call.type = "complete"
    /\ inFlight' = inFlight \ {t.call.key}
    /\ IF t.delivered THEN MarkCompleted(t.call.key) /\ t.done = now
                      ELSE UNCHANGED dedupVars

Becomes(n, t) ==
    /\ tasks[n].pc \in Waiting
    /\ t \in Task /\ Fits(t) /\ t.pc # "dropped"
    /\ t.call = tasks[n].call /\ t.boot = tasks[n].boot /\ t.arrived = tasks[n].arrived
    /\ tasks' = [tasks EXCEPT ![n] = t]
    /\ nreq' = nreq /\ boot' = boot

(* A call to signal-cli changes nothing but what is shown and late.        *)
LEMMA CallEffect ==
    ASSUME shown \subseteq Items, late \subseteq Items,
           NEW items \in SUBSET Items, NEW ok, Call(items, ok)
    PROVE  shown' \subseteq Items /\ late' \subseteq Items
  BY DEF Call, Acknowledged, GivenUp

(* A delivery starts at one of its awaits or, for an empty progress, at    *)
(* its end.                                                                *)
LEMMA NextAwaitType ==
    ASSUME NEW c \in Callback
    PROVE  /\ TextOrBeyond(c) \in PC /\ AfterText(c) \in PC
           /\ AfterText(c) = "end" => c.type = "progress"
           /\ AfterText(c) \in {"end", "att_get", "react"}
           /\ TextOrBeyond(c) \in {"text", AfterText(c)}
           /\ FirstAwait(c) \in {"fallback", "voice_get", "text", AfterText(c)}
           /\ FirstAwait(c) = "fallback" <=> c.type = "error"
           /\ FirstAwait(c) = "voice_get" => c.type = "complete"
           /\ c.type = "complete" => AfterText(c) \in {"att_get", "react"}
  BY DEF Callback, TextOrBeyond, AfterText, FirstAwait, PC, Waiting

(* A task that goes on changes its own locals alone.                       *)
LEMMA ContinueEffect ==
    ASSUME TypeOK, NEW n \in Accepted, tasks[n].pc \in Waiting, NEW t \in Task,
           Fits(t), t.pc # "dropped", ~t.delivered,
           t.call = tasks[n].call, t.boot = tasks[n].boot, t.arrived = tasks[n].arrived,
           t.pc \in Waiting \/ t.call.type # "complete",
           Continue(n, t)
    PROVE  Becomes(n, t) /\ GoesOn(n, t)
  BY DEF Continue, Becomes, GoesOn, dedupVars

(* The end of a delivery: its mark, its release and its end are one step.  *)
LEMMA EndTaskEffect ==
    ASSUME TypeOK, Placed, NEW n \in Accepted, tasks[n].pc \in Waiting,
           tasks[n].call.type = "complete", NEW d \in BOOLEAN, EndTask(n, d)
    PROVE  \E t \in Task : Becomes(n, t) /\ Ends(n, t)
  <1> DEFINE t == [tasks[n] EXCEPT !.pc = "end", !.delivered = d, !.done = now]
  <1>1. tasks[n] \in Task /\ now \in Nat
    BY DEF TypeOK, DedupTypeOK
  <1>2. t \in Task
    BY <1>1 DEF Task, PC
  <1>3. Fits(t) /\ t.pc # "dropped"
    BY <1>1 DEF Fits, Placed, Task, Waiting
  <1>4. /\ tasks' = [tasks EXCEPT ![n] = t]
        /\ Release(tasks[n].call.key, d)
        /\ nreq' = nreq /\ boot' = boot
    BY DEF EndTask
  <1>5. /\ t.pc = "end" /\ t.delivered = d /\ t.done = now /\ t.call = tasks[n].call
        /\ t.boot = tasks[n].boot /\ t.arrived = tasks[n].arrived
    BY <1>1 DEF Task
  <1>6. Becomes(n, t)
    BY <1>2, <1>3, <1>4, <1>5 DEF Becomes
  <1>7. Ends(n, t)
    BY <1>4, <1>5 DEF Ends, Release
  <1>8. QED
    BY <1>2, <1>6, <1>7

(* A step of a delivery either goes on or ends it, and nothing else.       *)
LEMMA StepEffect ==
    ASSUME CallbackAssumption, TypeOK, Placed, NEW n \in Accepted, Step(n)
    PROVE  /\ shown' \subseteq Items /\ late' \subseteq Items
           /\ \E t \in Task : Becomes(n, t) /\ (GoesOn(n, t) \/ Ends(n, t))
  <1> DEFINE t0 == tasks[n]
             c  == t0.call
             Effect == \E t \in Task : Becomes(n, t) /\ (GoesOn(n, t) \/ Ends(n, t))
             Shows == shown' \subseteq Items /\ late' \subseteq Items
  <1>1. /\ t0 \in Task /\ Fits(t0) /\ c \in Callback
        /\ shown \subseteq Items /\ late \subseteq Items /\ n \in Requests
        /\ t0.delivered => t0.pc = "end"
    <2>1. t0 \in Task /\ Fits(t0) /\ shown \subseteq Items /\ late \subseteq Items
      BY DEF TypeOK, Placed
    <2>2. c \in Callback
      BY <2>1 DEF Task, CallbackAssumption
    <2>3. n \in Requests
      BY DEF TypeOK, CallbackAssumption, Accepted, Requests
    <2>4. QED
      BY <2>1, <2>2, <2>3 DEF Fits
  <1>2. ASSUME Raise(n), t0.pc \in Waiting, c.type = "complete"
        PROVE  Effect /\ Shows
    BY <1>1, <1>2, EndTaskEffect DEF Raise
  <1>3. CASE FetchVoice(n)
    <2>1. t0.pc = "voice_get"
      BY <1>3 DEF FetchVoice, At
    <2>2. ASSUME NEW pc \in {"voice_send", TextOrBeyond(c)},
                 Continue(n, [t0 EXCEPT !.pc = pc]), UNCHANGED <<shown, late>>
          PROVE  Effect /\ Shows
      <3> DEFINE t == [t0 EXCEPT !.pc = pc]
      <3>1. c.type = "complete"
        BY <1>1, <2>1 DEF Fits
      <3>2. pc \in {"voice_send", "text", "att_get", "react"}
        BY <1>1, <3>1, NextAwaitType DEF TextOrBeyond
      <3>3. t \in Task /\ Fits(t)
        BY <1>1, <2>1, <3>1, <3>2 DEF Task, PC, Fits, Waiting
      <3>4. /\ t.pc = pc /\ t.call = c /\ t.boot = t0.boot /\ t.arrived = t0.arrived
            /\ t.delivered = t0.delivered
        BY <1>1 DEF Task
      <3>5. Becomes(n, t) /\ GoesOn(n, t)
        BY <1>1, <2>1, <2>2, <3>2, <3>3, <3>4, ContinueEffect DEF Waiting
      <3>6. QED
        BY <1>1, <2>2, <3>3, <3>5
    <2>3. CASE Raise(n)
      BY <1>1, <1>2, <2>1, <2>3 DEF Fits, Waiting
    <2>4. QED
      BY <1>3, <2>2, <2>3 DEF FetchVoice
  <1>4. CASE SendVoice(n)
    <2>1. t0.pc = "voice_send"
      BY <1>4 DEF SendVoice, At
    <2>2. PICK ok \in BOOLEAN :
             /\ Call({Item(n, "voice", 1)}, ok)
             /\ Continue(n, [t0 EXCEPT !.voiceOk = ok, !.pc = AfterVoice(c, ok)])
      BY <1>4 DEF SendVoice
    <2> DEFINE t == [t0 EXCEPT !.voiceOk = ok, !.pc = AfterVoice(c, ok)]
    <2>3. c.type = "complete"
      BY <1>1, <2>1 DEF Fits
    <2>4. AfterVoice(c, ok) \in {"text", "att_get", "react"}
      BY <1>1, <2>3, NextAwaitType DEF AfterVoice, TextOrBeyond
    <2>5. t \in Task /\ Fits(t)
      BY <1>1, <2>1, <2>3, <2>4 DEF Task, PC, Fits, Waiting
    <2>6. /\ t.pc = AfterVoice(c, ok) /\ t.call = c /\ t.boot = t0.boot
          /\ t.arrived = t0.arrived /\ t.delivered = t0.delivered
      BY <1>1 DEF Task
    <2>7. Becomes(n, t) /\ GoesOn(n, t)
      BY <1>1, <2>1, <2>2, <2>4, <2>5, <2>6, ContinueEffect DEF Waiting
    <2>8. {Item(n, "voice", 1)} \in SUBSET Items
      BY <1>1 DEF Item, Items, Kinds
    <2>9. Shows
      BY <1>1, <2>2, <2>8, CallEffect
    <2>10. QED
      BY <2>5, <2>7, <2>9
  <1>5. CASE SendChunk(n)
    <2> DEFINE i == t0.tried + 1
    <2>1. t0.pc = "text"
      BY <1>5 DEF SendChunk, At
    <2>2. PICK ok \in BOOLEAN :
             /\ Call({Item(n, "text", i)}, ok)
             /\ Continue(n, [t0 EXCEPT
                   !.tried = i,
                   !.sent  = IF ok THEN @ + 1 ELSE @,
                   !.pc    = IF i = c.chunks THEN AfterText(c) ELSE @])
      BY <1>5 DEF SendChunk
    <2> DEFINE t == [t0 EXCEPT
                       !.tried = i,
                       !.sent  = IF ok THEN @ + 1 ELSE @,
                       !.pc    = IF i = c.chunks THEN AfterText(c) ELSE @]
    <2>3. c.type \in {"progress", "complete"} /\ i \in Nat
      BY <1>1, <2>1 DEF Fits, Callback, Task
    <2>4. /\ t.pc \in {"text", "att_get", "react", "end"}
          /\ t.pc = "end" => c.type = "progress"
          /\ t.pc = "att_get" => c.type = "complete"
      BY <1>1, <2>1, <2>3, NextAwaitType DEF AfterText, Task
    <2>5. /\ t.call = c /\ t.boot = t0.boot
          /\ t.arrived = t0.arrived /\ t.delivered = t0.delivered
      BY <1>1 DEF Task
    <2>6. t \in Task
      <3>1. (IF i = c.chunks THEN AfterText(c) ELSE t0.pc) \in PC
        BY <1>1, <2>1, NextAwaitType DEF Task
      <3>2. (IF ok THEN t0.sent + 1 ELSE t0.sent) \in Nat
        BY <1>1 DEF Task
      <3>3. QED
        BY <1>1, <2>3, <3>1, <3>2 DEF Task
    <2>7. Fits(t)
      BY <1>1, <2>1, <2>3, <2>4, <2>5 DEF Fits, Waiting
    <2>8. Becomes(n, t) /\ GoesOn(n, t)
      BY <1>1, <2>1, <2>2, <2>3, <2>4, <2>5, <2>6, <2>7, ContinueEffect DEF Waiting
    <2>9. {Item(n, "text", i)} \in SUBSET Items
      BY <1>1, <2>3 DEF Item, Items, Kinds
    <2>10. Shows
      BY <1>1, <2>2, <2>9, CallEffect
    <2>11. QED
      BY <2>6, <2>8, <2>10
  <1>6. CASE FetchAttachment(n)
    <2> DEFINE i == t0.fetched + 1
               got(ok) == IF ok THEN t0.got \cup {i} ELSE t0.got
               next(ok) == IF i < c.atts THEN t0.pc
                           ELSE IF got(ok) = {} THEN "react" ELSE "att_send"
               t(ok) == [t0 EXCEPT !.fetched = i, !.got = got(ok),
                                   !.attOk = t0.attOk /\ ok, !.pc = next(ok)]
    <2>1. t0.pc = "att_get" /\ c.type = "complete" /\ i \in Nat
      <3>1. t0.pc = "att_get"
        BY <1>6 DEF FetchAttachment, At
      <3>2. QED
        BY <1>1, <3>1 DEF Fits, Task
    <2>2. ASSUME NEW ok \in BOOLEAN, Continue(n, t(ok)), UNCHANGED <<shown, late>>
          PROVE  Effect /\ Shows
      <3>1. got(ok) \in SUBSET Nat /\ next(ok) \in {"att_get", "react", "att_send"}
        BY <1>1, <2>1 DEF Task
      <3>2. (t0.attOk /\ ok) \in BOOLEAN
        OBVIOUS
      <3>3. t(ok) \in Task
        BY <1>1, <2>1, <3>1, <3>2 DEF Task, PC, Waiting
      <3>4. /\ t(ok).pc = next(ok) /\ t(ok).call = c /\ t(ok).boot = t0.boot
            /\ t(ok).arrived = t0.arrived /\ t(ok).delivered = t0.delivered
        BY <1>1 DEF Task
      <3>5. Fits(t(ok)) /\ ~t(ok).delivered /\ t(ok).pc \in Waiting /\ t(ok).pc # "dropped"
        BY <1>1, <2>1, <3>1, <3>4 DEF Fits, Waiting
      <3>6. Becomes(n, t(ok)) /\ GoesOn(n, t(ok))
        BY <1>1, <2>1, <2>2, <3>3, <3>4, <3>5, ContinueEffect DEF Waiting
      <3>7. QED
        BY <1>1, <2>2, <3>3, <3>6
    <2>3. CASE Raise(n)
      BY <1>2, <2>1, <2>3 DEF Waiting
    <2>4. QED
      BY <1>6, <2>2, <2>3 DEF FetchAttachment
  <1>7. CASE SendAttachments(n)
    <2> DEFINE files == {Item(n, "file", j) : j \in t0.got}
    <2>1. t0.pc = "att_send" /\ c.type = "complete"
      BY <1>1, <1>7 DEF SendAttachments, At, Fits
    <2>2. files \subseteq Items
      BY <1>1 DEF Item, Items, Kinds, Task
    <2>3. PICK ok \in BOOLEAN :
             /\ IF ok THEN Acknowledged(files)
                ELSE /\ \E S \in SUBSET files, R \in SUBSET files :
                           shown' = shown \cup S /\ late' = late \cup (R \ S)
                     /\ Cardinality(late') <= MaxLate
             /\ Continue(n, [t0 EXCEPT !.attOk = @ /\ ok, !.pc = "react"])
      BY <1>7 DEF SendAttachments
    <2> DEFINE t == [t0 EXCEPT !.attOk = @ /\ ok, !.pc = "react"]
    <2>4. Shows
      BY <1>1, <2>2, <2>3 DEF Acknowledged
    <2>5. (t0.attOk /\ ok) \in BOOLEAN
      OBVIOUS
    <2>6. t \in Task
      BY <1>1, <2>5 DEF Task, PC, Waiting
    <2>7. /\ t.pc = "react" /\ t.call = c /\ t.boot = t0.boot
          /\ t.arrived = t0.arrived /\ t.delivered = t0.delivered
      BY <1>1 DEF Task
    <2>8. Becomes(n, t) /\ GoesOn(n, t)
      BY <1>1, <2>1, <2>3, <2>6, <2>7, ContinueEffect DEF Fits, Waiting
    <2>9. QED
      BY <2>4, <2>6, <2>8
  <1>8. CASE SendFallback(n)
    <2> DEFINE t == [t0 EXCEPT !.pc = "react"]
    <2>1. /\ t0.pc = "fallback"
          /\ \E ok \in BOOLEAN : Call({Item(n, "fallback", 1)}, ok)
          /\ Continue(n, t)
      BY <1>8 DEF SendFallback, At
    <2>2. {Item(n, "fallback", 1)} \in SUBSET Items
      BY <1>1 DEF Item, Items, Kinds
    <2>3. Shows
      BY <1>1, <2>1, <2>2, CallEffect
    <2>4. t \in Task
      BY <1>1 DEF Task, PC, Waiting
    <2>5. /\ t.pc = "react" /\ t.call = c /\ t.boot = t0.boot
          /\ t.arrived = t0.arrived /\ t.delivered = t0.delivered
      BY <1>1 DEF Task
    <2>6. Becomes(n, t) /\ GoesOn(n, t)
      BY <1>1, <2>1, <2>4, <2>5, ContinueEffect DEF Fits, Waiting
    <2>7. QED
      BY <2>3, <2>4, <2>6
  <1>9. CASE React(n)
    <2>1. t0.pc = "react" /\ Shows
      BY <1>1, <1>9 DEF React, At
    <2>2. CASE c.type = "complete"
      <3>1. EndTask(n, Delivered(t0))
        BY <1>9, <2>2 DEF React
      <3>2. Delivered(t0) \in BOOLEAN
        BY DEF Delivered, ReplyOk
      <3>3. QED
        BY <2>1, <2>2, <3>1, <3>2, EndTaskEffect DEF Waiting
    <2>3. CASE c.type # "complete"
      <3> DEFINE t == [t0 EXCEPT !.pc = "end"]
      <3>1. Continue(n, t)
        BY <1>9, <2>3 DEF React
      <3>2. t \in Task
        BY <1>1 DEF Task, PC
      <3>3. /\ t.pc = "end" /\ t.call = c /\ t.boot = t0.boot
            /\ t.arrived = t0.arrived /\ t.delivered = t0.delivered
        BY <1>1 DEF Task
      <3>4. Becomes(n, t) /\ GoesOn(n, t)
        BY <1>1, <2>1, <2>3, <3>1, <3>2, <3>3, ContinueEffect DEF Fits, Waiting
      <3>5. QED
        BY <2>1, <3>2, <3>4
    <2>4. QED
      BY <2>2, <2>3
  <1>10. CASE NoWorkspace(n)
    <2>1. Raise(n) /\ c.type = "complete" /\ t0.pc = FirstAwait(c)
          /\ (c.voice \/ c.atts > 0)
      BY <1>10 DEF NoWorkspace, At
    <2>2. t0.pc \in {"voice_get", "text", "att_get"}
      BY <1>1, <2>1 DEF FirstAwait, TextOrBeyond, AfterText, Callback
    <2>3. QED
      BY <1>2, <2>1, <2>2 DEF Waiting
  <1>11. QED
    BY <1>3, <1>4, <1>5, <1>6, <1>7, <1>8, <1>9, <1>10 DEF Step

(* What the handler does: task t is new, and for a complete callback the   *)
(* key is reserved unless it is dropped.                                   *)
Admits(c, t) ==
    /\ nreq' = nreq + 1 /\ nreq' \in 1 .. MaxRequests
    /\ t \in Task /\ Fits(t) /\ ~t.delivered
    /\ t.call = c /\ t.boot = boot /\ t.arrived = now
    /\ tasks' = [n \in 1 .. nreq' |-> IF n = nreq' THEN t ELSE tasks[n]]
    /\ boot' = boot /\ shown' = shown /\ late' = late

Fires(c, t) ==
    c.type # "complete" /\ t.pc # "dropped" /\ UNCHANGED <<dedupVars, inFlight>>

Drops(c, t) ==
    c.type = "complete" /\ t.pc = "dropped" /\ IsCompleted /\ UNCHANGED inFlight

Schedules(c, t) ==
    /\ c.type = "complete" /\ t.pc \in Waiting /\ ~Live(c.key) /\ c.key \notin inFlight
    /\ IsCompleted /\ inFlight' = inFlight \cup {c.key}

(* A request adds one task, and reserves its key or drops it.              *)
LEMMA HandleEffect ==
    ASSUME CallbackAssumption, TypeOK, NEW c \in Callbacks, Handle(c)
    PROVE  \E t \in Task :
              Admits(c, t) /\ (Fires(c, t) \/ Drops(c, t) \/ Schedules(c, t))
  <1>1. c \in Callback /\ nreq \in 0 .. MaxRequests /\ boot \in Nat /\ now \in Nat
    BY DEF CallbackAssumption, TypeOK, DedupTypeOK
  <1>2. ASSUME NEW pc \in PC, Accept(c, pc),
               pc \in {"voice_get", "voice_send", "att_get", "att_send"}
                  => c.type = "complete",
               pc = "text" => c.type # "error"
        PROVE  Admits(c, NewTask(c, pc)) /\ NewTask(c, pc).pc = pc
    <2> DEFINE t == NewTask(c, pc)
    <2>1. t \in Task
      BY <1>1 DEF NewTask, Task
    <2>2. /\ t.pc = pc /\ t.call = c /\ ~t.delivered /\ t.boot = boot /\ t.arrived = now
      BY DEF NewTask
    <2>3. Fits(t)
      BY <1>1, <1>2, <2>2 DEF Fits
    <2>4. nreq' = nreq + 1 /\ nreq' \in 1 .. MaxRequests
      BY <1>1, <1>2 DEF Accept, CallbackAssumption
    <2>5. QED
      BY <1>2, <2>1, <2>2, <2>3, <2>4 DEF Admits, Accept
  <1>3. /\ FirstAwait(c) \in PC /\ FirstAwait(c) # "dropped"
        /\ FirstAwait(c) \in {"voice_get", "voice_send", "att_get", "att_send"}
              => c.type = "complete"
        /\ FirstAwait(c) = "text" => c.type # "error"
        /\ c.type = "complete" => FirstAwait(c) \in Waiting
    BY <1>1 DEF FirstAwait, TextOrBeyond, AfterText, PC, Waiting, Callback
  <1>4. CASE FireAndForget(c)
    BY <1>2, <1>3, <1>4 DEF FireAndForget, Fires, Admits
  <1>5. CASE DropDuplicate(c)
    BY <1>2, <1>5 DEF DropDuplicate, Drops, Admits, PC
  <1>6. CASE ScheduleComplete(c)
    BY <1>2, <1>3, <1>6 DEF ScheduleComplete, Schedules, Admits, Duplicate
  <1>7. QED
    BY <1>4, <1>5, <1>6 DEF Handle

----------------------------------------------------------------------------
(* The invariant, one lemma for each kind of step.                         *)

(* Of two deliveries of a key the earlier has ended.                       *)
LEMMA OneAtATime ==
    ASSUME Placed, Serial, nreq \in Nat
    PROVE  OneDeliveryPerKey
  <1> SUFFICES ASSUME NEW m \in Accepted, NEW n \in Accepted,
                      Completes(m), Active(m), Completes(n), Active(n),
                      tasks[m].call.key = tasks[n].call.key, m # n
               PROVE  FALSE
    BY DEF OneDeliveryPerKey
  <1>1. tasks[m].boot = boot /\ tasks[n].boot = boot
    BY DEF Placed, Fits, Active
  <1>2. m < n \/ n < m
    BY DEF Accepted
  <1>3. QED
    BY <1>1, <1>2 DEF Serial

(* Accepting a callback preserves the invariant.                           *)
LEMMA HandlePreserves ==
    ASSUME CallbackAssumption, DedupAssumption, IInv, NEW c \in Callbacks, Handle(c)
    PROVE  IInv'
  <1>1. PICK t \in Task :
           Admits(c, t) /\ (Fires(c, t) \/ Drops(c, t) \/ Schedules(c, t))
    BY HandleEffect DEF IInv
  <1> DEFINE N == nreq + 1
  <1>2. /\ nreq \in Nat /\ nreq' = N /\ N \in Accepted'
        /\ Accepted' = Accepted \cup {N} /\ N \notin Accepted
        /\ N \in Nat /\ \A n \in Accepted : n \in Nat /\ n < N
    BY <1>1 DEF Admits, IInv, TypeOK, Accepted, CallbackAssumption
  <1>3. /\ tasks'[N] = t
        /\ \A n \in Accepted : tasks'[n] = tasks[n]
        /\ boot' = boot
    BY <1>1, <1>2 DEF Admits, Accepted
  <1>4. c.key \in Keys
    BY DEF CallbackAssumption, Callback
  <1>5. /\ DedupTypeOK' /\ now' = now
        /\ \A k : Live(k)' <=> Live(k)
        /\ \A k \in DOMAIN entries :
              entries[k] > now => k \in DOMAIN entries' /\ entries'[k] = entries[k]
    BY <1>1, IsCompletedEffect
       DEF Fires, Drops, Schedules, dedupVars, IInv, TypeOK, DedupTypeOK, Live
  <1>6. TypeOK'
    <2>1. inFlight' \subseteq Keys
      BY <1>1, <1>4 DEF Fires, Drops, Schedules, IInv, TypeOK
    <2>2. tasks' \in [Accepted' -> Task]
      BY <1>1, <1>2 DEF Admits, IInv, TypeOK, Accepted
    <2>3. QED
      BY <1>1, <1>5, <2>1, <2>2 DEF Admits, IInv, TypeOK, CallbackAssumption
  <1>7. Placed'
    BY <1>1, <1>2, <1>3, <1>5 DEF Admits, IInv, Placed, Fits
  <1>8. t.call = c /\ t.boot = boot /\ t.arrived = now /\ ~t.delivered
    BY <1>1 DEF Admits
  <1>9. Reserved'
    <2>1. ASSUME NEW n \in Accepted', Completes(n)', Active(n)'
          PROVE  tasks'[n].call.key \in inFlight'
      <3>1. CASE n = N
        BY <1>1, <1>3, <1>8, <2>1, <3>1 DEF Fires, Drops, Schedules, Completes, Active, Waiting
      <3>2. CASE n \in Accepted
        <4>1. tasks[n].call.key \in inFlight
          BY <1>3, <2>1, <3>2 DEF IInv, Reserved, Completes, Active
        <4>2. QED
          BY <1>1, <1>3, <3>2, <4>1 DEF Fires, Drops, Schedules
      <3>3. QED
        BY <1>2, <3>1, <3>2
    <2>2. ASSUME NEW k \in inFlight'
          PROVE  \E n \in Accepted' :
                    Completes(n)' /\ Active(n)' /\ tasks'[n].call.key = k
      <3>1. CASE k \in inFlight
        <4>1. PICK n \in Accepted : Completes(n) /\ Active(n) /\ tasks[n].call.key = k
          BY <3>1 DEF IInv, Reserved
        <4>2. n \in Accepted' /\ tasks'[n] = tasks[n]
          BY <1>2, <1>3
        <4>3. QED
          BY <4>1, <4>2 DEF Completes, Active
      <3>2. CASE k \notin inFlight
        <4>1. Schedules(c, t) /\ k = c.key
          BY <1>1, <2>2, <3>2 DEF Fires, Drops, Schedules
        <4>2. PICK n \in Accepted' : n = N
          BY <1>2
        <4>3. tasks'[n] = t /\ t.pc # "dropped"
          BY <1>3, <4>1, <4>2 DEF Schedules, Waiting
        <4>4. Completes(n)' /\ Active(n)' /\ tasks'[n].call.key = k
          BY <1>8, <4>1, <4>3 DEF Schedules, Completes, Active
        <4>5. QED
          BY <4>4
      <3>3. QED
        BY <3>1, <3>2
    <2>3. QED
      BY <2>1, <2>2 DEF Reserved
  <1>10. ASSUME NEW m \in Accepted, Completes(m), tasks[m].call.key = c.key,
                c.type = "complete", t.pc # "dropped"
         PROVE  ~Active(m) /\ ~Live(c.key)
    <2>1. Schedules(c, t)
      BY <1>1, <1>10 DEF Fires, Drops
    <2>2. QED
      BY <1>10, <2>1 DEF Schedules, IInv, Reserved
  <1>11. Serial'
    <2> SUFFICES ASSUME NEW m \in Accepted', NEW n \in Accepted', m < n,
                        Completes(m)', Completes(n)',
                        tasks'[m].call.key = tasks'[n].call.key,
                        tasks'[m].boot = tasks'[n].boot
                 PROVE  ~Active(m)'
      BY DEF Serial
    <2>1. m \in Accepted
      BY <1>2
    <2>2. tasks'[m] = tasks[m] /\ Completes(m)
      BY <1>3, <2>1 DEF Completes
    <2>3. ~Active(m)
      <3>1. CASE n = N
        <4>1. tasks'[n] = t /\ c.type = "complete" /\ t.pc # "dropped"
          BY <1>3, <1>8, <3>1 DEF Completes
        <4>2. QED
          BY <1>8, <1>10, <2>1, <2>2, <4>1
      <3>2. CASE n \in Accepted
        BY <1>3, <2>1, <2>2, <3>2 DEF IInv, Serial, Completes
      <3>3. QED
        BY <1>2, <3>1, <3>2
    <2>4. QED
      BY <2>1, <2>2, <2>3 DEF Active
  <1>12. Remembered'
    <2> SUFFICES ASSUME NEW n \in Accepted', tasks'[n].delivered, tasks'[n].boot = boot',
                        now' < tasks'[n].done + Ttl
                 PROVE  /\ tasks'[n].call.key \in DOMAIN entries'
                        /\ entries'[tasks'[n].call.key] >= tasks'[n].done + Ttl
      BY DEF Remembered
    <2>1. n \in Accepted /\ tasks'[n] = tasks[n]
      BY <1>2, <1>3, <1>8
    <2> DEFINE k == tasks[n].call.key
    <2>2. k \in DOMAIN entries /\ entries[k] >= tasks[n].done + Ttl
      BY <1>3, <1>5, <2>1 DEF IInv, Remembered
    <2>3. entries[k] \in Nat /\ now \in Nat /\ tasks[n].done + Ttl \in Nat
      BY <2>1, <2>2 DEF IInv, TypeOK, DedupTypeOK, DedupAssumption, Task
    <2>4. entries[k] > now
      BY <1>5, <2>1, <2>2, <2>3
    <2>5. QED
      BY <1>5, <2>1, <2>2, <2>4
  <1>13. Exclusive'
    BY <1>1, <1>5 DEF Fires, Drops, Schedules, IInv, Exclusive
  <1>14. OncePerTtl'
    <2> SUFFICES ASSUME NEW m \in Accepted', NEW n \in Accepted', m < n,
                        Completes(m)', Completes(n)',
                        tasks'[m].call.key = tasks'[n].call.key,
                        tasks'[m].boot = tasks'[n].boot,
                        tasks'[m].delivered
                 PROVE  tasks'[n].arrived >= tasks'[m].done + Ttl
      BY DEF OncePerTtl
    <2>1. m \in Accepted /\ Completes(m) /\ tasks'[m] = tasks[m]
      <3>1. m \in Accepted
        BY <1>2
      <3>2. QED
        BY <1>3, <3>1 DEF Completes
    <2>2. CASE n = N
      <3>1. ~Live(c.key) /\ tasks'[n] = t /\ tasks[m].boot = boot
        <4>1. tasks'[n] = t /\ c.type = "complete" /\ t.pc # "dropped"
          BY <1>3, <1>8, <2>2 DEF Completes
        <4>2. QED
          BY <1>3, <1>8, <1>10, <2>1, <4>1
      <3>2. now \in Nat /\ tasks[m].done + Ttl \in Nat
        BY <2>1 DEF IInv, TypeOK, DedupTypeOK, DedupAssumption, Task
      <3>3. ASSUME now < tasks[m].done + Ttl
            PROVE  FALSE
        <4>1. /\ c.key \in DOMAIN entries
              /\ entries[c.key] >= tasks[m].done + Ttl
          BY <1>3, <1>8, <2>1, <2>2, <3>1, <3>3 DEF IInv, Remembered
        <4>2. entries[c.key] \in Nat
          BY <4>1 DEF IInv, TypeOK, DedupTypeOK
        <4>3. QED
          BY <3>1, <3>2, <3>3, <4>1, <4>2 DEF Live
      <3>4. QED
        BY <1>8, <2>1, <3>1, <3>2, <3>3
    <2>3. CASE n \in Accepted
      BY <1>3, <2>1, <2>3 DEF IInv, OncePerTtl, Completes
    <2>4. QED
      BY <1>2, <2>2, <2>3
  <1>15. QED
    BY <1>6, <1>7, <1>9, <1>11, <1>12, <1>13, <1>14 DEF IInv

(* A step of a delivery preserves the invariant.                           *)
LEMMA StepPreserves ==
    ASSUME CallbackAssumption, DedupAssumption, IInv, NEW n \in Accepted, Step(n)
    PROVE  IInv'
  <1>1. shown' \subseteq Items /\ late' \subseteq Items
    BY StepEffect DEF IInv
  <1>2. PICK t \in Task : Becomes(n, t) /\ (GoesOn(n, t) \/ Ends(n, t))
    BY StepEffect DEF IInv
  <1> DEFINE k == t.call.key
  <1>3. /\ Accepted' = Accepted /\ boot' = boot
        /\ tasks'[n] = t
        /\ \A m \in Accepted : m # n => tasks'[m] = tasks[m]
        /\ t.call = tasks[n].call /\ t.boot = tasks[n].boot
        /\ t.arrived = tasks[n].arrived
        /\ t.pc # "dropped" /\ Active(n) /\ tasks[n].pc # "dropped"
        /\ nreq \in Nat
    BY <1>2 DEF Becomes, IInv, TypeOK, Accepted, Active, Waiting
  <1>4. k \in Keys
    BY DEF Task, CallbackAssumption, Callback
  <1>5. /\ DedupTypeOK' /\ now' = now
        /\ \A j : j # k => (Live(j)' <=> Live(j))
        /\ \A j \in DOMAIN entries : j # k /\ entries[j] > now
              => j \in DOMAIN entries' /\ entries'[j] = entries[j]
    <2>1. CASE UNCHANGED dedupVars
      BY <2>1 DEF dedupVars, IInv, TypeOK, DedupTypeOK, Live
    <2>2. CASE MarkCompleted(k)
      BY <1>4, <2>2, MarkCompletedEffect DEF IInv, TypeOK
    <2>3. QED
      BY <1>2, <2>1, <2>2 DEF GoesOn, Ends
  <1>6. TypeOK'
    BY <1>1, <1>2, <1>5 DEF Becomes, GoesOn, Ends, IInv, TypeOK, Accepted
  <1>7. Placed'
    <2>1. Fits(t)'
      BY <1>2, <1>3, <1>5 DEF Becomes, Fits
    <2>2. \A m \in Accepted : m # n => Fits(tasks[m])'
      BY <1>3, <1>5 DEF IInv, Placed, Fits
    <2>3. QED
      BY <1>3, <2>1, <2>2 DEF Placed, Fits
  <1>8. \A m \in Accepted : /\ Completes(m)' <=> Completes(m)
                            /\ Active(m)' => Active(m)
                            /\ m # n => (Active(m)' <=> Active(m))
    BY <1>3 DEF Completes, Active
  <1>9. OneDeliveryPerKey
    BY <1>3, OneAtATime DEF IInv
  <1>10. Reserved'
    <2>1. CASE GoesOn(n, t)
      <3>1. /\ inFlight' = inFlight
            /\ Completes(n) => (Active(n)' <=> Active(n))
        BY <1>3, <2>1 DEF GoesOn, Completes, Active
      <3>2. QED
        BY <1>3, <1>8, <3>1 DEF IInv, Reserved, Completes, Active
    <2>2. CASE Ends(n, t)
      <3>1. inFlight' = inFlight \ {k} /\ ~Active(n)' /\ Completes(n)
        BY <1>3, <2>2 DEF Ends, Active, Completes, Waiting
      <3>2. \A m \in Accepted : m # n /\ Completes(m) /\ Active(m)
               => tasks[m].call.key # k
        BY <1>3, <1>9, <3>1 DEF OneDeliveryPerKey
      <3>3. ASSUME NEW m \in Accepted, Completes(m)', Active(m)'
            PROVE  tasks'[m].call.key \in inFlight'
        <4>1. m # n
          BY <1>3, <2>2, <3>3 DEF Ends, Active, Waiting
        <4>2. tasks'[m] = tasks[m] /\ Completes(m) /\ Active(m)
          BY <1>3, <3>3, <4>1 DEF Completes, Active
        <4>3. QED
          BY <3>1, <3>2, <4>1, <4>2 DEF IInv, Reserved
      <3>4. ASSUME NEW j \in inFlight'
            PROVE  \E m \in Accepted : Completes(m)' /\ Active(m)' /\ tasks'[m].call.key = j
        <4>1. j \in inFlight /\ j # k
          BY <3>1
        <4>2. PICK m \in Accepted : Completes(m) /\ Active(m) /\ tasks[m].call.key = j
          BY <4>1 DEF IInv, Reserved
        <4>3. m # n
          BY <1>3, <4>1, <4>2
        <4>4. QED
          BY <1>3, <4>2, <4>3 DEF Completes, Active
      <3>5. QED
        BY <1>3, <3>3, <3>4 DEF Reserved
    <2>3. QED
      BY <1>2, <2>1, <2>2
  <1>11. Serial'
    BY <1>3 DEF IInv, Serial, Completes, Active
  <1>12. \A m \in Accepted : m # n /\ tasks'[m].delivered => tasks[m].delivered
    BY <1>3
  <1>13. Remembered'
    <2> SUFFICES ASSUME NEW m \in Accepted', tasks'[m].delivered, tasks'[m].boot = boot',
                        now' < tasks'[m].done + Ttl
                 PROVE  /\ tasks'[m].call.key \in DOMAIN entries'
                        /\ entries'[tasks'[m].call.key] >= tasks'[m].done + Ttl
      BY DEF Remembered
    <2>1. m \in Accepted /\ now \in Nat /\ Ttl \in Nat /\ tasks'[m] \in Task
      BY <1>3, <1>6 DEF IInv, TypeOK, DedupTypeOK, DedupAssumption
    <2>2. tasks'[m].done \in Nat /\ tasks'[m].done <= now
      BY <1>3, <1>5, <1>7, <2>1 DEF Placed, Fits, Task
    <2>3. CASE MarkCompleted(k) /\ tasks'[m].call.key = k
      <3>1. k \in DOMAIN entries' /\ entries'[k] = now + Ttl
        BY <1>4, <2>3, MarkCompletedEffect DEF IInv, TypeOK
      <3>2. QED
        BY <2>1, <2>2, <2>3, <3>1
    <2>4. CASE m = n
      BY <1>2, <1>3, <2>3, <2>4 DEF GoesOn, Ends
    <2>5. CASE m # n /\ ~(MarkCompleted(k) /\ tasks'[m].call.key = k)
      <3> DEFINE j == tasks[m].call.key
      <3>1. tasks'[m] = tasks[m]
        BY <1>3, <2>1, <2>5
      <3>2. j \in DOMAIN entries /\ entries[j] >= tasks[m].done + Ttl
        BY <1>3, <1>5, <2>1, <3>1 DEF IInv, Remembered
      <3>3. entries[j] \in Nat
        BY <3>2 DEF IInv, TypeOK, DedupTypeOK
      <3>4. entries[j] > now
        BY <1>5, <2>1, <2>2, <3>1, <3>2, <3>3
      <3>5. j \in DOMAIN entries' /\ entries'[j] = entries[j]
        BY <1>2, <1>5, <2>5, <3>1, <3>2, <3>4 DEF GoesOn, Ends, dedupVars
      <3>6. QED
        BY <3>1, <3>2, <3>5
    <2>6. QED
      BY <2>3, <2>4, <2>5
  <1>14. Exclusive'
    <2>1. \A j \in inFlight' : j \in inFlight
      BY <1>2 DEF GoesOn, Ends
    <2>2. CASE GoesOn(n, t)
      BY <2>1, <2>2 DEF GoesOn, IInv, Exclusive, Live, dedupVars
    <2>3. CASE Ends(n, t)
      BY <1>5, <2>1, <2>3 DEF Ends, IInv, Exclusive
    <2>4. QED
      BY <1>2, <2>2, <2>3
  <1>15. OncePerTtl'
    <2> SUFFICES ASSUME NEW m \in Accepted', NEW p \in Accepted', m < p,
                        Completes(m)', Completes(p)',
                        tasks'[m].call.key = tasks'[p].call.key,
                        tasks'[m].boot = tasks'[p].boot,
                        tasks'[m].delivered
                 PROVE  tasks'[p].arrived >= tasks'[m].done + Ttl
      BY DEF OncePerTtl
    <2>1. /\ m \in Accepted /\ p \in Accepted /\ Completes(m) /\ Completes(p)
          /\ tasks[m].call.key = tasks[p].call.key /\ tasks[m].boot = tasks[p].boot
          /\ tasks'[p].arrived = tasks[p].arrived
      BY <1>3 DEF Completes
    <2>2. m # n
      BY <1>3, <2>1 DEF IInv, Serial
    <2>3. QED
      BY <1>3, <2>1, <2>2 DEF IInv, OncePerTtl
  <1>16. QED
    BY <1>6, <1>7, <1>10, <1>11, <1>13, <1>14, <1>15 DEF IInv

(* A restart preserves the invariant: all reservations and marks go        *)
(* together.                                                               *)
LEMMA RestartPreserves ==
    ASSUME CallbackAssumption, DedupAssumption, IInv, Restart
    PROVE  IInv'
  <1>1. /\ Accepted' = Accepted /\ boot' = boot + 1 /\ boot' \in 0 .. MaxRestarts
        /\ inFlight' = {}
        /\ tasks' = [n \in Accepted |->
                        IF Active(n) THEN [tasks[n] EXCEPT !.pc = "lost"] ELSE tasks[n]]
    BY DEF Restart, Accepted, IInv, TypeOK, CallbackAssumption
  <1>2. DedupTypeOK' /\ now' = now /\ \A k : ~Live(k)'
    BY FreshCacheEffect DEF Restart, IInv, TypeOK
  <1>3. \A n \in Accepted :
           /\ tasks'[n] \in Task /\ tasks'[n].pc \notin Waiting
           /\ tasks'[n].pc # tasks[n].pc => tasks[n].pc \in Waiting
           /\ tasks'[n].call = tasks[n].call /\ tasks'[n].boot = tasks[n].boot
           /\ tasks'[n].delivered = tasks[n].delivered /\ tasks'[n].done = tasks[n].done
           /\ tasks'[n].arrived = tasks[n].arrived
           /\ tasks[n].delivered => tasks'[n].pc = tasks[n].pc
           /\ tasks'[n].pc = tasks[n].pc \/ tasks'[n].pc = "lost"
    <2> SUFFICES ASSUME NEW n \in Accepted
                 PROVE  /\ tasks'[n] \in Task /\ tasks'[n].pc \notin Waiting
                        /\ tasks'[n].pc # tasks[n].pc => tasks[n].pc \in Waiting
                        /\ tasks'[n].call = tasks[n].call /\ tasks'[n].boot = tasks[n].boot
                        /\ tasks'[n].delivered = tasks[n].delivered
                        /\ tasks'[n].done = tasks[n].done
                        /\ tasks'[n].arrived = tasks[n].arrived
                        /\ tasks[n].delivered => tasks'[n].pc = tasks[n].pc
                        /\ tasks'[n].pc = tasks[n].pc \/ tasks'[n].pc = "lost"
      OBVIOUS
    <2>1. tasks[n] \in Task /\ Fits(tasks[n])
      BY DEF IInv, TypeOK, Placed
    <2>2. CASE Active(n)
      <3>1. tasks'[n] = [tasks[n] EXCEPT !.pc = "lost"]
        BY <1>1, <2>2
      <3>2. QED
        BY <2>1, <2>2, <3>1 DEF Task, PC, Waiting, Active, Fits
    <2>3. CASE ~Active(n)
      BY <1>1, <2>1, <2>3 DEF Active
    <2>4. QED
      BY <2>2, <2>3
  <1>4. TypeOK'
    <2>1. \A n \in Accepted : Outstanding(n) \subseteq Items
      <3> SUFFICES ASSUME NEW n \in Accepted PROVE Outstanding(n) \subseteq Items
        OBVIOUS
      <3>1. tasks[n] \in Task /\ n \in Requests
        BY DEF IInv, TypeOK, Accepted, Requests, CallbackAssumption
      <3>2. tasks[n].tried + 1 \in Nat /\ tasks[n].got \subseteq Nat
        BY <3>1 DEF Task
      <3>3. /\ Item(n, "voice", 1) \in Items
            /\ Item(n, "text", tasks[n].tried + 1) \in Items
            /\ Item(n, "fallback", 1) \in Items
            /\ \A j \in tasks[n].got : Item(n, "file", j) \in Items
        BY <3>1, <3>2 DEF Item, Items, Kinds
      <3>4. QED
        BY <3>3 DEF Outstanding
    <2>2. shown' \subseteq Items /\ late' \subseteq Items
      BY <2>1 DEF Restart, GivenUp, IInv, TypeOK
    <2>3. tasks' \in [Accepted' -> Task]
      BY <1>1, <1>3
    <2>4. QED
      BY <1>1, <1>2, <2>2, <2>3 DEF IInv, TypeOK, Restart, Accepted
  <1>5. Placed'
    <2> SUFFICES ASSUME NEW n \in Accepted PROVE Fits(tasks[n])'
      BY <1>1 DEF Placed, Fits
    <2>1. Fits(tasks[n]) /\ tasks[n] \in Task /\ boot \in Nat
      BY DEF IInv, TypeOK, Placed
    <2>2. tasks'[n].boot <= boot'
      BY <1>1, <1>3, <2>1 DEF Fits, Task
    <2>3. QED
      BY <1>2, <1>3, <2>1, <2>2 DEF Fits, Waiting
  <1>6. Reserved'
    BY <1>1, <1>3 DEF Reserved, Active
  <1>7. Serial'
    BY <1>1, <1>3 DEF Serial, Active
  <1>8. Remembered'
    <2> SUFFICES ASSUME NEW n \in Accepted, tasks'[n].boot = boot' PROVE FALSE
      BY <1>1 DEF Remembered
    <2>1. tasks[n].boot <= boot /\ tasks[n].boot = boot + 1 /\ tasks[n].boot \in Nat
      BY <1>1, <1>3 DEF IInv, TypeOK, Placed, Fits, Task
    <2>2. QED
      BY <2>1 DEF IInv, TypeOK
  <1>9. Exclusive'
    BY <1>1 DEF Exclusive
  <1>10. OncePerTtl'
    <2>1. \A n \in Accepted : Completes(n)' => Completes(n)
      BY <1>1, <1>3 DEF Completes, Waiting
    <2>2. QED
      BY <1>1, <1>3, <2>1 DEF IInv, OncePerTtl, Completes
  <1>11. QED
    BY <1>4, <1>5, <1>6, <1>7, <1>8, <1>9, <1>10 DEF IInv

(* The passing of time preserves the invariant.                            *)
LEMMA ElapsePreserves ==
    ASSUME DedupAssumption, IInv, Elapse
    PROVE  IInv'
  <1>1. /\ DedupTypeOK' /\ now' = now + 1 /\ entries' = entries
        /\ \A k : Live(k)' => Live(k)
    BY TickEffect DEF Elapse, IInv, TypeOK
  <1>2. /\ inFlight' = inFlight /\ nreq' = nreq /\ tasks' = tasks /\ boot' = boot
        /\ shown' = shown /\ late' = late /\ Accepted' = Accepted
        /\ now \in Nat
    BY DEF Elapse, Accepted, IInv, TypeOK, DedupTypeOK
  <1>3. TypeOK'
    BY <1>1, <1>2 DEF IInv, TypeOK
  <1>4. Placed'
    <2> SUFFICES ASSUME NEW n \in Accepted PROVE Fits(tasks[n])'
      BY <1>2 DEF Placed, Fits
    <2>1. Fits(tasks[n]) /\ tasks[n].done \in Nat
      BY DEF IInv, Placed, TypeOK, Task
    <2>2. QED
      BY <1>1, <1>2, <2>1 DEF Fits
  <1>5. Reserved' /\ Serial' /\ OncePerTtl'
    BY <1>2 DEF IInv, Reserved, Serial, OncePerTtl, Completes, Active
  <1>6. Remembered'
    <2> SUFFICES ASSUME NEW n \in Accepted, tasks[n].delivered, tasks[n].boot = boot,
                        now + 1 < tasks[n].done + Ttl
                 PROVE  /\ tasks[n].call.key \in DOMAIN entries
                        /\ entries[tasks[n].call.key] >= tasks[n].done + Ttl
      BY <1>1, <1>2 DEF Remembered
    <2>1. now < tasks[n].done + Ttl
      BY <1>2 DEF IInv, TypeOK, Task, DedupAssumption
    <2>2. QED
      BY <2>1 DEF IInv, Remembered
  <1>7. Exclusive'
    BY <1>1, <1>2 DEF IInv, Exclusive
  <1>8. QED
    BY <1>3, <1>4, <1>5, <1>6, <1>7 DEF IInv

(* The invariant says nothing of shown and late but their type.            *)
LEMMA ArrivalPreserves ==
    ASSUME IInv, LateArrival \/ UNCHANGED vars
    PROVE  IInv'
  <1>1. /\ UNCHANGED <<dedupVars, inFlight, nreq, tasks, boot>>
        /\ shown' \subseteq Items /\ late' \subseteq Items
    BY DEF LateArrival, vars, IInv, TypeOK
  <1>2. TypeOK' /\ Placed'
    BY <1>1 DEF IInv, TypeOK, DedupTypeOK, Placed, Fits, Accepted, dedupVars
  <1>3. Reserved' /\ Serial' /\ OncePerTtl'
    BY <1>1 DEF IInv, Reserved, Serial, OncePerTtl, Completes, Active, Accepted
  <1>4. Remembered' /\ Exclusive'
    BY <1>1 DEF IInv, Remembered, Exclusive, Live, Accepted, dedupVars
  <1>5. QED
    BY <1>2, <1>3, <1>4 DEF IInv

(* The invariant holds of a gateway that has just started.                 *)
LEMMA InitIInv == ASSUME CallbackAssumption, Init PROVE IInv
  <1>1. Accepted = {}
    BY DEF Init, Accepted
  <1>2. TypeOK
    BY <1>1 DEF Init, TypeOK, DedupInit, DedupTypeOK, CallbackAssumption
  <1>3. QED
    BY <1>1, <1>2 DEF Init, IInv, Placed, Reserved, Serial, Remembered, Exclusive, OncePerTtl

(* Every step preserves the invariant.                                     *)
LEMMA NextIInv ==
    ASSUME CallbackAssumption, DedupAssumption, IInv, [Next]_vars
    PROVE  IInv'
  BY HandlePreserves, StepPreserves, RestartPreserves, ElapsePreserves, ArrivalPreserves
     DEF Next

(* The inductive invariant from which the theorems below follow.           *)
THEOREM Invariance == Spec => []IInv
  BY InitIInv, NextIInv, CallbackAssumption, DedupAssumption, PTL DEF Spec

(* The state of the gateway's reply path has its type.                     *)
THEOREM TypeCorrect == Spec => []TypeOK
  <1>1. IInv => TypeOK
    BY DEF IInv
  <1>2. QED
    BY <1>1, Invariance, PTL

(* A reservation in in_flight is exactly a running complete delivery.      *)
THEOREM ReservationsExact == Spec => []InFlightExact
  <1>1. IInv => InFlightExact
    BY DEF IInv, Reserved, InFlightExact
  <1>2. QED
    BY <1>1, Invariance, PTL

(* A reply never has two deliveries running together.                      *)
THEOREM MutualExclusion == Spec => []OneDeliveryPerKey
  <1>1. IInv => OneDeliveryPerKey
    BY OneAtATime DEF IInv, TypeOK
  <1>2. QED
    BY <1>1, Invariance, PTL

(* A delivered reply is not scheduled again within its time to live.       *)
THEOREM AtMostOncePerTtl == Spec => []OncePerTtl
  <1>1. IInv => OncePerTtl
    BY DEF IInv
  <1>2. QED
    BY <1>1, Invariance, PTL

----------------------------------------------------------------------------
(* The cache, and the ledger the reply path implements.                    *)

(* No expired entry survives a sweep of the cache.                         *)
THEOREM CacheSwept == Spec => []SweptClean
  <1>1. Init => SweptClean
    BY DEF Init, DedupInit, SweptClean
  <1>2. IInv /\ SweptClean /\ [Next]_vars => SweptClean'
    <2> SUFFICES ASSUME IInv, SweptClean, [Next]_vars PROVE SweptClean'
      OBVIOUS
    <2>1. CASE UNCHANGED dedupVars
      BY <2>1 DEF dedupVars, SweptClean
    <2>2. ASSUME NEW c \in Callbacks, Handle(c) PROVE SweptClean'
      BY <2>1, <2>2, IsCompletedEffect, DedupAssumption
         DEF Handle, FireAndForget, DropDuplicate, ScheduleComplete, IInv, TypeOK
    <2>3. ASSUME NEW n \in Accepted, Step(n) PROVE SweptClean'
      <3>1. PICK t \in Task : GoesOn(n, t) \/ Ends(n, t)
        BY <2>3, StepEffect, CallbackAssumption DEF IInv
      <3>2. t.call.key \in Keys
        BY CallbackAssumption DEF Task, Callback
      <3>3. QED
        BY <2>1, <3>1, <3>2, MarkCompletedEffect, DedupAssumption
           DEF GoesOn, Ends, IInv, TypeOK
    <2>4. ASSUME Restart PROVE SweptClean'
      BY <2>4, FreshCacheEffect DEF Restart, IInv, TypeOK
    <2>5. ASSUME Elapse PROVE SweptClean'
      BY <2>5, TickEffect DEF Elapse, IInv, TypeOK
    <2>6. QED
      BY <2>1, <2>2, <2>3, <2>4, <2>5 DEF Next, LateArrival, vars
  <1>3. QED
    BY <1>1, <1>2, Invariance, PTL DEF Spec

(* Only time, or the loss of the process, makes a delivered key forgotten. *)
THEOREM TimeForgets == Spec => OnlyTimeForgets
  <1>1. IInv /\ [Next]_vars =>
           [\A k \in Keys : Live(k) /\ ~Live(k)' => boot' # boot \/ now' >= entries[k]]_vars
    <2> SUFFICES ASSUME IInv, Next, NEW k \in Keys, Live(k), ~Live(k)'
                 PROVE  boot' # boot \/ now' >= entries[k]
      BY DEF vars
    <2>1. CASE UNCHANGED dedupVars
      BY <2>1 DEF dedupVars, Live
    <2>2. ASSUME NEW c \in Callbacks, Handle(c) PROVE FALSE
      BY <2>1, <2>2, IsCompletedEffect, DedupAssumption
         DEF Handle, FireAndForget, DropDuplicate, ScheduleComplete, IInv, TypeOK, dedupVars, Live
    <2>3. ASSUME NEW n \in Accepted, Step(n) PROVE FALSE
      <3>1. PICK t \in Task : GoesOn(n, t) \/ Ends(n, t)
        BY <2>3, StepEffect, CallbackAssumption DEF IInv
      <3>2. t.call.key \in Keys
        BY CallbackAssumption DEF Task, Callback
      <3>3. CASE UNCHANGED dedupVars
        BY <3>3 DEF dedupVars, Live
      <3>4. CASE MarkCompleted(t.call.key)
        <4>1. /\ now' = now /\ t.call.key \in DOMAIN entries'
              /\ entries'[t.call.key] = now + Ttl
              /\ k # t.call.key => (Live(k)' <=> Live(k))
          BY <3>2, <3>4, MarkCompletedEffect, DedupAssumption DEF IInv, TypeOK
        <4>2. now + Ttl > now
          BY DedupAssumption DEF IInv, TypeOK, DedupTypeOK
        <4>3. QED
          BY <4>1, <4>2 DEF Live
      <3>5. QED
        BY <3>1, <3>3, <3>4 DEF GoesOn, Ends
    <2>4. ASSUME Restart PROVE boot' # boot
      BY <2>4, CallbackAssumption DEF Restart, IInv, TypeOK
    <2>5. ASSUME Elapse PROVE now' >= entries[k]
      BY <2>5 DEF Elapse, Tick, Live, IInv, TypeOK, DedupTypeOK
    <2>6. QED
      BY <2>1, <2>2, <2>3, <2>4, <2>5 DEF Next, LateArrival
  <1>2. QED
    BY <1>1, Invariance, PTL DEF Spec, OnlyTimeForgets

(* What a step does to the ledger's status of each key.                    *)
LEMMA StatusStutter ==
    ASSUME inFlight' = inFlight, \A k : Live(k)' <=> Live(k)
    PROVE  UNCHANGED [k \in Keys |-> Status(k)]
  BY DEF Status

(* Reserving an open key is the ledger's Begin.                            *)
LEMMA StatusBegin ==
    ASSUME CallbackAssumption, DedupAssumption, IInv, NEW c \in Callbacks,
           NEW t \in Task, Schedules(c, t)
    PROVE  Ledger!Begin(c.key)
  <1>1. c.key \in Keys
    BY DEF CallbackAssumption, Callback
  <1>2. Status(c.key) = "open" /\ Status(c.key)' = "delivering"
    BY DEF Schedules, Status
  <1>3. \A k \in Keys : k # c.key => Status(k)' = Status(k)
    BY IsCompletedEffect DEF Schedules, Status, IInv, TypeOK
  <1>4. [k \in Keys |-> Status(k)]' = [[k \in Keys |-> Status(k)] EXCEPT ![c.key] = "delivering"]
    BY <1>1, <1>2, <1>3
  <1>5. QED
    BY <1>1, <1>2, <1>4 DEF Ledger!Begin

(* The end of a delivery, marked or not, is the ledger's Finish.           *)
LEMMA StatusFinish ==
    ASSUME CallbackAssumption, DedupAssumption, IInv, NEW n \in Accepted,
           NEW t \in Task, Becomes(n, t), Ends(n, t)
    PROVE  \E k \in Keys, outcome \in {"open", "done"} : Ledger!Finish(k, outcome)
  <1> DEFINE k == t.call.key
             outcome == IF t.delivered THEN "done" ELSE "open"
  <1>1. k \in Keys /\ inFlight' = inFlight \ {k}
    BY DEF Task, CallbackAssumption, Callback, Ends
  <1>2. k \in inFlight
    <2>1. Completes(n) /\ Active(n) /\ tasks[n].call.key = k
      BY DEF Becomes, Ends, Completes, Active, Waiting
    <2>2. QED
      BY <2>1 DEF IInv, Reserved
  <1>3. /\ \A j \in Keys : j # k => (Live(j)' <=> Live(j))
        /\ Live(k)' <=> t.delivered
    <2>1. CASE t.delivered
      <3>1. /\ k \in DOMAIN entries' /\ entries'[k] = now + Ttl /\ now' = now
            /\ \A j : j # k => (Live(j)' <=> Live(j))
        BY <1>1, <2>1, MarkCompletedEffect DEF Ends, IInv, TypeOK
      <3>2. now + Ttl > now
        BY DEF IInv, TypeOK, DedupTypeOK, DedupAssumption
      <3>3. QED
        BY <2>1, <3>1, <3>2 DEF Live
    <2>2. CASE ~t.delivered
      BY <1>2, <2>2 DEF Ends, dedupVars, Live, IInv, Exclusive
    <2>3. QED
      BY <2>1, <2>2
  <1>4. Status(k) = "delivering" /\ Status(k)' = outcome
    BY <1>1, <1>2, <1>3 DEF Status
  <1>5. \A j \in Keys : j # k => Status(j)' = Status(j)
    BY <1>1, <1>3 DEF Status
  <1>6. [j \in Keys |-> Status(j)]' = [[j \in Keys |-> Status(j)] EXCEPT ![k] = outcome]
    BY <1>1, <1>4, <1>5
  <1>7. QED
    BY <1>1, <1>4, <1>6 DEF Ledger!Finish

(* The reply path implements the ledger of replies.                        *)
THEOREM Refinement == Spec => KeepsLedger
  <1> DEFINE status == [k \in Keys |-> Status(k)]
  <1>1. Init => Ledger!Init
    BY DEF Init, DedupInit, Ledger!Init, Status, Live
  <1>2. IInv /\ [Next]_vars => [Ledger!Next]_status
    <2> SUFFICES ASSUME IInv, [Next]_vars PROVE [Ledger!Next]_status
      OBVIOUS
    <2> USE CallbackAssumption, DedupAssumption
    <2>1. ASSUME UNCHANGED <<dedupVars, inFlight>> PROVE UNCHANGED status
      BY <2>1, StatusStutter DEF dedupVars, Live
    <2>2. ASSUME NEW c \in Callbacks, Handle(c) PROVE [Ledger!Next]_status
      <3>1. PICK t \in Task : Fires(c, t) \/ Drops(c, t) \/ Schedules(c, t)
        BY <2>2, HandleEffect DEF IInv
      <3>2. CASE Drops(c, t)
        BY <3>2, IsCompletedEffect, StatusStutter DEF Drops, IInv, TypeOK
      <3>3. CASE Schedules(c, t)
        BY <3>3, StatusBegin DEF Ledger!Next, Callback, CallbackAssumption
      <3>4. QED
        BY <2>1, <3>1, <3>2, <3>3 DEF Fires
    <2>3. ASSUME NEW n \in Accepted, Step(n) PROVE [Ledger!Next]_status
      <3>1. PICK t \in Task : Becomes(n, t) /\ (GoesOn(n, t) \/ Ends(n, t))
        BY <2>3, StepEffect DEF IInv
      <3>2. CASE Ends(n, t)
        BY <3>1, <3>2, StatusFinish DEF Ledger!Next
      <3>3. QED
        BY <2>1, <3>1, <3>2 DEF GoesOn
    <2>4. ASSUME Restart PROVE Ledger!Restart
      BY <2>4, FreshCacheEffect DEF Restart, Ledger!Restart, Status, IInv, TypeOK
    <2>5. ASSUME Elapse PROVE \E S \in SUBSET Keys : Ledger!Forget(S)
      <3> DEFINE S == {k \in Keys : Status(k) = "done" /\ ~Live(k)'}
      <3>1. inFlight' = inFlight /\ \A k : Live(k)' => Live(k)
        BY <2>5, TickEffect DEF Elapse, IInv, TypeOK
      <3>2. \A k \in Keys : Status(k)' = IF k \in S THEN "open" ELSE Status(k)
        BY <3>1 DEF Status
      <3>3. status' = [k \in Keys |-> IF k \in S THEN "open" ELSE status[k]]
        BY <3>2
      <3>4. \A k \in S : status[k] = "done"
        OBVIOUS
      <3>5. QED
        BY <3>3, <3>4 DEF Ledger!Forget
    <2>6. QED
      BY <2>1, <2>2, <2>3, <2>4, <2>5 DEF Next, LateArrival, vars, Ledger!Next
  <1>3. QED
    BY <1>1, <1>2, Invariance, PTL DEF Spec, KeepsLedger, Ledger!Spec
=============================================================================
