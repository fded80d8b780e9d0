------------------------- MODULE CallbackMediaProofs -------------------------
(***************************************************************************)
(* Proofs about what a delivery of the reply path has shown the user, for  *)
(* any keys, callbacks and bounds.  The inductive invariant ties the       *)
(* locals of a delivery, which are all that dispatch_callback decides on,  *)
(* to the messages that have reached the user (Told, Mute), and the cache  *)
(* to the deliveries that were called a success (Cached).                  *)
(***************************************************************************)
EXTENDS CallbackServerProofs

(* What the callback c of task n asks for is among the messages S.         *)
Whole(n, c, S) ==
    /\ \/ c.voice /\ Item(n, "voice", 1) \in S
       \/ c.chunks > 0 /\ \A i \in 1 .. c.chunks : Item(n, "text", i) \in S
       \/ ~c.voice /\ c.chunks = 0
    /\ \A i \in 1 .. c.atts : Item(n, "file", i) \in S

(* The locals t of task n never claim more than the messages S show.       *)
Told(n, t, S) ==
    /\ t.pc = "fallback" => t.call.type = "error"
    /\ t.pc \in {"voice_get", "voice_send"} => t.call.voice /\ t.tried = 0
    /\ t.pc \in {"voice_get", "voice_send", "text"} => ~t.voiceOk /\ t.fetched = 0
    /\ t.voiceOk => t.call.voice /\ Item(n, "voice", 1) \in S
    /\ t.pc = "text" => t.tried < t.call.chunks
    /\ t.sent <= t.tried /\ t.tried <= t.call.chunks
    /\ t.sent = t.tried => \A i \in 1 .. t.tried : Item(n, "text", i) \in S
    /\ t.attOk => t.got = 1 .. t.fetched
    /\ t.pc = "att_get" => t.fetched < t.call.atts
    /\ t.pc = "att_send" => t.fetched = t.call.atts
    /\ t.pc = "react" /\ t.call.type = "complete" /\ t.attOk
          => \A i \in 1 .. t.call.atts : Item(n, "file", i) \in S
    /\ t.delivered => Whole(n, t.call, S)

(* No text of n exists as long as its voice note may still, or did, spare  *)
(* the user the text.                                                      *)
Mute(n, t, S) ==
    t.voiceOk \/ t.pc \in {"voice_get", "voice_send"}
       => \A x \in S : ~(x.by = n /\ x.kind = "text")

Cached ==
    \A k \in DOMAIN entries :
       \E n \in Accepted : Completes(n) /\ tasks[n].call.key = k /\ tasks[n].delivered

MInv ==
    /\ \A n \in Accepted : Told(n, tasks[n], shown) /\ Mute(n, tasks[n], shown \cup late)
    /\ \A x \in shown \cup late : x.by \in Accepted
    /\ Cached

----------------------------------------------------------------------------
(* Facts about one task, whatever the others do.                           *)

(* More messages shown never make a claim of a task false.                 *)
LEMMA ToldGrows ==
    ASSUME NEW n, NEW t, NEW S, NEW U, S \subseteq U, Told(n, t, S)
    PROVE  Told(n, t, U)
  BY DEF Told, Whole

(* Messages of other deliveries do not break the silence of this one.      *)
LEMMA MuteKept ==
    ASSUME NEW n, NEW t, NEW S, NEW U, Mute(n, t, S),
           \A x \in U : x \in S \/ x.by # n \/ x.kind # "text"
    PROVE  Mute(n, t, U)
  BY DEF Mute

(* What a step of delivery n adds to the messages is by n, and leaves the  *)
(* new locals of n with no claim that the messages do not bear out.        *)
Honest(n) ==
    /\ shown \subseteq shown'
    /\ \A x \in shown' \cup late' : x \in shown \cup late \/ x.by = n
    /\ Told(n, tasks'[n], shown')
    /\ Mute(n, tasks'[n], shown' \cup late')

(* A call adds its items, and all of them when it is acknowledged.         *)
LEMMA CallAdds ==
    ASSUME NEW items, NEW ok \in BOOLEAN, Call(items, ok)
    PROVE  /\ shown \subseteq shown'
           /\ \A x \in shown' \cup late' : x \in shown \cup late \/ x \in items
           /\ ok => items \subseteq shown'
  BY DEF Call, Acknowledged, GivenUp

(* Where a delivery goes after its text, and after its voice note.         *)
LEMMA NextPlace ==
    ASSUME NEW c \in Callback
    PROVE  /\ AfterText(c) \in {"end", "att_get", "react"}
           /\ AfterText(c) = "att_get" => c.atts > 0
           /\ AfterText(c) = "react" => c.atts = 0
           /\ TextOrBeyond(c) = "text" => c.chunks > 0
           /\ TextOrBeyond(c) \in {"text", AfterText(c)}
           /\ FirstAwait(c) \in {"fallback", "voice_get", TextOrBeyond(c)}
           /\ FirstAwait(c) = "fallback" => c.type = "error"
           /\ FirstAwait(c) = "voice_get" => c.voice
  BY DEF Callback, AfterText, TextOrBeyond, FirstAwait

(* A task that has just been scheduled claims nothing.                     *)
LEMMA NewTaskHonest ==
    ASSUME CallbackAssumption, NEW c \in Callbacks, NEW n, NEW S,
           NEW pc \in {"dropped", FirstAwait(c)}
    PROVE  Told(n, NewTask(c, pc), S)
  <1> DEFINE t == NewTask(c, pc)
  <1>1. c \in Callback /\ c.chunks \in Nat /\ c.atts \in Nat
    BY DEF CallbackAssumption, Callback
  <1>2. /\ t.pc = pc /\ t.call = c /\ t.tried = 0 /\ t.sent = 0 /\ t.voiceOk = FALSE
        /\ t.fetched = 0 /\ t.got = {} /\ t.attOk = TRUE /\ t.delivered = FALSE
    BY DEF NewTask
  <1>3. pc \in {"dropped", "fallback", "voice_get", "text", "end", "att_get", "react"}
    BY <1>1, NextPlace
  <1>4. /\ pc = "fallback" => c.type = "error"
        /\ pc = "voice_get" => c.voice
        /\ pc = "text" => c.chunks > 0
        /\ pc = "att_get" => c.atts > 0
        /\ pc = "react" => c.atts = 0
    BY <1>1, NextPlace
  <1>5. 1 .. 0 = {}
    OBVIOUS
  <1>6. QED
    BY <1>1, <1>2, <1>3, <1>4, <1>5 DEF Told

(* A delivery that raises, or whose end is not a success, claims nothing   *)
(* more than before.                                                       *)
LEMMA EndHonest ==
    ASSUME TypeOK, CallbackAssumption, NEW n \in Accepted, Told(n, tasks[n], shown), Mute(n, tasks[n], shown \cup late),
           NEW d \in BOOLEAN, d => Whole(n, tasks[n].call, shown),
           EndTask(n, d), UNCHANGED <<shown, late>>
    PROVE  Honest(n)
  <1> DEFINE t0 == tasks[n]
             t == [t0 EXCEPT !.pc = "end", !.delivered = d, !.done = now]
  <1>1. t0 \in Task /\ tasks'[n] = t
    BY DEF TypeOK, EndTask
  <1>2. /\ t.pc = "end" /\ t.call = t0.call /\ t.tried = t0.tried /\ t.sent = t0.sent
        /\ t.voiceOk = t0.voiceOk /\ t.fetched = t0.fetched /\ t.got = t0.got
        /\ t.attOk = t0.attOk /\ t.delivered = d
    BY <1>1 DEF Task
  <1>3. Told(n, t, shown)
    BY <1>2 DEF Told
  <1>4. Mute(n, t, shown \cup late)
    BY <1>2 DEF Mute
  <1>5. QED
    BY <1>1, <1>3, <1>4 DEF Honest

(* Every step of a delivery is honest about what it has shown.             *)
LEMMA StepHonest ==
    ASSUME CallbackAssumption, IInv, MInv, NEW n \in Accepted, Step(n)
    PROVE  Honest(n)
  <1> DEFINE t0 == tasks[n]
             c  == t0.call
  <1>1. /\ t0 \in Task /\ Fits(t0) /\ c \in Callback
        /\ Told(n, t0, shown) /\ Mute(n, t0, shown \cup late)
        /\ n \in DOMAIN tasks
    BY DEF IInv, TypeOK, Placed, MInv, Task, CallbackAssumption
  <1>2. /\ c.chunks \in Nat /\ c.atts \in Nat /\ t0.tried \in Nat /\ t0.sent \in Nat
        /\ t0.fetched \in Nat /\ t0.voiceOk \in BOOLEAN /\ t0.attOk \in BOOLEAN
    BY <1>1 DEF Task, Callback
  <1>3. ASSUME Raise(n) PROVE Honest(n)
    BY <1>1, <1>3, EndHonest DEF Raise, IInv
  <1>4. CASE FetchVoice(n)
    <2>1. t0.pc = "voice_get"
      BY <1>4 DEF FetchVoice, At
    <2>2. ASSUME NEW pc \in {"voice_send", TextOrBeyond(c)},
                 Continue(n, [t0 EXCEPT !.pc = pc]), UNCHANGED <<shown, late>>
          PROVE  Honest(n)
      <3> DEFINE t == [t0 EXCEPT !.pc = pc]
      <3>1. tasks'[n] = t
        BY <1>1, <2>2 DEF Continue
      <3>2. /\ t.pc = pc /\ t.call = c /\ t.tried = t0.tried /\ t.sent = t0.sent
            /\ t.voiceOk = t0.voiceOk /\ t.fetched = t0.fetched /\ t.got = t0.got
            /\ t.attOk = t0.attOk /\ t.delivered = t0.delivered
        BY <1>1 DEF Task
      <3>3. \A i \in 1 .. c.atts : c.atts # 0
        BY <1>2
      <3>4. Told(n, t, shown)
        BY <1>1, <1>2, <2>1, <3>2, <3>3, NextPlace DEF Told
      <3>5. Mute(n, t, shown \cup late)
        BY <1>1, <2>1, <3>2 DEF Mute
      <3>6. QED
        BY <2>2, <3>1, <3>4, <3>5 DEF Honest
    <2>3. QED
      BY <1>3, <1>4, <2>2 DEF FetchVoice
  <1>5. CASE SendVoice(n)
    <2> DEFINE x == Item(n, "voice", 1)
    <2>1. t0.pc = "voice_send"
      BY <1>5 DEF SendVoice, At
    <2>2. PICK ok \in BOOLEAN :
             /\ Call({x}, ok)
             /\ Continue(n, [t0 EXCEPT !.voiceOk = ok, !.pc = AfterVoice(c, ok)])
      BY <1>5 DEF SendVoice
    <2> DEFINE t == [t0 EXCEPT !.voiceOk = ok, !.pc = AfterVoice(c, ok)]
    <2>3. tasks'[n] = t
      BY <1>1, <2>2 DEF Continue
    <2>4. /\ shown \subseteq shown'
          /\ \A y \in shown' \cup late' : y \in shown \cup late \/ y = x
          /\ ok => x \in shown'
      BY <2>2, CallAdds
    <2>5. x.by = n /\ x.kind = "voice"
      BY DEF Item
    <2>6. /\ t.pc = AfterVoice(c, ok) /\ t.call = c /\ t.tried = t0.tried
          /\ t.sent = t0.sent /\ t.voiceOk = ok /\ t.fetched = t0.fetched
          /\ t.got = t0.got /\ t.attOk = t0.attOk /\ t.delivered = t0.delivered
      BY <1>1 DEF Task
    <2>7. /\ t.pc \in {"text", "end", "att_get", "react"}
          /\ t.pc = "text" => ~ok /\ c.chunks > 0
          /\ t.pc = "att_get" => c.atts > 0
          /\ t.pc = "react" => c.atts = 0
      BY <1>1, <2>6, NextPlace DEF AfterVoice
    <2>8. Told(n, t, shown')
      <3>1. Told(n, t0, shown')
        BY <1>1, <2>4, ToldGrows
      <3>2. \A i \in 1 .. c.atts : c.atts # 0
        BY <1>2
      <3>3. QED
        BY <1>2, <2>1, <2>4, <2>6, <2>7, <3>1, <3>2 DEF Told
    <2>9. Mute(n, t, shown' \cup late')
      BY <1>1, <2>1, <2>4, <2>5, <2>6, <2>7 DEF Mute
    <2>10. QED
      BY <2>3, <2>4, <2>5, <2>8, <2>9 DEF Honest
  <1>6. CASE SendChunk(n)
    <2> DEFINE i == t0.tried + 1
               x == Item(n, "text", i)
    <2>1. t0.pc = "text"
      BY <1>6 DEF SendChunk, At
    <2>2. PICK ok \in BOOLEAN :
             /\ Call({x}, ok)
             /\ Continue(n, [t0 EXCEPT
                   !.tried = i,
                   !.sent  = IF ok THEN @ + 1 ELSE @,
                   !.pc    = IF i = c.chunks THEN AfterText(c) ELSE @])
      BY <1>6 DEF SendChunk
    <2> DEFINE t == [t0 EXCEPT
                       !.tried = i,
                       !.sent  = IF ok THEN @ + 1 ELSE @,
                       !.pc    = IF i = c.chunks THEN AfterText(c) ELSE @]
    <2>3. tasks'[n] = t
      BY <1>1, <2>2 DEF Continue
    <2>4. /\ shown \subseteq shown'
          /\ \A y \in shown' \cup late' : y \in shown \cup late \/ y = x
          /\ ok => x \in shown'
      BY <2>2, CallAdds
    <2>5. x.by = n
      BY DEF Item
    <2>6. /\ t.pc = (IF i = c.chunks THEN AfterText(c) ELSE "text")
          /\ t.call = c /\ t.tried = i
          /\ t.sent = (IF ok THEN t0.sent + 1 ELSE t0.sent)
          /\ t.voiceOk = t0.voiceOk /\ t.fetched = t0.fetched
          /\ t.got = t0.got /\ t.attOk = t0.attOk /\ t.delivered = t0.delivered
      BY <1>1, <2>1 DEF Task
    <2>7. /\ ~t0.voiceOk /\ t0.fetched = 0 /\ t0.tried < c.chunks /\ ~t0.delivered
          /\ t0.sent <= t0.tried
      BY <1>1, <2>1 DEF Told, Fits
    <2>8. /\ t.pc \in {"text", "end", "att_get", "react"}
          /\ t.pc = "text" => i < c.chunks
          /\ t.pc = "att_get" => c.atts > 0
          /\ t.pc = "react" => c.atts = 0
      BY <1>1, <1>2, <2>6, <2>7, NextPlace
    <2>9. Told(n, t, shown')
      <3>1. Told(n, t0, shown')
        BY <1>1, <2>4, ToldGrows
      <3>2. \A j \in 1 .. c.atts : c.atts # 0
        BY <1>2
      <3>3. t.sent <= t.tried /\ t.tried <= c.chunks
        BY <1>2, <2>6, <2>7
      <3>4. t.sent = t.tried => \A j \in 1 .. t.tried : Item(n, "text", j) \in shown'
        <4> SUFFICES ASSUME t.sent = t.tried, NEW j \in 1 .. i
                     PROVE  Item(n, "text", j) \in shown'
          BY <2>6
        <4>1. ok /\ t0.sent = t0.tried
          BY <1>2, <2>6, <2>7
        <4>2. j \in 1 .. t0.tried \/ j = i
          BY <1>2
        <4>3. QED
          BY <2>4, <3>1, <4>1, <4>2 DEF Told
      <3>5. QED
        BY <1>2, <2>6, <2>7, <2>8, <3>1, <3>2, <3>3, <3>4 DEF Told
    <2>10. Mute(n, t, shown' \cup late')
      BY <2>6, <2>7, <2>8 DEF Mute
    <2>11. QED
      BY <2>3, <2>4, <2>5, <2>9, <2>10 DEF Honest
  <1>7. CASE FetchAttachment(n)
    <2> DEFINE i == t0.fetched + 1
               got(ok) == IF ok THEN t0.got \cup {i} ELSE t0.got
               t(ok) == [t0 EXCEPT !.fetched = i, !.got = got(ok),
                                   !.attOk = t0.attOk /\ ok,
                                   !.pc = IF i < c.atts THEN t0.pc
                                          ELSE IF got(ok) = {} THEN "react" ELSE "att_send"]
    <2>1. t0.pc = "att_get" /\ t0.fetched < c.atts /\ ~t0.delivered
      BY <1>1, <1>7 DEF FetchAttachment, At, Told, Fits
    <2>2. ASSUME NEW ok \in BOOLEAN, Continue(n, t(ok)), UNCHANGED <<shown, late>>
          PROVE  Honest(n)
      <3>1. tasks'[n] = t(ok)
        BY <1>1, <2>2 DEF Continue
      <3>2. /\ t(ok).pc = (IF i < c.atts THEN "att_get"
                            ELSE IF got(ok) = {} THEN "react" ELSE "att_send")
            /\ t(ok).call = c /\ t(ok).tried = t0.tried /\ t(ok).sent = t0.sent
            /\ t(ok).voiceOk = t0.voiceOk /\ t(ok).fetched = i /\ t(ok).got = got(ok)
            /\ t(ok).attOk = (t0.attOk /\ ok) /\ t(ok).delivered = t0.delivered
        BY <1>1, <2>1 DEF Task
      <3>3. t(ok).attOk => got(ok) = 1 .. i
        <4>1. t0.attOk => t0.got = 1 .. t0.fetched
          BY <1>1 DEF Told
        <4>2. 1 .. i = (1 .. t0.fetched) \cup {i}
          BY <1>2
        <4>3. QED
          BY <3>2, <4>1, <4>2
      <3>4. t(ok).attOk => got(ok) # {}
        <4>1. i \in 1 .. i
          BY <1>2
        <4>2. QED
          BY <3>3, <4>1
      <3>5. t(ok).pc = "att_send" => i = c.atts
        BY <1>2, <2>1, <3>2
      <3>6. Told(n, t(ok), shown)
        <4> HIDE DEF got, t
        <4>1. i < c.atts => t(ok).fetched < t(ok).call.atts
          BY <3>2
        <4>2. QED
          BY <1>1, <1>2, <2>1, <3>2, <3>3, <3>4, <3>5, <4>1 DEF Told
      <3>7. Mute(n, t(ok), shown \cup late)
        BY <1>1, <3>2 DEF Mute
      <3>8. QED
        BY <2>2, <3>1, <3>6, <3>7 DEF Honest
    <2>3. QED
      BY <1>3, <1>7, <2>2 DEF FetchAttachment
  <1>8. CASE SendAttachments(n)
    <2> DEFINE files == {Item(n, "file", j) : j \in t0.got}
    <2>1. t0.pc = "att_send" /\ t0.fetched = c.atts /\ ~t0.delivered
      BY <1>1, <1>8 DEF SendAttachments, At, Told, Fits
    <2>2. PICK ok \in BOOLEAN :
             /\ IF ok THEN Acknowledged(files)
                ELSE /\ \E S \in SUBSET files, R \in SUBSET files :
                           shown' = shown \cup S /\ late' = late \cup (R \ S)
                     /\ Cardinality(late') <= MaxLate
             /\ Continue(n, [t0 EXCEPT !.attOk = @ /\ ok, !.pc = "react"])
      BY <1>8 DEF SendAttachments
    <2> DEFINE t == [t0 EXCEPT !.attOk = @ /\ ok, !.pc = "react"]
    <2>3. tasks'[n] = t
      BY <1>1, <2>2 DEF Continue
    <2>4. \A x \in files : x.by = n /\ x.kind = "file"
      BY DEF Item
    <2>5. /\ shown \subseteq shown'
          /\ \A x \in shown' \cup late' : x \in shown \cup late \/ x \in files
          /\ ok => files \subseteq shown'
      BY <2>2 DEF Acknowledged
    <2>6. /\ t.pc = "react" /\ t.call = c /\ t.tried = t0.tried /\ t.sent = t0.sent
          /\ t.voiceOk = t0.voiceOk /\ t.fetched = t0.fetched /\ t.got = t0.got
          /\ t.attOk = (t0.attOk /\ ok) /\ t.delivered = t0.delivered
      BY <1>1 DEF Task
    <2>7. Told(n, t, shown')
      <3>1. Told(n, t0, shown')
        BY <1>1, <2>5, ToldGrows
      <3>2. t.attOk => \A j \in 1 .. c.atts : Item(n, "file", j) \in shown'
        BY <1>1, <2>1, <2>5, <2>6 DEF Told
      <3>3. QED
        BY <2>1, <2>6, <3>1, <3>2 DEF Told
    <2>8. Mute(n, t, shown' \cup late')
      BY <1>1, <2>4, <2>5, <2>6 DEF Mute
    <2>9. QED
      BY <2>3, <2>4, <2>5, <2>7, <2>8 DEF Honest
  <1>9. CASE SendFallback(n)
    <2> DEFINE x == Item(n, "fallback", 1)
               t == [t0 EXCEPT !.pc = "react"]
    <2>1. t0.pc = "fallback" /\ c.type = "error" /\ ~t0.delivered
      BY <1>1, <1>9 DEF SendFallback, At, Told, Fits
    <2>2. PICK ok \in BOOLEAN : Call({x}, ok)
      BY <1>9 DEF SendFallback
    <2>3. tasks'[n] = t
      BY <1>1, <1>9 DEF SendFallback, Continue
    <2>4. /\ shown \subseteq shown'
          /\ \A y \in shown' \cup late' : y \in shown \cup late \/ y = x
      BY <2>2, CallAdds
    <2>5. x.by = n /\ x.kind = "fallback"
      BY DEF Item
    <2>6. /\ t.pc = "react" /\ t.call = c /\ t.tried = t0.tried /\ t.sent = t0.sent
          /\ t.voiceOk = t0.voiceOk /\ t.fetched = t0.fetched /\ t.got = t0.got
          /\ t.attOk = t0.attOk /\ t.delivered = t0.delivered
      BY <1>1 DEF Task
    <2>7. Told(n, t, shown')
      <3>1. Told(n, t0, shown')
        BY <1>1, <2>4, ToldGrows
      <3>2. QED
        BY <2>1, <2>6, <3>1 DEF Told
    <2>8. Mute(n, t, shown' \cup late')
      BY <1>1, <2>4, <2>5, <2>6 DEF Mute
    <2>9. QED
      BY <2>3, <2>4, <2>5, <2>7, <2>8 DEF Honest
  <1>10. CASE React(n)
    <2>1. t0.pc = "react" /\ UNCHANGED <<shown, late>> /\ ~t0.delivered
      BY <1>1, <1>10 DEF React, At, Fits
    <2>2. CASE c.type = "complete"
      <3>1. EndTask(n, Delivered(t0)) /\ Delivered(t0) \in BOOLEAN
        BY <1>10, <2>2 DEF React, Delivered, ReplyOk
      <3>2. Delivered(t0) => Whole(n, c, shown)
        BY <1>1, <1>2, <2>1, <2>2 DEF Delivered, ReplyOk, Told, Whole
      <3>3. QED
        BY <1>1, <2>1, <3>1, <3>2, EndHonest DEF IInv
    <2>3. CASE c.type # "complete"
      <3> DEFINE t == [t0 EXCEPT !.pc = "end"]
      <3>1. tasks'[n] = t
        BY <1>1, <1>10, <2>3 DEF React, Continue
      <3>2. /\ t.pc = "end" /\ t.call = c /\ t.tried = t0.tried /\ t.sent = t0.sent
            /\ t.voiceOk = t0.voiceOk /\ t.fetched = t0.fetched /\ t.got = t0.got
            /\ t.attOk = t0.attOk /\ t.delivered = t0.delivered
        BY <1>1 DEF Task
      <3>3. Told(n, t, shown) /\ Mute(n, t, shown \cup late)
        BY <1>1, <3>2 DEF Told, Mute
      <3>4. QED
        BY <2>1, <3>1, <3>3 DEF Honest
    <2>4. QED
      BY <2>2, <2>3
  <1>11. CASE NoWorkspace(n)
    BY <1>3, <1>11 DEF NoWorkspace
  <1>12. QED
    BY <1>3, <1>4, <1>5, <1>6, <1>7, <1>8, <1>9, <1>10, <1>11 DEF Step

----------------------------------------------------------------------------
(* The invariant, one lemma for each kind of step.                         *)

(* A fresh cache, or one that has only been swept, claims nothing new.     *)
LEMMA CachedKept ==
    ASSUME Cached, DOMAIN entries' \subseteq DOMAIN entries, Accepted \subseteq Accepted',
           \A n \in Accepted : Completes(n) => /\ Completes(n)'
                                             /\ tasks'[n].call = tasks[n].call
                                             /\ tasks'[n].delivered = tasks[n].delivered
    PROVE  Cached'
  BY DEF Cached

(* Accepting a callback preserves the invariant.                           *)
LEMMA HandleKeeps ==
    ASSUME CallbackAssumption, DedupAssumption, IInv, MInv, NEW c \in Callbacks, Handle(c)
    PROVE  MInv'
  <1> DEFINE N == nreq + 1
  <1>1. PICK pc \in {"dropped", FirstAwait(c)} : Accept(c, pc)
    BY DEF Handle, FireAndForget, DropDuplicate, ScheduleComplete
  <1>2. /\ nreq \in Nat /\ N \in Accepted' /\ Accepted' = Accepted \cup {N}
        /\ N \notin Accepted
        /\ shown' = shown /\ late' = late
    BY <1>1 DEF Accept, Accepted, IInv, TypeOK
  <1>3. tasks'[N] = NewTask(c, pc) /\ \A n \in Accepted : tasks'[n] = tasks[n]
    BY <1>1, <1>2 DEF Accept, Accepted
  <1>4. DOMAIN entries' \subseteq DOMAIN entries
    BY SweepKeepsLive
       DEF Handle, FireAndForget, DropDuplicate, ScheduleComplete, IsCompleted, dedupVars,
           IInv, TypeOK
  <1>5. \A n \in Accepted' : Told(n, tasks'[n], shown') /\ Mute(n, tasks'[n], shown' \cup late')
    <2>1. Told(N, tasks'[N], shown')
      BY <1>1, <1>3, NewTaskHonest
    <2>2. Mute(N, tasks'[N], shown' \cup late')
      BY <1>2 DEF MInv, Mute
    <2>3. QED
      BY <1>2, <1>3, <2>1, <2>2 DEF MInv
  <1>6. Cached'
    BY <1>2, <1>3, <1>4, CachedKept DEF MInv, Completes
  <1>7. QED
    BY <1>2, <1>5, <1>6 DEF MInv

(* A step of a delivery preserves the invariant.                           *)
LEMMA StepKeeps ==
    ASSUME CallbackAssumption, DedupAssumption, IInv, MInv, NEW n \in Accepted, Step(n)
    PROVE  MInv'
  <1>1. Honest(n)
    BY StepHonest
  <1>2. PICK t \in Task : Becomes(n, t) /\ (GoesOn(n, t) \/ Ends(n, t))
    BY StepEffect DEF IInv
  <1>3. /\ Accepted' = Accepted /\ tasks'[n] = t
        /\ \A m \in Accepted : m # n => tasks'[m] = tasks[m]
        /\ t.call = tasks[n].call /\ t.pc # "dropped"
        /\ ~tasks[n].delivered
    BY <1>2 DEF Becomes, Accepted, IInv, TypeOK, Placed, Fits, Waiting
  <1>4. \A m \in Accepted : Told(m, tasks'[m], shown') /\ Mute(m, tasks'[m], shown' \cup late')
    <2> SUFFICES ASSUME NEW m \in Accepted, m # n
                 PROVE  Told(m, tasks[m], shown') /\ Mute(m, tasks[m], shown' \cup late')
      BY <1>1, <1>3 DEF Honest
    <2>1. Told(m, tasks[m], shown) /\ Mute(m, tasks[m], shown \cup late)
      BY DEF MInv
    <2>2. QED
      BY <1>1, <2>1, ToldGrows, MuteKept DEF Honest
  <1>5. \A x \in shown' \cup late' : x.by \in Accepted
    BY <1>1 DEF Honest, MInv
  <1>6. Cached'
    <2>1. DOMAIN entries' \subseteq DOMAIN entries
             \/ /\ t.delivered /\ Completes(n)'
                /\ DOMAIN entries' \subseteq DOMAIN entries \cup {t.call.key}
      BY <1>2, <1>3, SweepKeepsLive
         DEF GoesOn, Ends, MarkCompleted, dedupVars, Completes, IInv, TypeOK
    <2> SUFFICES ASSUME NEW k \in DOMAIN entries'
                 PROVE  \E m \in Accepted : /\ Completes(m)' /\ tasks'[m].call.key = k
                                            /\ tasks'[m].delivered
      BY <1>3 DEF Cached
    <2>2. CASE k \in DOMAIN entries
      <3>1. PICK m \in Accepted :
               Completes(m) /\ tasks[m].call.key = k /\ tasks[m].delivered
        BY <2>2 DEF MInv, Cached
      <3>2. tasks'[m] = tasks[m]
        BY <1>3, <3>1
      <3>3. QED
        BY <1>3, <3>1, <3>2 DEF Completes
    <2>3. CASE k \notin DOMAIN entries
      BY <1>3, <2>1, <2>3
    <2>4. QED
      BY <2>2, <2>3
  <1>7. QED
    BY <1>3, <1>4, <1>5, <1>6 DEF MInv

(* A restart loses deliveries but leaves what they showed and asked for.   *)
LEMMA RestartKeeps ==
    ASSUME IInv, MInv, Restart
    PROVE  MInv'
  <1> DEFINE Lost(n) == IF Active(n) THEN [tasks[n] EXCEPT !.pc = "lost"] ELSE tasks[n]
  <1>1. /\ Accepted' = Accepted /\ shown' = shown
        /\ \A n \in Accepted : tasks'[n] = Lost(n)
        /\ \E S \in SUBSET UNION {Outstanding(n) : n \in Accepted} : late' = late \cup S
    BY DEF Restart, GivenUp, Accepted
  <1>2. DOMAIN entries' = {}
    BY DEF Restart, FreshCache
  <1>3. \A n \in Accepted :
           /\ Told(n, tasks[n], shown) /\ Mute(n, tasks[n], shown \cup late)
           /\ tasks[n] \in Task /\ Fits(tasks[n])
    BY DEF IInv, TypeOK, Placed, MInv
  <1>4. ASSUME NEW n \in Accepted, NEW x \in Outstanding(n)
        PROVE  x.by = n /\ (x.kind = "text" => tasks[n].pc = "text")
    BY <1>4 DEF Outstanding, Item, At
  <1>5. ASSUME NEW n \in Accepted
        PROVE  Told(n, tasks'[n], shown) /\ Mute(n, tasks'[n], shown \cup late')
    <2>1. CASE Active(n)
      <3> DEFINE t0 == tasks[n]
                 t == [t0 EXCEPT !.pc = "lost"]
      <3>1. tasks'[n] = t
        BY <1>1, <2>1
      <3>2. /\ t.pc = "lost" /\ t.call = t0.call /\ t.tried = t0.tried
            /\ t.sent = t0.sent /\ t.voiceOk = t0.voiceOk /\ t.fetched = t0.fetched
            /\ t.got = t0.got /\ t.attOk = t0.attOk /\ t.delivered = t0.delivered
        BY <1>3 DEF Task
      <3>3. Told(n, t, shown)
        BY <1>3, <3>2 DEF Told
      <3>4. Mute(n, t, shown \cup late')
        BY <1>1, <1>3, <1>4, <3>2 DEF Mute, Told
      <3>5. QED
        BY <3>1, <3>3, <3>4
    <2>2. CASE ~Active(n)
      <3>1. tasks'[n] = tasks[n] /\ tasks[n].pc \notin Waiting
        BY <1>1, <2>2 DEF Active
      <3>2. \A x \in late' : x \in late \/ x.by # n \/ x.kind # "text"
        BY <1>1, <1>4, <3>1 DEF Waiting
      <3>3. QED
        BY <1>3, <3>1, <3>2 DEF Mute
    <2>3. QED
      BY <2>1, <2>2
  <1>6. \A x \in shown' \cup late' : x.by \in Accepted
    BY <1>1, <1>4 DEF MInv
  <1>7. QED
    BY <1>1, <1>2, <1>5, <1>6 DEF MInv, Cached

(* A late arrival, and time, give the user more and claim nothing.         *)
LEMMA WorldKeeps ==
    ASSUME MInv, LateArrival \/ Elapse \/ UNCHANGED vars
    PROVE  MInv'
  <1>1. /\ entries' = entries /\ tasks' = tasks /\ Accepted' = Accepted
        /\ shown \subseteq shown' /\ shown' \cup late' \subseteq shown \cup late
    BY DEF LateArrival, Elapse, Tick, dedupVars, vars, Accepted
  <1>2. \A n \in Accepted : Told(n, tasks[n], shown')
    BY <1>1, ToldGrows DEF MInv
  <1>3. \A n \in Accepted : Mute(n, tasks[n], shown' \cup late')
    BY <1>1 DEF MInv, Mute
  <1>4. Cached'
    BY <1>1 DEF MInv, Cached, Completes
  <1>5. QED
    BY <1>1, <1>2, <1>3, <1>4 DEF MInv

(* The inductive invariant from which the theorems below follow.           *)
THEOREM MediaInvariance == Spec => []MInv
  <1>1. Init => MInv
    BY DEF Init, DedupInit, MInv, Cached, Accepted
  <1>2. IInv /\ MInv /\ [Next]_vars => MInv'
    BY HandleKeeps, StepKeeps, RestartKeeps, WorldKeeps, CallbackAssumption, DedupAssumption
       DEF Next
  <1>3. QED
    BY <1>1, <1>2, Invariance, PTL DEF Spec

(* A key the gateway remembers as delivered stands for a reply the user    *)
(* has in full, whatever failed, arrived late or was lost on the way.      *)
THEOREM CompletedShown == Spec => []CompletedMeansShown
  <1>1. MInv => CompletedMeansShown
    BY DEF MInv, Cached, Told, Whole, CompletedMeansShown, WholeReply
  <1>2. QED
    BY <1>1, MediaInvariance, PTL

(* An acknowledged voice note keeps the text of its reply from ever being  *)
(* sent, before or after it.                                               *)
THEOREM VoiceInsteadOfText == Spec => []VoiceSuppressesText
  <1>1. MInv => VoiceSuppressesText
    BY DEF MInv, Mute, VoiceSuppressesText
  <1>2. QED
    BY <1>1, MediaInvariance, PTL
=============================================================================
