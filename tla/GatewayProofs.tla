--------------------------- MODULE GatewayProofs ---------------------------
(***************************************************************************)
(* Proofs about the two halves of the gateway together, for any messages,  *)
(* envelopes, callbacks, contacts and any number of restarts.              *)
(***************************************************************************)
EXTENDS Gateway, RecipientCacheProofs

RelayProofs == INSTANCE InboundRelayProofs

----------------------------------------------------------------------------
(* The relay in the gateway is the relay of InboundRelay.                  *)

LEMMA IsRelayStep == [Next]_vars => [Inbound!Next]_relayVars
  <1> SUFFICES ASSUME [Next]_vars
               PROVE  [Inbound!Next]_relayVars
    OBVIOUS
  <1>1. CASE Arrives
    BY <1>1 DEF Arrives, Inbound!Next
  <1>2. CASE Relays
    BY <1>2 DEF Relays, Inbound!Next, Inbound!Relay
  <1>3. CASE EyesAnswered
    BY <1>3 DEF EyesAnswered, Inbound!Next, Inbound!Relay
  <1>4. CASE Submits
    BY <1>4 DEF Submits, Inbound!Next
  <1>5. ASSUME NEW d \in Deliveries, CallbackAccepted(d) \/ Delivers(d)
        PROVE  UNCHANGED relayVars
    BY <1>5 DEF CallbackAccepted, Delivers, DeliveryBegins, ProgressSent, ReplySent, FinalReacted,
                relayVars
  <1>6. ASSUME NEW p \in Callers, Resolves(p) PROVE UNCHANGED relayVars
    BY <1>6 DEF Resolves, relayVars
  <1>7. ASSUME NEW m \in Messages, CarriedOutLate(m) PROVE UNCHANGED relayVars
    BY <1>7 DEF CarriedOutLate, relayVars
  <1>8. CASE Stop \/ Kill
    BY <1>8 DEF Stop, Kill, Inbound!Next
  <1>9. CASE ListeningEnds \/ Close
    BY <1>9 DEF ListeningEnds, Close, relayVars
  <1>10. CASE Restart
    BY <1>10 DEF Restart, Inbound!Next
  <1>11. CASE UNCHANGED vars
    BY <1>11 DEF vars, relayVars
  <1>12. QED
    BY <1>1, <1>2, <1>3, <1>4, <1>5, <1>6, <1>7, <1>8, <1>9, <1>10, <1>11 DEF Next

(* The composition, its stops, kills and restarts included, is an instance *)
(* of the relay (app.py:131-161).                                          *)
THEOREM GatewayRelays == Spec => Inbound!Spec
  <1>1. Init => Inbound!Init
    BY DEF Init
  <1>2. [Next]_vars => [Inbound!Next]_Inbound!vars
    BY IsRelayStep DEF Inbound!vars, relayVars
  <1>3. QED
    BY <1>1, <1>2, PTL DEF Spec, Inbound!Spec

(* The relay that is proved about is that relay.                           *)
LEMMA SameRelay ==
    /\ Inbound!Init => RelayProofs!Init
    /\ [Inbound!Next]_relayVars => [RelayProofs!Next]_RelayProofs!vars
  <1>1. Inbound!Init => RelayProofs!Init
    BY DEF Inbound!Init, RelayProofs!Init, Inbound!Idle, RelayProofs!Idle, Inbound!None, RelayProofs!None
  <1>2. \A m : Inbound!Arrive(m) => RelayProofs!Arrive(m)
    BY DEF Inbound!Arrive, RelayProofs!Arrive, Inbound!Elements, RelayProofs!Elements
  <1>3. Inbound!Idle = RelayProofs!Idle /\ Inbound!Request = RelayProofs!Request
    BY DEF Inbound!Idle, RelayProofs!Idle, Inbound!None, RelayProofs!None,
           Inbound!Request, RelayProofs!Request
  <1>4. Inbound!GivenUp => RelayProofs!GivenUp
    BY <1>3 DEF Inbound!GivenUp, RelayProofs!GivenUp
  <1>5. Inbound!Begin => RelayProofs!Begin
    BY <1>3 DEF Inbound!Begin, RelayProofs!Begin
  <1>6. Inbound!Reacted \/ Inbound!Fetched \/ Inbound!FetchRaises
           => RelayProofs!Reacted \/ RelayProofs!Fetched \/ RelayProofs!FetchRaises
    BY <1>3 DEF Inbound!Reacted, Inbound!Fetched, Inbound!FetchRaises,
                RelayProofs!Reacted, RelayProofs!Fetched, RelayProofs!FetchRaises
  <1>7. Inbound!Accepted \/ Inbound!AnswerLost \/ Inbound!Rejected
           => RelayProofs!Accepted \/ RelayProofs!AnswerLost \/ RelayProofs!Rejected
    BY <1>3, <1>4 DEF Inbound!Accepted, Inbound!AnswerLost, Inbound!Rejected,
                      RelayProofs!Accepted, RelayProofs!AnswerLost, RelayProofs!Rejected
  <1>8. Inbound!RateLimited \/ Inbound!Waited => RelayProofs!RateLimited \/ RelayProofs!Waited
    BY <1>3 DEF Inbound!RateLimited, Inbound!Waited, RelayProofs!RateLimited, RelayProofs!Waited
  <1>9. Inbound!Relay => RelayProofs!Relay
    BY <1>5, <1>6, <1>7, <1>8 DEF Inbound!Relay, RelayProofs!Relay
  <1>10. \A r : Inbound!LateRequest(r) => RelayProofs!LateRequest(r)
    BY DEF Inbound!LateRequest, RelayProofs!LateRequest
  <1>11. Inbound!StreamLost \/ Inbound!Stopped => RelayProofs!StreamLost \/ RelayProofs!Stopped
    BY <1>3, <1>4 DEF Inbound!StreamLost, Inbound!Stopped, RelayProofs!StreamLost, RelayProofs!Stopped
  <1>12. Inbound!Next => RelayProofs!Next
    BY <1>2, <1>9, <1>10, <1>11 DEF Inbound!Next, RelayProofs!Next
  <1>13. UNCHANGED relayVars => UNCHANGED RelayProofs!vars
    BY DEF relayVars, RelayProofs!vars
  <1>14. QED
    BY <1>1, <1>12, <1>13

----------------------------------------------------------------------------
(* The two halves use the cache as RecipientCache has it.                  *)

(* The messages on the stream are messages.                                *)
StreamType == stream \in Seq(Messages)

(* The types that the steps of the relay rely on.                          *)
LEMMA RelayingTypes ==
    RelayProofs!RInv => /\ StreamType
                        /\ relay.pc # "idle" => relay.msg \in Messages
  BY DEF RelayProofs!RInv, RelayProofs!TypeOK, RelayProofs!Relaying, RelayProofs!Active, StreamType

(* Every message has an author, and its reply goes to a chat.              *)
LEMMA ChatsOfMessages ==
    ASSUME NEW m \in Messages
    PROVE  /\ ChatId(m) \in Chats /\ UserId(m) \in Chats
           /\ Envelope[m].number \in Numbers \cup {Nothing} /\ Envelope[m].id \in Ids \cup {Nothing}
           /\ Envelope[m].group \in Groups \cup {Nothing}
           /\ Recipient(Body(m)) = ChatId(m)
  <1>1. /\ Envelope[m].number \in Numbers \cup {Nothing} /\ Envelope[m].id \in Ids \cup {Nothing}
        /\ Envelope[m].group \in Groups \cup {Nothing}
        /\ Envelope[m].number # Nothing \/ Envelope[m].id # Nothing
    BY GatewayAssumption
  <1>2. Nothing \notin Chats
    BY CacheAssumption
  <1>3. ChatId(m) \in Chats /\ UserId(m) \in Chats
    BY <1>1, <1>2 DEF ChatId, UserId, Chats
  <1>4. Recipient(Body(m)) = ChatId(m)
    BY <1>1, <1>2 DEF Recipient, Body, ChatId, Chats
  <1>5. QED
    BY <1>1, <1>3, <1>4

(* The relay and the deliveries are callers of the client, all different.  *)
LEMMA CallerTypes ==
    /\ Relayer \in Callers /\ Relayer \notin Deliveries
    /\ \A d \in Deliveries : d \in Callers /\ d[1] \in Messages /\ d[2] \in {"progress", "final"}
  BY GatewayAssumption DEF Relayer

(* Every step of the gateway is a step of the cache, or leaves it alone.   *)
LEMMA IsCacheStep == StreamType /\ [Next]_vars => [CacheNext]_cacheVars
  <1> SUFFICES ASSUME StreamType, [Next]_vars
               PROVE  [CacheNext]_cacheVars
    OBVIOUS
  <1>1. CASE Arrives \/ Submits
    BY <1>1 DEF Arrives, Submits, Outside
  <1>2. CASE Relays
    <2> DEFINE m == Head(stream)
    <2>1. m \in Messages
      BY <1>2, HeadTailProperties DEF Relays, Inbound!Begin, StreamType
    <2>2. CallOnReceipt(Relayer, ChatId(m), Envelope[m].number, Envelope[m].id)
      BY <1>2 DEF Relays
    <2>3. QED
      BY <2>1, <2>2, ChatsOfMessages, CallerTypes DEF CacheNext
  <1>3. CASE EyesAnswered
    BY <1>3, CallerTypes DEF EyesAnswered, CacheNext
  <1>4. ASSUME NEW d \in Deliveries, CallbackAccepted(d) PROVE UNCHANGED cacheVars
    BY <1>4 DEF CallbackAccepted
  <1>5. ASSUME NEW d \in Deliveries, Delivers(d) PROVE CacheNext
    <2>1. d \in Callers /\ Recipient(Body(d[1])) \in Chats
      BY ChatsOfMessages, CallerTypes
    <2>2. PlainCall(d, Recipient(Body(d[1]))) \/ Answered(d)
      BY <1>5 DEF Delivers, DeliveryBegins, ProgressSent, ReplySent, FinalReacted
    <2>3. QED
      BY <2>1, <2>2 DEF CacheNext
  <1>6. ASSUME NEW p \in Callers, Resolves(p) PROVE CacheNext
    BY <1>6 DEF Resolves, CacheNext
  <1>7. ASSUME NEW m \in Messages, CarriedOutLate(m) PROVE UNCHANGED cacheVars
    BY <1>7 DEF CarriedOutLate
  <1>8. CASE Stop
    BY <1>8, CallerTypes DEF Stop, CacheNext
  <1>9. CASE Kill \/ Restart
    BY <1>9 DEF Kill, Restart, CacheNext
  <1>10. CASE ListeningEnds \/ Close
    BY <1>10 DEF ListeningEnds, Close
  <1>11. CASE UNCHANGED vars
    BY <1>11 DEF vars
  <1>12. QED
    BY <1>1, <1>2, <1>3, <1>4, <1>5, <1>6, <1>7, <1>8, <1>9, <1>10, <1>11 DEF Next

----------------------------------------------------------------------------
(* Who is calling whom, and what has been done.                            *)

Has(m) == \E k \in DOMAIN worker : worker[k].msg = m

(* A task has a call out only while its half of the gateway is at one, and *)
(* a delivery's call goes to the chat of its message.                      *)
OwnCalls ==
    /\ client[Relayer].pc # "idle" => phase = "running"
    /\ \A d \in Deliveries : client[d].pc # "idle" =>
          delivery[d] \in {"sending", "reacting"} /\ client[d].chat = ChatId(d[1])

(* Nothing is underway when the process is not there.                      *)
Settled == phase \in {"closed", "killed"} => Underway = {}

(* What is answered was taken in by the worker.                            *)
WorkedOn ==
    /\ \A d \in Deliveries : delivery[d] # "none" => Has(d[1])
    /\ \A m \in Messages : mark[m] = "final" => Has(m)

Types ==
    /\ phase \in {"running", "stopping", "draining", "closed", "killed"}
    /\ delivery \in [Deliveries -> {"none", "accepted", "sending", "reacting", "over"}]
    /\ mark \in [Messages -> {"none", "eyes", "overdue", "final"}]
    /\ limbo \subseteq Messages
    /\ restarts \in 0 .. MaxRestarts

GInv == RelayProofs!RInv /\ CacheInv /\ Types /\ OwnCalls /\ Settled /\ WorkedOn

(* What the actions of the cache do to the calls.                          *)
LEMMA ClientType == CacheInv => client \in [Callers -> Client]
  BY DEF CacheInv, CacheTypeOK, Client, Waiting, Speaking

(* A call is for its chat, and changes no other call.                      *)
LEMMA CallEffect ==
    ASSUME CacheInv, NEW p \in Callers, NEW c, NEW known, Call(p, c, known)
    PROVE  /\ client'[p].chat = c
           /\ \A q \in Callers : q # p => client'[q] = client[q]
  BY ClientType DEF Call, NowAt

(* An answer or an abandoned call ends this call and no other.             *)
LEMMA AnswerEffect ==
    ASSUME CacheInv, NEW p \in Callers, Answered(p) \/ Abandon(p)
    PROVE  /\ client'[p].pc = "idle"
           /\ \A q \in Callers : q # p => client'[q] = client[q]
  BY ClientType DEF Answered, Abandon, NoCall

(* While a number is looked up, the chat of a call stays what it is.       *)
LEMMA ResolveEffect ==
    ASSUME CacheInv, NEW p \in Callers, LockGranted(p) \/ ContactsAnswered(p)
    PROVE  /\ client[p].pc # "idle" /\ client'[p].chat = client[p].chat
           /\ \A q \in Callers : q # p => client'[q] = client[q]
  <1>1. client \in [Callers -> Client]
    BY ClientType
  <1>2. CASE LockGranted(p)
    <2>1. queue \in Seq(Callers) /\ queue # << >> /\ Head(queue) = p /\ Distinct(queue)
      BY <1>2 DEF LockGranted, CacheInv, CacheTypeOK, LockExact, Distinct
    <2>2. client[p].pc = "lock"
      BY <2>1, LeaveHead DEF InLine, CacheInv, LockExact
    <2>3. QED
      BY <1>1, <1>2, <2>2 DEF LockGranted, NowAt
  <1>3. CASE ContactsAnswered(p)
    BY <1>1, <1>3 DEF ContactsAnswered, NowAt
  <1>4. QED
    BY <1>2, <1>3

(* When the client goes, so do all calls.                                  *)
LEMMA GoneEffect ==
    ASSUME CacheGone
    PROVE  \A q \in Callers : client'[q].pc = "idle"
  BY DEF CacheGone, NoCall

(* What the worker has, it keeps.                                          *)
LEMMA WorkerKeeps ==
    ASSUME RelayProofs!RInv, [Next]_vars
    PROVE  \A m : Has(m) => Has(m)'
  <1>1. worker \in Seq([msg : Messages, audio : BOOLEAN])
    BY DEF RelayProofs!RInv, RelayProofs!TypeOK
  <1>2. \/ worker' = worker
        \/ \E r : r \in [msg : Messages, audio : BOOLEAN] /\ worker' = Append(worker, r)
    <2>1. Inbound!Request \in [msg : Messages, audio : BOOLEAN] \/ relay.pc # "posting"
      BY RelayingTypes DEF Inbound!Request, RelayProofs!RInv, RelayProofs!TypeOK
    <2>2. late \subseteq [msg : Messages, audio : BOOLEAN]
      BY DEF RelayProofs!RInv, RelayProofs!TypeOK
    <2>3. [Inbound!Next]_relayVars
      BY IsRelayStep
    <2>4. CASE Inbound!Relay
      BY <2>1, <2>4 DEF Inbound!Relay, Inbound!Begin, Inbound!Reacted, Inbound!Fetched,
         Inbound!FetchRaises, Inbound!Accepted, Inbound!AnswerLost, Inbound!GivenUp,
         Inbound!Rejected, Inbound!RateLimited, Inbound!Waited
    <2>5. CASE Inbound!StreamLost \/ Inbound!Stopped
      BY <2>1, <2>5 DEF Inbound!StreamLost, Inbound!Stopped, Inbound!GivenUp
    <2>6. CASE \E m \in Messages : Inbound!Arrive(m)
      BY <2>6 DEF Inbound!Arrive
    <2>7. CASE \E r \in late : Inbound!LateRequest(r)
      BY <2>2, <2>7 DEF Inbound!LateRequest
    <2>8. CASE UNCHANGED relayVars
      BY <2>8 DEF relayVars
    <2>9. QED
      BY <2>3, <2>4, <2>5, <2>6, <2>7, <2>8 DEF Inbound!Next
  <1>3. CASE worker' = worker
    BY <1>3 DEF Has
  <1>4. ASSUME NEW r \in [msg : Messages, audio : BOOLEAN], worker' = Append(worker, r)
        PROVE  \A k \in DOMAIN worker : k \in DOMAIN worker' /\ worker'[k] = worker[k]
    <2>1. /\ Len(worker) \in Nat /\ DOMAIN worker = 1 .. Len(worker)
          /\ Len(worker') = Len(worker) + 1 /\ DOMAIN worker' = 1 .. Len(worker')
          /\ \A k \in 1 .. Len(worker) : worker'[k] = worker[k]
      BY <1>1, <1>4, AppendProperties, LenProperties
    <2>2. QED
      BY <2>1
  <1>5. QED
    BY <1>2, <1>3, <1>4 DEF Has

----------------------------------------------------------------------------
(* The parts of GInv under every step.                                     *)

LEMMA TypesNext ==
    ASSUME RelayProofs!RInv, Types, [Next]_vars
    PROVE  Types'
  <1>1. CASE Arrives \/ Submits
    BY <1>1 DEF Arrives, Submits, Outside, Types, markVars
  <1>2. CASE Relays
    BY <1>2 DEF Relays, Types, markVars
  <1>3. CASE EyesAnswered
    <2>1. ReactionEnds(relay.msg, "eyes") /\ UNCHANGED <<phase, delivery, restarts>>
      BY <1>3 DEF EyesAnswered
    <2>2. relay.msg \in Messages
      BY <1>3, RelayingTypes DEF EyesAnswered, Inbound!Reacted
    <2>3. mark' \in [Messages -> {"none", "eyes", "overdue", "final"}]
      BY <2>1 DEF ReactionEnds, Types
    <2>4. QED
      BY <2>1, <2>2, <2>3 DEF ReactionEnds, Types
  <1>4. ASSUME NEW d \in Deliveries, CallbackAccepted(d) PROVE Types'
    BY <1>4 DEF CallbackAccepted, Types, markVars
  <1>5. ASSUME NEW d \in Deliveries, Delivers(d) PROVE Types'
    <2>1. UNCHANGED <<phase, restarts>>
      BY <1>5 DEF Delivers, DeliveryBegins, ProgressSent, ReplySent, FinalReacted
    <2>2. delivery' \in [Deliveries -> {"none", "accepted", "sending", "reacting", "over"}]
      BY <1>5 DEF Delivers, DeliveryBegins, ProgressSent, ReplySent, FinalReacted, Types
    <2>3. UNCHANGED <<mark, limbo>> \/ ReactionEnds(d[1], "final")
      BY <1>5 DEF Delivers, DeliveryBegins, ProgressSent, ReplySent, FinalReacted, markVars
    <2>4. mark' \in [Messages -> {"none", "eyes", "overdue", "final"}] /\ limbo' \subseteq Messages
      BY <2>3, CallerTypes DEF ReactionEnds, Types
    <2>5. QED
      BY <2>1, <2>2, <2>4 DEF Types
  <1>6. ASSUME NEW p \in Callers, Resolves(p) PROVE Types'
    BY <1>6 DEF Resolves, Types, markVars
  <1>7. ASSUME NEW m \in Messages, CarriedOutLate(m) PROVE Types'
    BY <1>7 DEF CarriedOutLate, Types
  <1>8. CASE Stop
    BY <1>8 DEF Stop, Types, EyesInFlight
  <1>9. CASE Kill
    <2>1. delivery' \in [Deliveries -> {"none", "accepted", "sending", "reacting", "over"}]
      BY <1>9 DEF Kill, Types
    <2>2. QED
      BY <1>9, <2>1 DEF Kill, Types, EyesInFlight
  <1>10. CASE Restart
    BY <1>10, GatewayAssumption DEF Restart, Types, markVars
  <1>11. CASE ListeningEnds \/ Close
    BY <1>11 DEF ListeningEnds, Close, Types, markVars
  <1>12. CASE UNCHANGED vars
    BY <1>12 DEF vars, Types, markVars
  <1>13. QED
    BY <1>1, <1>2, <1>3, <1>4, <1>5, <1>6, <1>7, <1>8, <1>9, <1>10, <1>11, <1>12 DEF Next

(* Every step keeps the calls with the tasks that made them.               *)
LEMMA OwnCallsNext ==
    ASSUME CacheInv, Types, OwnCalls, [Next]_vars
    PROVE  OwnCalls'
  <1>1. CASE Arrives \/ Submits
    BY <1>1 DEF Arrives, Submits, Outside, OwnCalls, cacheVars
  <1>2. CASE Relays
    <2>1. /\ Call(Relayer, ChatId(Head(stream)), uuidByNumber')
          /\ phase' = "running" /\ delivery' = delivery
      BY <1>2 DEF Relays, CallOnReceipt
    <2>2. \A q \in Callers : q # Relayer => client'[q] = client[q]
      BY <2>1, CallEffect, CallerTypes
    <2>3. QED
      BY <2>1, <2>2, CallerTypes DEF OwnCalls
  <1>3. CASE EyesAnswered
    BY <1>3, AnswerEffect, CallerTypes DEF EyesAnswered, OwnCalls
  <1>4. ASSUME NEW d \in Deliveries, CallbackAccepted(d) PROVE OwnCalls'
    BY <1>4 DEF CallbackAccepted, OwnCalls, Types, cacheVars
  <1>5. ASSUME NEW d \in Deliveries, DeliveryBegins(d) \/ ReplySent(d) PROVE OwnCalls'
    <2>1. /\ Call(d, ChatId(d[1]), uuidByNumber) /\ phase' = phase
          /\ delivery'[d] \in {"sending", "reacting"}
          /\ \A e \in Deliveries : e # d => delivery'[e] = delivery[e]
      BY <1>5, ChatsOfMessages, CallerTypes
      DEF DeliveryBegins, ReplySent, PlainCall, Types
    <2>2. /\ client'[d].chat = ChatId(d[1])
          /\ \A q \in Callers : q # d => client'[q] = client[q]
      BY <2>1, CallEffect, CallerTypes
    <2>3. QED
      BY <2>1, <2>2, CallerTypes DEF OwnCalls
  <1>6. ASSUME NEW d \in Deliveries, ProgressSent(d) \/ FinalReacted(d) PROVE OwnCalls'
    <2>1. /\ Answered(d) /\ phase' = phase
          /\ \A e \in Deliveries : e # d => delivery'[e] = delivery[e]
      BY <1>6 DEF ProgressSent, FinalReacted, Types
    <2>2. /\ client'[d].pc = "idle"
          /\ \A q \in Callers : q # d => client'[q] = client[q]
      BY <2>1, AnswerEffect, CallerTypes
    <2>3. QED
      BY <2>1, <2>2, CallerTypes DEF OwnCalls
  <1>7. ASSUME NEW p \in Callers, Resolves(p) PROVE OwnCalls'
    <2>1. /\ client[p].pc # "idle" /\ client'[p].chat = client[p].chat
          /\ \A q \in Callers : q # p => client'[q] = client[q]
          /\ UNCHANGED <<phase, delivery>>
      BY <1>7, ResolveEffect DEF Resolves
    <2>2. QED
      BY <2>1, CallerTypes DEF OwnCalls
  <1>8. ASSUME NEW m \in Messages, CarriedOutLate(m) PROVE OwnCalls'
    BY <1>8 DEF CarriedOutLate, OwnCalls, cacheVars
  <1>9. CASE Stop
    BY <1>9, AnswerEffect, CallerTypes DEF Stop, OwnCalls
  <1>10. CASE Kill \/ Restart
    BY <1>10, GoneEffect, CallerTypes DEF Kill, Restart, OwnCalls
  <1>11. CASE ListeningEnds \/ Close
    BY <1>11 DEF ListeningEnds, Close, OwnCalls, cacheVars
  <1>12. CASE UNCHANGED vars
    BY <1>12 DEF vars, OwnCalls, cacheVars
  <1>13. QED
    BY <1>1, <1>2, <1>3, <1>4, <1>5, <1>6, <1>7, <1>8, <1>9, <1>10, <1>11, <1>12 DEF Next, Delivers

(* Every step keeps that nothing is underway once the process is gone.     *)
LEMMA SettledNext ==
    ASSUME Types, Settled, [Next]_vars
    PROVE  Settled'
  <1>1. CASE Arrives \/ Submits
    BY <1>1 DEF Arrives, Submits, Outside, Settled, Underway
  <1>2. CASE Relays \/ EyesAnswered
    BY <1>2 DEF Relays, EyesAnswered, Settled, Underway
  <1>3. ASSUME NEW d \in Deliveries, CallbackAccepted(d) PROVE Settled'
    BY <1>3 DEF CallbackAccepted, Settled
  <1>4. ASSUME NEW d \in Deliveries, Delivers(d) PROVE Settled'
    BY <1>4 DEF Delivers, DeliveryBegins, ProgressSent, ReplySent, FinalReacted, Settled, Underway
  <1>5. ASSUME NEW p \in Callers, Resolves(p) PROVE Settled'
    BY <1>5 DEF Resolves, Settled, Underway
  <1>6. ASSUME NEW m \in Messages, CarriedOutLate(m) PROVE Settled'
    BY <1>6 DEF CarriedOutLate, Settled, Underway
  <1>7. CASE Stop \/ ListeningEnds \/ Close \/ Restart
    BY <1>7 DEF Stop, ListeningEnds, Close, Restart, Settled, Underway
  <1>8. CASE Kill
    BY <1>8 DEF Kill, Settled, Underway, Types
  <1>9. CASE UNCHANGED vars
    BY <1>9 DEF vars, Settled, Underway
  <1>10. QED
    BY <1>1, <1>2, <1>3, <1>4, <1>5, <1>6, <1>7, <1>8, <1>9 DEF Next

(* Every step keeps that the worker has taken in what is answered.         *)
LEMMA WorkedOnNext ==
    ASSUME RelayProofs!RInv, Types, WorkedOn, [Next]_vars
    PROVE  WorkedOn'
  <1> DEFINE Old == /\ \A d \in Deliveries : delivery'[d] # "none" => delivery[d] # "none"
                    /\ \A m \in Messages : mark'[m] = "final" => mark[m] = "final"
  <1>1. \A m : Has(m) => Has(m)'
    BY WorkerKeeps
  <1>2. CASE Old
    BY <1>1, <1>2 DEF WorkedOn
  <1>3. CASE Arrives \/ Relays \/ Submits
    BY <1>2, <1>3 DEF Arrives, Relays, Submits, Outside, markVars
  <1>4. CASE EyesAnswered
    BY <1>2, <1>4 DEF EyesAnswered, ReactionEnds, Types
  <1>5. ASSUME NEW d \in Deliveries, CallbackAccepted(d) PROVE WorkedOn'
    <2>1. Has(d[1]) /\ mark' = mark /\ \A e \in Deliveries : e # d => delivery'[e] = delivery[e]
      BY <1>5 DEF CallbackAccepted, Has, markVars, Types
    <2>2. QED
      BY <1>1, <2>1 DEF WorkedOn
  <1>6. ASSUME NEW d \in Deliveries, Delivers(d) PROVE WorkedOn'
    <2>1. /\ delivery[d] # "none" /\ d[1] \in Messages
          /\ \A e \in Deliveries : e # d => delivery'[e] = delivery[e]
          /\ \A m \in Messages : mark'[m] = "final" => mark[m] = "final" \/ m = d[1]
      BY <1>6, CallerTypes DEF Delivers, DeliveryBegins, ProgressSent, ReplySent, FinalReacted,
                               ReactionEnds, markVars, Types
    <2>2. QED
      BY <1>1, <2>1 DEF WorkedOn
  <1>7. ASSUME NEW p \in Callers, Resolves(p) PROVE WorkedOn'
    BY <1>2, <1>7 DEF Resolves, markVars
  <1>8. ASSUME NEW m \in Messages, CarriedOutLate(m) PROVE WorkedOn'
    BY <1>2, <1>8 DEF CarriedOutLate, Types
  <1>9. CASE Stop \/ ListeningEnds \/ Close \/ Restart
    BY <1>2, <1>9 DEF Stop, ListeningEnds, Close, Restart, markVars
  <1>10. CASE Kill
    BY <1>2, <1>10 DEF Kill, Underway
  <1>11. CASE UNCHANGED vars
    BY <1>2, <1>11 DEF vars, markVars
  <1>12. QED
    BY <1>3, <1>4, <1>5, <1>6, <1>7, <1>8, <1>9, <1>10, <1>11 DEF Next

----------------------------------------------------------------------------
(* The two halves together.                                                *)
LEMMA GInvInit == Init => GInv
  <1>1. Voice \subseteq Messages /\ MaxAttempts \in Nat \ {0}
    BY GatewayAssumption
  <1>2. Init => RelayProofs!RInv
    BY <1>1, SameRelay, RelayProofs!InitRInv DEF Init
  <1>3. Init => CacheInv
    BY CacheInvInit, CacheAssumption DEF Init
  <1>4. Init => Types /\ OwnCalls /\ Settled /\ WorkedOn
    BY GatewayAssumption, CallerTypes
    DEF Init, CacheInit, NoCall, Types, OwnCalls, Settled, WorkedOn
  <1>5. QED
    BY <1>2, <1>3, <1>4 DEF GInv

(* Every step preserves the inductive invariant.                           *)
LEMMA GInvNext == GInv /\ [Next]_vars => GInv'
  <1> SUFFICES ASSUME GInv, [Next]_vars
               PROVE  GInv'
    OBVIOUS
  <1>1. RelayProofs!RInv'
    <2>1. Voice \subseteq Messages /\ MaxAttempts \in Nat \ {0}
      BY GatewayAssumption
    <2>2. QED
      BY <2>1, IsRelayStep, SameRelay, RelayProofs!RInvNext DEF GInv
  <1>2. CacheInv'
    BY IsCacheStep, RelayingTypes, CacheInvNext, CacheAssumption DEF GInv
  <1>3. Types' /\ OwnCalls' /\ Settled' /\ WorkedOn'
    BY TypesNext, OwnCallsNext, SettledNext, WorkedOnNext DEF GInv
  <1>4. QED
    BY <1>1, <1>2, <1>3 DEF GInv

(* The inductive invariant from which the theorems below follow.           *)
THEOREM GatewayInvariant == Spec => []GInv
  BY GInvInit, GInvNext, PTL DEF Spec

(* The composition uses the cache as any callers might, so that all that   *)
(* is proved of RecipientCache holds in the gateway.                       *)
THEOREM GatewayUsesCache == Spec => CacheSpec
  <1>1. Init => CacheInit
    BY DEF Init
  <1>2. GInv /\ [Next]_vars => [CacheNext]_cacheVars
    BY IsCacheStep, RelayingTypes DEF GInv
  <1>3. QED
    BY <1>1, <1>2, GatewayInvariant, PTL DEF Spec, CacheSpec

(* Whatever the gateway sends goes to the right person                     *)
(* (signal_client.py:311-367).                                             *)
THEOREM GatewayRightPerson == Spec => []RightPerson
  BY GatewayUsesCache, CacheRightPerson, PTL

(* No failure, stop or kill leaves the lock taken, and nobody waits twice  *)
(* (signal_client.py:354-367).                                             *)
THEOREM GatewayLockExact == Spec => []LockExact
  BY GatewayUsesCache, CacheLockExact, PTL

(* The contacts are listed only for a number that is unknown               *)
(* (signal_client.py:349-358).                                             *)
THEOREM GatewayNoNeedlessLookup == Spec => NoNeedlessLookup
  BY GatewayUsesCache, CacheNoNeedlessLookup, PTL

(* The state has its type.                                                 *)
THEOREM GatewayTypeOK == Spec => []TypeOK
  <1>1. RelayProofs!TypeOK => Inbound!TypeOK
    BY DEF RelayProofs!TypeOK, Inbound!TypeOK, RelayProofs!None, Inbound!None
  <1>2. GInv => TypeOK
    BY <1>1 DEF GInv, RelayProofs!RInv, CacheInv, Types, TypeOK
  <1>3. QED
    BY <1>2, GatewayInvariant, PTL

(* The clients are closed when no call is out and every callback that was  *)
(* accepted has been carried out (app.py:151-161).                         *)
THEOREM GatewayClosedLast == Spec => []ClosedLast
  <1>1. GInv => ClosedLast
    <2>1. SUFFICES ASSUME GInv, phase = "closed"
                   PROVE  (\A p \in Callers : client[p].pc = "idle") /\ Underway = {}
      BY DEF ClosedLast
    <2>2. Underway = {}
      BY <2>1 DEF GInv, Settled
    <2>3. client[Relayer].pc = "idle"
      BY <2>1 DEF GInv, OwnCalls
    <2>4. ASSUME NEW d \in Deliveries PROVE client[d].pc = "idle"
      BY <2>1, <2>2 DEF GInv, OwnCalls, Underway
    <2>5. QED
      BY <2>2, <2>3, <2>4, GatewayAssumption
  <1>2. QED
    BY <1>1, GatewayInvariant, PTL

(* A reply goes where its message came from (dispatch.py:142-144,          *)
(* engine_client.py:88-92, signal_client.py:336-367).                      *)
THEOREM GatewayAnswersWhereAsked == Spec => []AnsweredWhereAsked
  <1>1. GInv => AnsweredWhereAsked
    <2>1. SUFFICES ASSUME GInv, NEW d \in Deliveries, client[d].pc = "rpc"
                   PROVE  IF Envelope[d[1]].group # Nothing THEN client[d].to = Envelope[d[1]].group
                          ELSE \/ client[d].to \in {Envelope[d[1]].number, Envelope[d[1]].id}
                               \/ <<Envelope[d[1]].number, client[d].to>> \in told
      BY DEF AnsweredWhereAsked
    <2>2. client[d].chat = ChatId(d[1]) /\ d \in Callers /\ d[1] \in Messages
      BY <2>1, CallerTypes DEF GInv, OwnCalls
    <2>3. \/ client[d].to = client[d].chat
          \/ client[d].chat \in Numbers /\ <<client[d].chat, client[d].to>> \in told
      BY <2>1, <2>2 DEF GInv, CacheInv, RightPerson
    <2>4. /\ Envelope[d[1]].number \in Numbers \cup {Nothing}
          /\ Envelope[d[1]].id \in Ids \cup {Nothing}
          /\ Envelope[d[1]].group \in Groups \cup {Nothing}
      BY <2>2, ChatsOfMessages
    <2>5. Numbers \cap Ids = {} /\ Numbers \cap Groups = {}
      BY CacheAssumption
    <2>6. CASE Envelope[d[1]].group # Nothing
      BY <2>2, <2>3, <2>4, <2>5, <2>6 DEF ChatId
    <2>7. CASE Envelope[d[1]].group = Nothing
      BY <2>2, <2>3, <2>4, <2>5, <2>7 DEF ChatId, UserId
    <2>8. QED
      BY <2>6, <2>7
  <1>2. QED
    BY <1>1, GatewayInvariant, PTL

(* No timely 👀 replaces the reaction to a reply: while one is out, the    *)
(* worker has not had the message (app.py:46-80, dispatch.py:147-173).     *)
THEOREM GatewayFinalReactionStays == Spec => FinalReactionStays
  <1>1. ASSUME GInv, [Next]_vars, NEW m \in Messages, mark[m] = "final"
        PROVE  mark'[m] \in {"final", "overdue"}
    <2>1. Has(m)
      BY <1>1 DEF GInv, WorkedOn
    <2>2. mark \in [Messages -> {"none", "eyes", "overdue", "final"}]
      BY <1>1 DEF GInv, Types
    <2>3. CASE EyesAnswered
      <3>1. relay.pc = "reacting" /\ ReactionEnds(relay.msg, "eyes")
        BY <2>3 DEF EyesAnswered, Inbound!Reacted
      <3>2. m # relay.msg
        BY <1>1, <2>1, <3>1, GatewayAssumption, RelayProofs!ActiveIsNew
        DEF GInv, RelayProofs!Active, Has
      <3>3. QED
        BY <1>1, <2>2, <3>1, <3>2 DEF ReactionEnds
    <2>4. ASSUME NEW d \in Deliveries, CallbackAccepted(d) \/ Delivers(d)
          PROVE  mark'[m] \in {"final", "overdue"}
      BY <1>1, <2>2, <2>4 DEF CallbackAccepted, Delivers, DeliveryBegins, ProgressSent, ReplySent,
                              FinalReacted, ReactionEnds, markVars
    <2>5. ASSUME NEW n \in Messages, CarriedOutLate(n) PROVE mark'[m] \in {"final", "overdue"}
      BY <1>1, <2>2, <2>5 DEF CarriedOutLate
    <2>6. CASE mark' = mark
      BY <1>1, <2>6
    <2>7. QED
      BY <1>1, <2>3, <2>4, <2>5, <2>6
      DEF Next, Arrives, Relays, Submits, Outside, Resolves, Stop, ListeningEnds, Close, Kill, Restart,
          vars, markVars
  <1>2. GInv /\ [Next]_vars => [\A m \in Messages : mark[m] = "final" => mark'[m] \in {"final", "overdue"}]_vars
    BY <1>1
  <1>3. QED
    BY <1>2, GatewayInvariant, PTL DEF Spec, FinalReactionStays
=============================================================================
