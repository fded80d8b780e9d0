------------------------------ MODULE Gateway ------------------------------
(***************************************************************************)
(* The two halves of the gateway in one process (app.py), around the       *)
(* SignalClient they share: the relay of InboundRelay, which reacts with   *)
(* 👀 before it hands a message to the worker, and the deliveries of the   *)
(* callback server, which send the reply and put ✅ or ❌ in its place.  The *)
(* process is stopped, drains, and is started again.                       *)
(*                                                                         *)
(* A delivery is one text sent and, unless it is progress, one reaction;   *)
(* CallbackServer has what becomes of its parts.                           *)
(***************************************************************************)
EXTENDS RecipientCache

CONSTANTS
    Messages, Voice, MaxAttempts,   \* see InboundRelay
    Envelope,       \* of every message: its number, its service id, its group
    Deliveries,     \* the callbacks of the worker: a message and what it is told of it
    MaxRestarts     \* bound on the ends of the process

Relayer == <<"relay", "eyes">>

ASSUME GatewayAssumption ==
    /\ Voice \subseteq Messages /\ MaxAttempts \in Nat \ {0}
    /\ Deliveries \subseteq Messages \X {"progress", "final"}
    /\ Callers = {Relayer} \cup Deliveries
    /\ \A m \in Messages :
          /\ Envelope[m] \in [number : Numbers \cup {Nothing}, id : Ids \cup {Nothing},
                              group : Groups \cup {Nothing}]
          /\ Envelope[m].number # Nothing \/ Envelope[m].id # Nothing
    /\ MaxRestarts \in Nat

VARIABLES
    arrived, stream, relay, worker, late, acked,    \* see InboundRelay
    phase,      \* of the process
    delivery,   \* the background tasks of the callback server
    mark,       \* the gateway's reaction on every message
    limbo,      \* the messages whose 👀 failed and may yet be carried out
    restarts    \* the number of ends so far

relayVars == <<arrived, stream, relay, worker, late, acked>>
markVars == <<mark, limbo>>
vars == <<cacheVars, relayVars, markVars, phase, delivery, restarts>>

Inbound == INSTANCE InboundRelay

Init ==
    /\ CacheInit
    /\ Inbound!Init
    /\ phase = "running"
    /\ delivery = [d \in Deliveries |-> "none"]
    /\ mark = [m \in Messages |-> "none"]
    /\ limbo = {}
    /\ restarts = 0

----------------------------------------------------------------------------
(* Where a reply goes: what parse_envelope makes of an envelope, what the  *)
(* worker is told of it, and what its callback carries.                    *)

UserId(m) == IF Envelope[m].id # Nothing THEN Envelope[m].id ELSE Envelope[m].number
ChatId(m) == IF Envelope[m].group # Nothing THEN Envelope[m].group ELSE UserId(m)

Body(m) == [user |-> UserId(m),
            chat |-> IF Envelope[m].group # Nothing THEN ChatId(m) ELSE Nothing]

RecipientOfUser(payload) == payload.user    \* mutant: always the author

Recipient(payload) == IF payload.chat # Nothing THEN payload.chat ELSE payload.user

----------------------------------------------------------------------------
(* A sendReaction call ends: it was carried out, or it was refused or given *)
(* up after its timeout.  What was given up may yet be carried out, and    *)
(* stays in limbo until it is, if ever; for ✅ and ❌ it makes no difference. *)
ReactionEnds(m, with) ==
    \/ mark' = [mark EXCEPT ![m] = with] /\ UNCHANGED limbo
    \/ /\ limbo' = IF with = "eyes" THEN limbo \cup {m} ELSE limbo
       /\ UNCHANGED mark

CarriedOutLate(m) ==
    /\ m \in limbo
    /\ limbo' = limbo \ {m}
    /\ mark' = [mark EXCEPT ![m] = "overdue"]
    /\ UNCHANGED <<cacheVars, relayVars, phase, delivery, restarts>>

----------------------------------------------------------------------------
(* The listener's half.                                                    *)

Outside == UNCHANGED <<cacheVars, markVars, phase, delivery, restarts>>

Arrives == (\E m \in Messages : Inbound!Arrive(m)) /\ Outside

(* _dispatch: the identifiers are remembered and the handler asks for 👀.  *)
Relays ==
    /\ phase = "running"
    /\ Inbound!Begin
    /\ LET m == Head(stream)
       IN  CallOnReceipt(Relayer, ChatId(m), Envelope[m].number, Envelope[m].id)
    /\ UNCHANGED <<markVars, phase, delivery, restarts>>

EyesNotAwaited ==           \* mutant: 👀 in a task of its own
    /\ UNCHANGED <<phase, delivery, restarts>>
    /\ \/ Inbound!Reacted /\ UNCHANGED <<cacheVars, markVars>>
       \/ /\ relay.pc = "idle" /\ Answered(Relayer)
          /\ \E m \in Messages : ChatId(m) = client[Relayer].chat /\ ReactionEnds(m, "eyes")
          /\ UNCHANGED relayVars

EyesAnswered ==
    /\ Inbound!Reacted
    /\ Answered(Relayer)
    /\ ReactionEnds(relay.msg, "eyes")
    /\ UNCHANGED <<phase, delivery, restarts>>

Submits ==
    /\ \/ relay.pc \notin {"idle", "reacting"} /\ Inbound!Relay
       \/ \E r \in late : Inbound!LateRequest(r)
       \/ Inbound!StreamLost
    /\ Outside

----------------------------------------------------------------------------
(* The callback server's half.                                             *)

(* The worker posts a callback for a message it has taken in; it is        *)
(* accepted as long as the server listens.  Repeats are in CallbackServer.  *)
CallbackAccepted(d) ==
    /\ phase \in {"running", "stopping"}
    /\ \E k \in DOMAIN worker : worker[k].msg = d[1]
    /\ delivery[d] = "none"
    /\ delivery' = [delivery EXCEPT ![d] = "accepted"]
    /\ UNCHANGED <<cacheVars, relayVars, markVars, phase, restarts>>

(* dispatch_callback sends the text.                                       *)
DeliveryBegins(d) ==
    /\ delivery[d] = "accepted"
    /\ delivery' = [delivery EXCEPT ![d] = "sending"]
    /\ PlainCall(d, Recipient(Body(d[1])))
    /\ UNCHANGED <<relayVars, markVars, phase, restarts>>

ProgressSent(d) ==
    /\ delivery[d] = "sending" /\ d[2] = "progress"
    /\ delivery' = [delivery EXCEPT ![d] = "over"]
    /\ Answered(d)
    /\ UNCHANGED <<relayVars, markVars, phase, restarts>>

(* Whether or not the text was sent, the reaction is next.                 *)
ReplySent(d) ==
    /\ delivery[d] = "sending" /\ d[2] = "final"
    /\ client[d].pc = "rpc"
    /\ delivery' = [delivery EXCEPT ![d] = "reacting"]
    /\ PlainCall(d, Recipient(Body(d[1])))
    /\ UNCHANGED <<relayVars, markVars, phase, restarts>>

FinalReacted(d) ==
    /\ delivery[d] = "reacting"
    /\ Answered(d)
    /\ ReactionEnds(d[1], "final")
    /\ delivery' = [delivery EXCEPT ![d] = "over"]
    /\ UNCHANGED <<relayVars, phase, restarts>>

----------------------------------------------------------------------------
(* Both halves resolve recipients on the way.                              *)
Resolves(p) ==
    /\ LockGranted(p) \/ ContactsAnswered(p)
    /\ UNCHANGED <<relayVars, markVars, phase, delivery, restarts>>

(* A 👀 that is out when its task ends.                                    *)
EyesInFlight == {relay.msg} \cap {m \in Messages : client[Relayer].pc = "rpc"}

----------------------------------------------------------------------------
(* run().                                                                  *)

(* SIGTERM, or one half has failed: the listener is cancelled.             *)
Stop ==
    /\ phase = "running"
    /\ phase' = "stopping"
    /\ Inbound!Stopped
    /\ Abandon(Relayer)
    /\ limbo' = limbo \cup EyesInFlight
    /\ UNCHANGED <<mark, delivery, restarts>>

(* The server notices should_exit and closes its sockets.                  *)
ListeningEnds ==
    /\ phase = "stopping"
    /\ phase' = "draining"
    /\ UNCHANGED <<cacheVars, relayVars, markVars, delivery, restarts>>

Underway == {d \in Deliveries : delivery[d] \notin {"none", "over"}}

CloseAtOnce ==              \* mutant: the server is not waited for
    /\ phase = "draining"
    /\ phase' = "closed"
    /\ UNCHANGED <<cacheVars, relayVars, markVars, delivery, restarts>>

(* Its background tasks have ended, the gather returns, the clients are    *)
(* closed.                                                                 *)
Close ==
    /\ phase = "draining"
    /\ Underway = {}
    /\ phase' = "closed"
    /\ UNCHANGED <<cacheVars, relayVars, markVars, delivery, restarts>>

(* The process is killed: it crashed, or supervisord has waited for its    *)
(* stopwaitsecs.  What it had accepted is lost.                            *)
Kill ==
    /\ phase \in {"running", "stopping", "draining"}
    /\ phase' = "killed"
    /\ Inbound!Stopped
    /\ limbo' = limbo \cup EyesInFlight
    /\ CacheGone
    /\ delivery' = [d \in Deliveries |-> IF d \in Underway THEN "over" ELSE delivery[d]]
    /\ UNCHANGED <<mark, restarts>>

(* supervisord starts it again; nobody has read the stream meanwhile.      *)
Restart ==
    /\ phase \in {"closed", "killed"} /\ restarts < MaxRestarts
    /\ phase' = "running"
    /\ restarts' = restarts + 1
    /\ Inbound!StreamLost
    /\ CacheGone
    /\ UNCHANGED <<markVars, delivery>>

----------------------------------------------------------------------------
Delivers(d) == DeliveryBegins(d) \/ ProgressSent(d) \/ ReplySent(d) \/ FinalReacted(d)

Next ==
    \/ Arrives \/ Relays \/ EyesAnswered \/ Submits
    \/ \E d \in Deliveries : CallbackAccepted(d) \/ Delivers(d)
    \/ \E p \in Callers : Resolves(p)
    \/ \E m \in Messages : CarriedOutLate(m)
    \/ Stop \/ ListeningEnds \/ Close \/ Kill \/ Restart

Spec == Init /\ [][Next]_vars

(* Every call has a timeout and the event loop is fair to its tasks;       *)
(* callbacks, signals and late effects have no fairness.                   *)
FairSpec ==
    /\ Spec
    /\ WF_vars(EyesAnswered \/ Resolves(Relayer))
    /\ \A d \in Deliveries : WF_vars(Delivers(d) \/ Resolves(d))
    /\ WF_vars(ListeningEnds \/ Close)

----------------------------------------------------------------------------
TypeOK ==
    /\ CacheTypeOK
    /\ Inbound!TypeOK
    /\ phase \in {"running", "stopping", "draining", "closed", "killed"}
    /\ delivery \in [Deliveries -> {"none", "accepted", "sending", "reacting", "over"}]
    /\ mark \in [Messages -> {"none", "eyes", "overdue", "final"}]
    /\ limbo \subseteq Messages
    /\ restarts \in 0 .. MaxRestarts

(***************************************************************************)
(* ✅ or ❌ on a message is never replaced by a 👀 that was carried out in   *)
(* time: the reaction is awaited before the worker hears of the message    *)
(* (app.py:46-80, dispatch.py:147-173).  A 👀 the gateway has given up may  *)
(* replace it.                                                             *)
(***************************************************************************)
FinalReactionStays ==
    [][\A m \in Messages : mark[m] = "final" => mark'[m] \in {"final", "overdue"}]_vars

(***************************************************************************)
(* Whatever the gateway sends for a message goes to the group it was       *)
(* written in or else to its author, under an identifier of the envelope   *)
(* or one reported for the author's number (dispatch.py:142-144,           *)
(* engine_client.py:88-92, signal_client.py:336-367).                      *)
(***************************************************************************)
AnsweredWhereAsked ==
    \A d \in Deliveries : client[d].pc = "rpc" =>
        LET from == Envelope[d[1]]
            to == client[d].to
        IN  IF from.group # Nothing THEN to = from.group
            ELSE to \in {from.number, from.id} \/ <<from.number, to>> \in told

(***************************************************************************)
(* A clean shutdown closes the clients only when no call is out and every  *)
(* callback that was accepted has been carried out (app.py:151-161).       *)
(***************************************************************************)
ClosedLast ==
    phase = "closed" => /\ \A p \in Callers : client[p].pc = "idle"
                        /\ Underway = {}

(***************************************************************************)
(* A stop that is asked for comes to its end: no delivery waits for ever,  *)
(* for the lock or behind the others (app.py:131-161,                      *)
(* signal_client.py:354-367).                                              *)
(***************************************************************************)
StopEnds == phase = "stopping" ~> phase \in {"closed", "killed"}
=============================================================================
