---------------------------- MODULE InboundRelay ----------------------------
(***************************************************************************)
(* The way of a message from the stream to the worker: the handler that    *)
(* app.py gives the listener, with EngineClient.submit, the fetch of its   *)
(* audio from signal-cli (media.py, signal_client.py) and the worker at    *)
(* the other end.                                                          *)
(*                                                                         *)
(* The listener awaits the handler before it reads the next line, so that  *)
(* one message at a time is relayed and the others wait in the stream.     *)
(***************************************************************************)
EXTENDS Naturals, Sequences

CONSTANTS
    Messages,       \* the accepted inbound messages
    Voice,          \* those with audio that is worth fetching
    MaxAttempts     \* _MAX_ATTEMPTS

ASSUME RelayAssumption ==
    /\ Voice \subseteq Messages
    /\ MaxAttempts \in Nat \ {0}

VARIABLES
    arrived,    \* history: the messages signal-cli has put on the stream
    stream,     \* those not read yet
    relay,      \* the handler: where it is, its message, audio and attempt
    worker,     \* what the worker has taken in, and whether as audio
    late,       \* requests that were given up and may still reach the worker
    acked       \* history: the messages whose submit returned True

vars == <<arrived, stream, relay, worker, late, acked>>

None == "none"
Elements(q) == {q[i] : i \in DOMAIN q}

Idle == [pc |-> "idle", msg |-> None, audio |-> FALSE, attempt |-> 1]

Init ==
    /\ arrived = << >>
    /\ stream = << >>
    /\ relay = Idle
    /\ worker = << >>
    /\ late = {}
    /\ acked = {}

(* signal-cli receives a message.                                          *)
Arrive(m) ==
    /\ m \notin Elements(arrived)
    /\ arrived' = Append(arrived, m)
    /\ stream' = Append(stream, m)
    /\ UNCHANGED <<relay, worker, late, acked>>

----------------------------------------------------------------------------
(* _relay.                                                                 *)

(* The next line is a message, and its 👀 is requested.                    *)
Begin ==
    /\ relay.pc = "idle" /\ stream # << >>
    /\ relay' = [Idle EXCEPT !.pc = "reacting", !.msg = Head(stream)]
    /\ stream' = Tail(stream)
    /\ UNCHANGED <<arrived, worker, late, acked>>

(* Whatever became of the reaction, the relay goes on.                     *)
Reacted ==
    /\ relay.pc = "reacting"
    /\ relay' = [relay EXCEPT !.pc = IF relay.msg \in Voice THEN "fetching" ELSE "posting"]
    /\ UNCHANGED <<arrived, stream, worker, late, acked>>

(* The bytes come, or there are none, or too many: then the text alone is  *)
(* relayed.                                                                *)
Fetched ==
    /\ relay.pc = "fetching"
    /\ \E got \in BOOLEAN : relay' = [relay EXCEPT !.pc = "posting", !.audio = got]
    /\ UNCHANGED <<arrived, stream, worker, late, acked>>

(* The bytes cannot be decoded: the handler raises, and the listener goes  *)
(* on to the next message.                                                 *)
FetchRaises ==
    /\ relay.pc = "fetching"
    /\ relay' = Idle
    /\ UNCHANGED <<arrived, stream, worker, late, acked>>

----------------------------------------------------------------------------
(* EngineClient.submit, one attempt of it.                                 *)

Request == [msg |-> relay.msg, audio |-> relay.audio]

(* What can become of a request nobody waits for any more.                 *)
GivenUp ==
    \/ UNCHANGED <<worker, late>>
    \/ worker' = Append(worker, Request) /\ UNCHANGED late
    \/ late' = late \cup {Request} /\ UNCHANGED worker

Accepted ==
    /\ relay.pc = "posting"
    /\ worker' = Append(worker, Request)
    /\ acked' = acked \cup {relay.msg}
    /\ relay' = Idle
    /\ UNCHANGED <<arrived, stream, late>>

AnswerLostRetried ==        \* mutant: a transport error is retried
    /\ relay.pc = "posting"
    /\ GivenUp
    /\ relay' = IF relay.attempt < MaxAttempts
                THEN [relay EXCEPT !.attempt = @ + 1] ELSE Idle
    /\ UNCHANGED <<arrived, stream, acked>>

(* A transport error; the worker may have got the message, or yet get it.  *)
AnswerLost ==
    /\ relay.pc = "posting"
    /\ GivenUp
    /\ relay' = Idle
    /\ UNCHANGED <<arrived, stream, acked>>

(* Neither a 2xx nor a 429.                                                *)
Rejected ==
    /\ relay.pc = "posting"
    /\ relay' = Idle
    /\ UNCHANGED <<arrived, stream, worker, late, acked>>

RateLimitedOnceMore ==      \* mutant: one attempt too many
    /\ relay.pc = "posting"
    /\ relay' = IF relay.attempt <= MaxAttempts THEN [relay EXCEPT !.pc = "waiting"] ELSE Idle
    /\ UNCHANGED <<arrived, stream, worker, late, acked>>

RateLimitedPutBack ==       \* mutant: the message queues up again
    /\ relay.pc = "posting"
    /\ relay' = Idle
    /\ stream' = Append(stream, relay.msg)
    /\ UNCHANGED <<arrived, worker, late, acked>>

(* A 429: the wait it asks for, unless this was the last attempt.          *)
RateLimited ==
    /\ relay.pc = "posting"
    /\ relay' = IF relay.attempt < MaxAttempts THEN [relay EXCEPT !.pc = "waiting"] ELSE Idle
    /\ UNCHANGED <<arrived, stream, worker, late, acked>>

WaitedUncounted ==          \* mutant: the attempt is not counted
    /\ relay.pc = "waiting"
    /\ relay' = [relay EXCEPT !.pc = "posting"]
    /\ UNCHANGED <<arrived, stream, worker, late, acked>>

(* The wait is over: one more attempt with the same body.                  *)
Waited ==
    /\ relay.pc = "waiting"
    /\ relay' = [relay EXCEPT !.pc = "posting", !.attempt = @ + 1]
    /\ UNCHANGED <<arrived, stream, worker, late, acked>>

----------------------------------------------------------------------------
LateRequest(r) ==
    /\ late' = late \ {r}
    /\ worker' = Append(worker, r)
    /\ UNCHANGED <<arrived, stream, relay, acked>>

(* The gateway stops, or its stream breaks: what was not read is lost, and *)
(* signal-cli does not send it again.                                      *)
StreamLost ==
    /\ stream' = << >>
    /\ UNCHANGED <<arrived, relay, worker, late, acked>>

Stopped ==
    /\ stream' = << >>
    /\ relay' = Idle
    /\ IF relay.pc = "posting" THEN GivenUp ELSE UNCHANGED <<worker, late>>
    /\ UNCHANGED <<arrived, acked>>

Relay == \/ Begin \/ Reacted \/ Fetched \/ FetchRaises
         \/ Accepted \/ AnswerLost \/ Rejected \/ RateLimited \/ Waited

Next ==
    \/ \E m \in Messages : Arrive(m)
    \/ Relay
    \/ \E r \in late : LateRequest(r)
    \/ StreamLost \/ Stopped

Spec == Init /\ [][Next]_vars

(* Every request of the handler has a timeout, and its waits are capped at *)
(* _RETRY_AFTER_CAP_S.  The worker may answer 429 for ever.                *)
FairSpec == Spec /\ WF_vars(Relay)

----------------------------------------------------------------------------
TypeOK ==
    /\ arrived \in Seq(Messages)
    /\ stream \in Seq(Messages)
    /\ relay \in [pc : {"idle", "reacting", "fetching", "posting", "waiting"},
                  msg : Messages \cup {None}, audio : BOOLEAN, attempt : 1 .. MaxAttempts]
    /\ late \subseteq [msg : Messages, audio : BOOLEAN]
    /\ acked \subseteq Messages
    /\ worker \in Seq([msg : Messages, audio : BOOLEAN])

Position(m) == CHOOSE i \in DOMAIN arrived : arrived[i] = m

(***************************************************************************)
(* The worker gets no message twice, though it rate-limits and answers get *)
(* lost: an attempt follows only a refusal (engine_client.py:158-204).     *)
(***************************************************************************)
AtMostOnce ==
    \A i, j \in DOMAIN worker : worker[i].msg = worker[j].msg => i = j

(***************************************************************************)
(* The worker gets the messages it acknowledges in the order in which they *)
(* came, through rate limits and slow fetches (signal_listener.py:128-130, *)
(* app.py:46-80).                                                          *)
(***************************************************************************)
InOrder ==
    \A i, j \in DOMAIN worker :
        i < j /\ {worker[i].msg, worker[j].msg} \subseteq acked
           => Position(worker[i].msg) <= Position(worker[j].msg)

(***************************************************************************)
(* A message does not hold up the stream for ever, even if the worker goes *)
(* on answering 429 (engine_client.py:175-192).                            *)
(***************************************************************************)
StreamMovesOn ==
    \A m \in Messages : m \in Elements(stream) \/ relay.msg = m
                           ~> m \notin Elements(stream) /\ relay.msg # m
=============================================================================
