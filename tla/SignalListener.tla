--------------------------- MODULE SignalListener ---------------------------
(***************************************************************************)
(* The listener of signal_listener.py: the task that holds the SSE stream  *)
(* to signal-cli open and hands its messages to the handler, and the       *)
(* health monitor beside it.  The two meet in _response, _last_activity    *)
(* and _wakeup; each runs from one await to the next in one step.          *)
(*                                                                         *)
(* The daemon comes and goes as it likes.  "unready" answers with errors,  *)
(* "wedged" accepts connections and never answers.  Time passes in         *)
(* seconds; a task may always run later than its timer says.               *)
(***************************************************************************)
EXTENDS Integers

CONSTANTS
    RetryInitial,       \* SSE_RETRY_DELAY_INITIAL, in seconds
    RetryMax,           \* SSE_RETRY_DELAY_MAX
    Jitter,             \* the most that the jitter adds, rounded up
    CheckInterval,      \* HEALTH_CHECK_INTERVAL
    CheckTimeout,       \* the timeout of a health check
    StaleThreshold      \* HEALTH_CHECK_STALE_THRESHOLD

ASSUME ListenerAssumption ==
    /\ {RetryInitial, RetryMax, CheckInterval, CheckTimeout, StaleThreshold}
          \subseteq Nat \ {0}
    /\ RetryInitial <= RetryMax
    /\ Jitter \in Nat

VARIABLES
    daemon,     \* signal-cli
    consumer,   \* where _consume_forever is, and what is left of its sleep
    response,   \* _response, and whether its stream still stands
    idle,       \* seconds since _last_activity
    backoff,    \* _backoff
    wakeup,     \* _wakeup
    monitor,    \* where _health_monitor is, and what is left of its sleep or timeout
    answered    \* history: a health check was answered during this backoff

vars == <<daemon, consumer, response, idle, backoff, wakeup, monitor, answered>>

Least(a, b) == IF a <= b THEN a ELSE b
Before(t) == IF t = 0 THEN 0 ELSE t - 1

Reachable == daemon \in {"up", "unready"}

Init ==
    /\ daemon \in {"up", "unready", "down"}
    /\ consumer = [pc |-> "connecting", timer |-> 0]
    /\ response = "none"
    /\ idle = 0
    /\ backoff = RetryInitial
    /\ wakeup = FALSE
    /\ monitor = [pc |-> "sleeping", timer |-> CheckInterval]
    /\ answered = FALSE

----------------------------------------------------------------------------
(* _consume_forever, _stream_once and _handle_line.                        *)

BackOffKeepingWakeup ==     \* mutant: no clear
    /\ \E extra \in 0 .. Jitter : consumer' = [pc |-> "backoff", timer |-> backoff + extra]
    /\ answered' = FALSE
    /\ UNCHANGED wakeup

(* The attempt is over: the wake-up is cleared and the backoff sleep starts. *)
BackOff ==
    /\ \E extra \in 0 .. Jitter : consumer' = [pc |-> "backoff", timer |-> backoff + extra]
    /\ wakeup' = FALSE
    /\ answered' = FALSE

Connect ==
    /\ consumer.pc = "connecting"
    /\ daemon = "up"
    /\ consumer' = [pc |-> "streaming", timer |-> 0]
    /\ response' = "open"
    /\ idle' = 0
    /\ backoff' = RetryInitial
    /\ UNCHANGED <<daemon, wakeup, monitor, answered>>

(* Refused, or answered with something other than 2xx.  A wedged daemon    *)
(* does neither, and the connection attempt has no timeout.                *)
ConnectFails ==
    /\ consumer.pc = "connecting"
    /\ daemon \in {"down", "unready"}
    /\ BackOff
    /\ UNCHANGED <<daemon, response, idle, backoff, monitor>>

(* A line that is no message: a keepalive, invalid JSON, filtered out.     *)
Keepalive ==
    /\ consumer.pc = "streaming" /\ response = "open" /\ Reachable
    /\ idle' = 0
    /\ UNCHANGED <<daemon, consumer, response, backoff, wakeup, monitor, answered>>

(* A message: nothing else is read until its handler returns.              *)
Message ==
    /\ consumer.pc = "streaming" /\ response = "open" /\ Reachable
    /\ consumer' = [consumer EXCEPT !.pc = "handling"]
    /\ idle' = 0
    /\ UNCHANGED <<daemon, response, backoff, wakeup, monitor, answered>>

(* The handler returns or raises; either way the loop goes on.             *)
Handled ==
    /\ consumer.pc = "handling"
    /\ consumer' = [consumer EXCEPT !.pc = "streaming"]
    /\ UNCHANGED <<daemon, response, idle, backoff, wakeup, monitor, answered>>

StreamEndsForGood ==        \* mutant: the loop does not go on
    /\ consumer.pc = "streaming" /\ response = "broken"
    /\ response' = "none"
    /\ UNCHANGED <<daemon, consumer, idle, backoff, wakeup, monitor, answered>>

(* The read ends or raises on a stream that is gone.                       *)
StreamEnds ==
    /\ consumer.pc = "streaming" /\ response = "broken"
    /\ response' = "none"
    /\ BackOff
    /\ UNCHANGED <<daemon, idle, backoff, monitor>>

BackoffEndsUncapped ==      \* mutant: no cap
    /\ consumer.pc = "backoff"
    /\ consumer.timer = 0 \/ wakeup
    /\ consumer' = [pc |-> "connecting", timer |-> 0]
    /\ backoff' = 2 * backoff
    /\ UNCHANGED <<daemon, response, idle, wakeup, monitor, answered>>

BackoffEnds ==
    /\ consumer.pc = "backoff"
    /\ consumer.timer = 0 \/ wakeup
    /\ consumer' = [pc |-> "connecting", timer |-> 0]
    /\ backoff' = Least(2 * backoff, RetryMax)
    /\ UNCHANGED <<daemon, response, idle, wakeup, monitor, answered>>

Consume == \/ Connect \/ ConnectFails \/ Handled \/ StreamEnds \/ BackoffEnds

----------------------------------------------------------------------------
(* _health_monitor.                                                        *)

Asleep == [pc |-> "sleeping", timer |-> CheckInterval]

CheckBetweenOnly ==         \* mutant: a live stream is not watched
    /\ monitor.pc = "sleeping" /\ monitor.timer = 0
    /\ monitor' = IF response = "none" THEN [pc |-> "wakes", timer |-> CheckTimeout]
                                       ELSE Asleep
    /\ UNCHANGED <<daemon, consumer, response, idle, backoff, wakeup, answered>>

(* A check between attempts, or of a stream that has long been silent.     *)
Check ==
    /\ monitor.pc = "sleeping" /\ monitor.timer = 0
    /\ monitor' = CASE response = "none" -> [pc |-> "wakes", timer |-> CheckTimeout]
                    [] response # "none" /\ idle >= StaleThreshold ->
                                            [pc |-> "pings", timer |-> CheckTimeout]
                    [] OTHER -> Asleep
    /\ UNCHANGED <<daemon, consumer, response, idle, backoff, wakeup, answered>>

WakeAnswered ==
    /\ monitor.pc = "wakes" /\ Reachable
    /\ wakeup' = TRUE
    /\ answered' = (consumer.pc = "backoff")
    /\ monitor' = Asleep
    /\ UNCHANGED <<daemon, consumer, response, idle, backoff>>

PingAnswered ==
    /\ monitor.pc = "pings" /\ Reachable
    /\ idle' = 0
    /\ monitor' = Asleep
    /\ UNCHANGED <<daemon, consumer, response, backoff, wakeup, answered>>

CheckFailed == monitor.timer = 0 \/ daemon = "down"

WakeFails ==
    /\ monitor.pc = "wakes" /\ CheckFailed
    /\ monitor' = Asleep
    /\ UNCHANGED <<daemon, consumer, response, idle, backoff, wakeup, answered>>

(* The stream was not silent any more, or is a new one: it is closed too.  *)
ForceReconnect ==
    /\ monitor.pc = "pings" /\ CheckFailed
    /\ response' = IF response = "none" THEN "none" ELSE "broken"
    /\ monitor' = Asleep
    /\ UNCHANGED <<daemon, consumer, idle, backoff, wakeup, answered>>

Monitor == \/ Check \/ WakeAnswered \/ PingAnswered \/ WakeFails \/ ForceReconnect

----------------------------------------------------------------------------
(* signal-cli and the clock.                                               *)

Broken == IF response = "none" THEN "none" ELSE "broken"

DaemonDies ==
    /\ daemon # "down"
    /\ daemon' = "down"
    /\ response' = Broken
    /\ UNCHANGED <<consumer, idle, backoff, wakeup, monitor, answered>>

DaemonStarts ==
    /\ daemon = "down"
    /\ daemon' \in {"up", "unready"}
    /\ UNCHANGED <<consumer, response, idle, backoff, wakeup, monitor, answered>>

(* A running daemon gets ready, hangs, or comes back from hanging.         *)
DaemonTurns ==
    /\ daemon # "down"
    /\ daemon' \in {"up", "wedged"} \ {daemon}
    /\ UNCHANGED <<consumer, response, idle, backoff, wakeup, monitor, answered>>

StreamCut ==
    /\ response = "open"
    /\ response' = "broken"
    /\ UNCHANGED <<daemon, consumer, idle, backoff, wakeup, monitor, answered>>

Tick ==
    /\ consumer' = [consumer EXCEPT !.timer = Before(@)]
    /\ monitor' = [monitor EXCEPT !.timer = Before(@)]
    /\ idle' = Least(idle + 1, StaleThreshold)
    /\ UNCHANGED <<daemon, response, backoff, wakeup, answered>>

Next ==
    \/ Consume \/ Keepalive \/ Message
    \/ Monitor
    \/ DaemonDies \/ DaemonStarts \/ DaemonTurns \/ StreamCut
    \/ Tick

Spec == Init /\ [][Next]_vars

(* The event loop runs both tasks, timers expire, and a handler returns    *)
(* (InboundRelay).  The daemon owes nothing, not even a line.              *)
Fairness == WF_vars(Consume) /\ WF_vars(Monitor) /\ WF_vars(Tick)
FairSpec == Spec /\ Fairness

----------------------------------------------------------------------------
TypeOK ==
    /\ daemon \in {"up", "unready", "down", "wedged"}
    /\ consumer \in [pc : {"connecting", "streaming", "handling", "backoff"},
                     timer : 0 .. (RetryMax + Jitter)]
    /\ response \in {"none", "open", "broken"}
    /\ idle \in 0 .. StaleThreshold
    /\ backoff \in RetryInitial .. RetryMax
    /\ wakeup \in BOOLEAN
    /\ monitor \in [pc : {"sleeping", "wakes", "pings"},
                    timer : 0 .. (IF CheckInterval > CheckTimeout THEN CheckInterval
                                                                  ELSE CheckTimeout)]
    /\ answered \in BOOLEAN

(***************************************************************************)
(* A backoff is cut short only if the daemon answered a check during it: a *)
(* check answered while the listener was connecting or connected does not  *)
(* spoil a later backoff (signal_listener.py:105-112).                     *)
(***************************************************************************)
CutShortByAnswer ==
    [][consumer.pc = "backoff" /\ consumer.timer > 0 /\ consumer'.pc = "connecting"
          => answered]_vars

(***************************************************************************)
(* While the daemon stays up, the listener always comes back to a stream,  *)
(* whatever ended the last one (signal_listener.py:97-132).                *)
(***************************************************************************)
StreamRestored == <>[](daemon = "up") => []<>(response = "open")

(***************************************************************************)
(* A live stream of a daemon that has hung does not last: the monitor      *)
(* breaks it, unless the daemon comes round (signal_listener.py:174-182).  *)
(***************************************************************************)
StalledStreamBroken ==
    response = "open" /\ daemon = "wedged" ~> response # "open" \/ daemon # "wedged"

(***************************************************************************)
(* signal_listener.py:16-17 and 164-165: a reconnect is forced on a stream *)
(* on which the daemon has gone quiet.                                     *)
(***************************************************************************)
ForcedOnlyWhenQuiet ==
    [][monitor.pc = "pings" /\ monitor'.pc = "sleeping"
          /\ response = "open" /\ response' = "broken" => idle >= StaleThreshold]_vars
=============================================================================
