--------------------------- MODULE CompletedKeys ---------------------------
(***************************************************************************)
(* The in-memory cache of delivered replies (dedup.py).  A key is marked   *)
(* when its reply was delivered in full and counts as completed until its  *)
(* time to live runs out.  Expired entries are not removed by a timer: an  *)
(* access that comes at least one sweep interval after the last sweep      *)
(* removes them first, in the same synchronous call.                       *)
(***************************************************************************)
EXTENDS Naturals

CONSTANTS
    Keys,           \* the values a message_key takes
    Ttl,            \* ttl_ms, in ticks of the monotonic clock
    SweepInterval   \* sweep_interval_ms, in the same ticks

ASSUME DedupAssumption ==
    /\ Ttl \in Nat \ {0}
    /\ SweepInterval \in Nat

VARIABLES
    entries,    \* _entries: a partial function from keys to their expiry
    lastSweep,  \* _last_sweep
    now         \* what the injected clock returns

dedupVars == <<entries, lastSweep, now>>

----------------------------------------------------------------------------
SweepDue == now - lastSweep >= SweepInterval

SweptLate ==        \* mutant: what expires this instant stays
    IF SweepDue
    THEN [k \in {j \in DOMAIN entries : entries[j] >= now} |-> entries[k]]
    ELSE entries

SweptBare == IF SweepDue THEN [k \in {} |-> 0] ELSE entries   \* mutant

(* The entries an access sees, after the lazy sweep.                       *)
Swept ==
    IF SweepDue
    THEN [k \in {j \in DOMAIN entries : entries[j] > now} |-> entries[k]]
    ELSE entries

Live(k) == k \in DOMAIN entries /\ entries[k] > now

SweepClock == lastSweep' = IF SweepDue THEN now ELSE lastSweep

(* is_completed(k) answers Live(k) and leaves the swept entries behind.    *)
IsCompleted ==
    /\ entries' = Swept
    /\ SweepClock
    /\ UNCHANGED now

MarkCompleted(k) ==
    /\ entries' = [j \in DOMAIN Swept \cup {k} |->
                      IF j = k THEN now + Ttl ELSE Swept[j]]
    /\ SweepClock
    /\ UNCHANGED now

FreshCacheSweptAhead ==     \* mutant: the clock of the sweep starts ahead
    /\ entries' = [k \in {} |-> 0]
    /\ lastSweep' = now + SweepInterval
    /\ UNCHANGED now

(* A fresh cache: the process has (re)started.                             *)
FreshCache ==
    /\ entries' = [k \in {} |-> 0]
    /\ lastSweep' = now
    /\ UNCHANGED now

(* The monotonic clock moves on between two calls.                         *)
Tick ==
    /\ now' = now + 1
    /\ UNCHANGED <<entries, lastSweep>>

DedupInit ==
    /\ entries = [k \in {} |-> 0]
    /\ now = 0
    /\ lastSweep = now

----------------------------------------------------------------------------
DedupTypeOK ==
    /\ DOMAIN entries \subseteq Keys
    /\ entries \in [DOMAIN entries -> Nat]
    /\ now \in Nat
    /\ lastSweep \in Nat
    /\ lastSweep <= now

(***************************************************************************)
(* Whatever had expired by the last sweep is gone: no entry outlives its   *)
(* expiry by more than the time since the last sweep (dedup.py:67-73), so  *)
(* the dictionary does not grow with the number of replies ever sent.      *)
(***************************************************************************)
SweptClean == \A k \in DOMAIN entries : entries[k] > lastSweep
=============================================================================
