---------------------------- MODULE ReplyLedger ----------------------------
(***************************************************************************)
(* What the callback server promises about each message_key, without its   *)
(* caches, tasks and clocks: a reply is open, being delivered by exactly   *)
(* one delivery, or done.  A failed delivery opens the reply again; a done *)
(* reply can only be delivered anew after the server has forgotten it.     *)
(***************************************************************************)
CONSTANT Keys

VARIABLE status

Status == {"open", "delivering", "done"}

Init == status = [k \in Keys |-> "open"]

(* The first complete callback for an open reply.                          *)
Begin(k) ==
    /\ status[k] = "open"
    /\ status' = [status EXCEPT ![k] = "delivering"]

(* The one running delivery ends: in full, or leaving the reply open.      *)
Finish(k, outcome) ==
    /\ status[k] = "delivering"
    /\ status' = [status EXCEPT ![k] = outcome]

(* The time to live of some done replies has passed.                       *)
Forget(S) ==
    /\ \A k \in S : status[k] = "done"
    /\ status' = [k \in Keys |-> IF k \in S THEN "open" ELSE status[k]]

(* The process restarts; everything it knew was in memory.                 *)
Restart == status' = [k \in Keys |-> "open"]

Next ==
    \/ \E k \in Keys : Begin(k)
    \/ \E k \in Keys, outcome \in {"open", "done"} : Finish(k, outcome)
    \/ \E S \in SUBSET Keys : Forget(S)
    \/ Restart

Spec == Init /\ [][Next]_status
=============================================================================
