-------------------------- MODULE MCCallbackServer --------------------------
(***************************************************************************)
(* Callbacks for the runs of CallbackServer.                               *)
(***************************************************************************)
EXTENDS CallbackServer, TLC

Plain(user, key) == [type |-> "complete", user |-> user, key |-> key,
                     chunks |-> 1, voice |-> FALSE, atts |-> 0]
Media(key, chunks, atts) == [type |-> "complete", user |-> "ann", key |-> key,
                             chunks |-> chunks, voice |-> TRUE, atts |-> atts]

(* Two replies of one user, each of which the worker may repeat.           *)
TextReplies == {Plain("ann", k) : k \in Keys}
KeySymmetry == Permutations(Keys)

(* One reply of every shape, and the two kinds that are not deduplicated.  *)
MixedReplies ==
    {Media("k1", 2, 0), Media("k1", 1, 2),
     [Plain("ann", "k1") EXCEPT !.atts = 1],
     [Plain("ann", "k2") EXCEPT !.chunks = 0],
     [Plain("ann", "k2") EXCEPT !.type = "progress", !.chunks = 2],
     [Plain("ann", "k2") EXCEPT !.type = "error", !.chunks = 0]}

(* Replies to messages two users sent in the same millisecond: the key is  *)
(* the timestamp alone (engine_client.py:78).                              *)
SameInstant == {Plain("ann", "k1"), Plain("bob", "k1")}
=============================================================================
