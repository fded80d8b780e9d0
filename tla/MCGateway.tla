----------------------------- MODULE MCGateway -----------------------------
(* Instances of Gateway for TLC.                                           *)
EXTENDS Gateway, TLC

CONSTANTS direct, ingroup, nina, nino, una, uno, family

(* Nina writes by number alone in a direct chat, and from her service id   *)
(* in a group.                                                             *)
MCEnvelope ==
    (direct :> [number |-> nina, id |-> Nothing, group |-> Nothing])
    @@ (ingroup :> [number |-> nina, id |-> una, group |-> family])

MCDeliveries == {<<direct, "progress">>, <<direct, "final">>, <<ingroup, "final">>}
MCCallers == {Relayer} \cup MCDeliveries

(* Nino is a contact too.                                                  *)
MCContactLists ==
    {<<[number |-> nino, recipient |-> nino, id |-> uno],
       [number |-> nina, recipient |-> una, id |-> una]>>}
=============================================================================
