-------------------------------- MODULE Text --------------------------------
(***************************************************************************)
(* Texts for the string functions of the gateway: sequences of characters, *)
(* each with its kind and the place it has in the input, so that one can   *)
(* see in an output where every character comes from.  Characters that the *)
(* code inserts are at 0.                                                  *)
(***************************************************************************)
EXTENDS Naturals, Sequences, FiniteSets, SequencesExt, FiniteSetsExt

(* The kinds the code tells apart; a letter stands for any other character. *)
Kind == {"letter", "emoji", "dot", "space", "newline", "tick", "star", "under", "tilde", "hash"}
Char == [kind : Kind, at : Nat]

(* The text of some kinds of characters, numbered from 1.                  *)
Input(kinds) == [i \in DOMAIN kinds |-> [kind |-> kinds[i], at |-> i]]
Inserted(kind) == <<[kind |-> kind, at |-> 0]>>

Whitespace == {"space", "newline"}

Ascending(S) ==
    [k \in 1 .. Cardinality(S) |-> CHOOSE i \in S : Cardinality({j \in S : j <= i}) = k]

(* The elements of t at the positions S, in their order.                   *)
Picked(t, S) == LET at == Ascending(S) IN [k \in DOMAIN at |-> t[at[k]]]

(* str.strip.                                                              *)
Strip(t) ==
    LET keep == {i \in DOMAIN t : t[i].kind \notin Whitespace}
    IN  IF keep = {} THEN << >> ELSE SubSeq(t, Min(keep), Max(keep))

(* What re.split leaves when it cuts out all the positions not in S.       *)
Runs(t, S) ==
    LET firsts == Ascending({i \in S : i - 1 \notin S})
        last(i) == Max({j \in S : i .. j \subseteq S})
    IN  [k \in DOMAIN firsts |-> SubSeq(t, firsts[k], last(firsts[k]))]

Words(t) == Runs(t, {i \in DOMAIN t : t[i].kind \notin Whitespace})

(* The places of the characters of some kinds, in the order of the text.   *)
Places(t, kinds) ==
    LET of == Picked(t, {i \in DOMAIN t : t[i].kind \in kinds})
    IN  [i \in DOMAIN of |-> of[i].at]
=============================================================================
