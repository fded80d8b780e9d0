--------------------------- MODULE EnvelopeFilter ---------------------------
(***************************************************************************)
(* parse_envelope: which envelopes of signal-cli become messages for the   *)
(* worker, and what is in them.  Texts are those of Text, in which         *)
(* "placeholder" stands for a mention and "tag" for a rendered one, with   *)
(* the identifier it shows.                                                *)
(***************************************************************************)
EXTENDS Text

CONSTANT None

(* An at sign and the identifier, which counts as one character.           *)
Tag(who) == Inserted("at") \o <<[kind |-> "tag", at |-> 0, who |-> who]>>

Identifier(mention) ==
    CASE mention.name # None -> mention.name
      [] mention.name = None /\ mention.number # None -> mention.number
      [] mention.name = None /\ mention.number = None /\ mention.uuid # None -> mention.uuid
      [] OTHER -> "user"

(* The offsets count characters here, and may be beyond the end.           *)
Splice(t, mention) ==
    SubSeq(t, 1, Min({mention.start, Len(t)})) \o Tag(Identifier(mention))
        \o SubSeq(t, mention.start + mention.length + 1, Len(t))

InGivenOrder(mentions) == mentions      \* mutant: not sorted

(* By their starts, the last one first; equal ones keep their order.       *)
FromTheEnd(mentions) ==
    LET place(k) == Cardinality({j \in DOMAIN mentions :
                        \/ mentions[j].start > mentions[k].start
                        \/ mentions[j].start = mentions[k].start /\ j <= k})
    IN  [n \in DOMAIN mentions |-> mentions[CHOOSE k \in DOMAIN mentions : place(k) = n]]

(* _render_mentions.                                                       *)
RenderMentions(t, mentions) ==
    LET rendered[n \in 0 .. Len(mentions)] ==
            IF n = 0 THEN t ELSE Splice(rendered[n - 1], FromTheEnd(mentions)[n])
    IN  IF \A i \in DOMAIN t : t[i].kind # "placeholder" THEN t ELSE rendered[Len(mentions)]

(* _group_allowed; an empty list allows none.                              *)
GroupAllowed(group, allowed) == "*" \in allowed \/ group \in allowed

ShowsAccount(account, t) == \E i \in DOMAIN t : t[i].kind = "tag" /\ t[i].who = account

BotShown(account, t, mentions) == ShowsAccount(account, t)      \* mutant: metadata ignored

(* _bot_mentioned.  The code looks for the account behind an at sign as a  *)
(* substring; here it is a tag of its own, so that longer identifiers      *)
(* which begin with the account are left out.                              *)
BotMentioned(account, t, mentions) ==
    \/ ShowsAccount(account, t)
    \/ \E k \in DOMAIN mentions : account \in {mentions[k].number, mentions[k].uuid}

(* _parse_attachments.                                                     *)
AttachmentRefs(raw) == SelectSeq(raw, LAMBDA a : a # None)

UserId(e) ==
    CASE e.uuid # None -> e.uuid
      [] e.uuid = None /\ e.number # None -> e.number
      [] OTHER -> e.source

OwnEcho(e, account) == account \in {e.number, e.uuid, e.source}

TextOf(e) == RenderMentions(e.text, e.mentions)

(* Why an envelope is dropped, in the order of the code.                   *)
Dropped(e, settings) ==
    \/ e.type \in {"sync", "receipt", "typing", "story"}
    \/ UserId(e) = None
    \/ OwnEcho(e, settings.account)
    \/ e.type \notin {"data", "edit"}
    \/ e.group # None /\ ~GroupAllowed(e.group, settings.allowed)
    \/ /\ e.group # None /\ settings.requireMention
       /\ ~BotMentioned(settings.account, TextOf(e), e.mentions)
    \/ Strip(TextOf(e)) = << >> /\ AttachmentRefs(e.attachments) = << >>
    \/ e.age # None /\ e.age > settings.cutoff

(* parse_envelope; e.age is how old the timestamp says the message is.     *)
ParseEnvelope(e, settings) ==
    IF Dropped(e, settings) THEN [dropped |-> TRUE]
    ELSE [dropped |-> FALSE, user |-> UserId(e),
          chat |-> IF e.group # None THEN e.group ELSE UserId(e),
          text |-> TextOf(e), attachments |-> AttachmentRefs(e.attachments)]
=============================================================================
