-------------------------- MODULE MCTextFunctions --------------------------
(* The bounded inputs of TextFunctions.                                    *)
EXTENDS TextFunctions

CONSTANTS MaxText, MaxTokens

SeqsUpTo(S, n) == UNION {[1 .. k -> S] : k \in 0 .. n}

MCChunkJobs ==
    {[of |-> "chunk", text |-> Input(kinds), max |-> max] :
        kinds \in SeqsUpTo({"letter", "dot", "space", "newline"}, MaxText), max \in 1 .. 4}

(* Markdown is put together from these.                                    *)
Tokens ==
    {<<"tick", "tick", "tick">>, <<"tick">>, <<"star", "star">>, <<"star">>, <<"under">>,
     <<"tilde", "tilde">>, <<"hash", "space">>, <<"letter">>, <<"emoji">>, <<"newline">>}

(* And longer ones from these.                                             *)
Fences == {<<"tick", "tick", "tick">>, <<"tick">>, <<"letter">>, <<"newline">>}

MCMarkdownJobs ==
    {[of |-> "markdown", text |-> Input(FlattenSeq(tokens))] :
        tokens \in SeqsUpTo(Tokens, MaxTokens) \cup SeqsUpTo(Fences, MaxTokens + 1)}

(* Two people, one with the bot's name, and the bot may be mentioned in a  *)
(* text of three places, in either order; a placeholder may have no        *)
(* mention, an emoji may stand on either side of one, and the bot's tag    *)
(* may be typed.                                                           *)
Bot == [number |-> "bot", uuid |-> None, name |-> "Servant"]
Ann == [number |-> "ann", uuid |-> "annid", name |-> None]

Zoe == [number |-> "zoe", uuid |-> None, name |-> "bot"]

At(who, start) == [number |-> who.number, uuid |-> who.uuid, name |-> who.name,
                   start |-> start, length |-> 1]

MentionTexts ==
    {[text |-> << >>, mentions |-> << >>],
     [text |-> Input(<<"space">>), mentions |-> << >>],
     [text |-> Input(<<"letter", "placeholder">>), mentions |-> <<At(Ann, 1)>>],
     [text |-> Input(<<"placeholder", "letter">>), mentions |-> <<At(Bot, 0)>>],
     [text |-> Input(<<"placeholder", "letter", "placeholder">>),
      mentions |-> <<At(Bot, 0), At(Ann, 2)>>],
     [text |-> Input(<<"placeholder", "letter", "placeholder">>),
      mentions |-> <<At(Ann, 2), At(Bot, 0)>>],
     [text |-> Input(<<"placeholder", "letter", "placeholder">>), mentions |-> <<At(Ann, 2)>>],
     [text |-> Input(<<"placeholder", "letter">>), mentions |-> <<At(Zoe, 0)>>],
     [text |-> Input(<<"placeholder", "emoji">>), mentions |-> <<At(Ann, 0)>>],
     [text |-> Input(<<"emoji", "placeholder", "letter">>), mentions |-> <<At(Ann, 2)>>],
     [text |-> Tag("bot"), mentions |-> << >>],
     [text |-> Input(<<"letter", "letter">>), mentions |-> << >>]}

MCEnvelopeJobs ==
    {[of |-> "envelope",
      envelope |-> [type |-> type, number |-> number, uuid |-> uuid, source |-> source,
                    group |-> group, text |-> t.text, mentions |-> t.mentions,
                    attachments |-> attachments, age |-> age],
      settings |-> [account |-> "bot", allowed |-> allowed, requireMention |-> require,
                    cutoff |-> 2]] :
        type \in {"data", "edit", "sync"}, number \in {None, "ann", "bot"},
        uuid \in {None, "annid"}, source \in {None, "ann", "bot"},
        group \in {None, "choir"}, t \in MentionTexts,
        attachments \in {<< >>, <<None>>, <<"file">>}, age \in {None, 1, 3},
        allowed \in {{}, {"choir"}, {"other"}}, require \in BOOLEAN}

Refs == [type : {"audio", "3gpp", "audio/other", "other"}, suffix : {"audio", "3gp", "other"},
         declared : {Nothing, 1, 3}, bytes : {0, 1, 2, 3}]

MCAudioJobs ==
    {[of |-> "audio", refs |-> refs, max |-> 2] : refs \in UNION {[1 .. k -> Refs] : k \in 1 .. 2}}

Downloads == [https : BOOLEAN, ok : BOOLEAN, declared : {Nothing, 1, 4},
              parts : SeqsUpTo(1 .. 3, 3), breaks : BOOLEAN]

MCVoiceJobs ==
    {[of |-> "voice", download |-> d, payload |-> p, max |-> 3] :
        d \in Downloads \cup {Nothing},
        p \in [valid : BOOLEAN, bytes : {0, 2, 4}] \cup {Nothing}}
=============================================================================
