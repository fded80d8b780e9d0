--------------------------- MODULE TextFunctions ---------------------------
(***************************************************************************)
(* The pure functions of the gateway, each applied to every input of a     *)
(* bounded set: a behaviour is one job and its result.                     *)
(***************************************************************************)
EXTENDS Chunking, BodyRanges, EnvelopeFilter, Media

CONSTANTS
    ChunkJobs,      \* records with a text and a limit
    MarkdownJobs,   \* records with a text
    EnvelopeJobs,   \* records with an envelope and the settings
    AudioJobs,      \* records with attachments and a limit
    VoiceJobs       \* records with a download, a payload and a limit

IsText(t) == t \in Seq({t[i] : i \in DOMAIN t})
Setting == {"account", "allowed", "requireMention", "cutoff"}

ASSUME JobAssumption ==
    /\ ChunkJobs \subseteq [of : {"chunk"}, text : Seq(Char), max : Nat \ {0}]
    /\ \A j \in MarkdownJobs :
          j.of = "markdown" /\ IsText(j.text) /\ \A i \in DOMAIN j.text : j.text[i].at = i
    /\ \A j \in EnvelopeJobs :
          /\ j.of = "envelope" /\ DOMAIN j.settings = Setting
          /\ IsText(j.envelope.text) /\ IsText(j.envelope.mentions)
    /\ AudioJobs \subseteq [of : {"audio"}, refs : Seq(Ref), max : Nat]
    /\ VoiceJobs \subseteq [of : {"voice"}, download : Response \cup {Nothing},
                           payload : Payload \cup {Nothing}, max : Nat]

VARIABLES job, result

vars == <<job, result>>

Init ==
    /\ \/ job \in ChunkJobs \/ job \in MarkdownJobs \/ job \in EnvelopeJobs
       \/ job \in AudioJobs \/ job \in VoiceJobs
    /\ result = << >>

Step(of, out) == job.of = of /\ result = << >> /\ result' = <<out>> /\ UNCHANGED job

Chunk == Step("chunk", ChunkMessage(job.text, job.max))
Convert == Step("markdown", MarkdownToSignal(job.text))
Parse == Step("envelope", ParseEnvelope(job.envelope, job.settings))
FetchAudio == Step("audio", InboundAudio(job.refs, job.max))
FetchVoice == Step("voice", VoiceFile(job.download, job.payload, job.max))

Next == Chunk \/ Convert \/ Parse \/ FetchAudio \/ FetchVoice

Spec == Init /\ [][Next]_vars

Done(of) == job.of = of /\ result # << >>
Out == result[1]

----------------------------------------------------------------------------
(* Chunking.                                                               *)

(***************************************************************************)
(* No message is empty or longer than the limit, joiners and cut words     *)
(* included (chunking.py:32-80).                                           *)
(***************************************************************************)
ChunksFit == Done("chunk") => \A k \in DOMAIN Out : Len(Out[k]) \in 1 .. job.max

(***************************************************************************)
(* Every letter of a reply is sent once, in order, wherever the text is    *)
(* cut (chunking.py:83-130).  Terminators may be lost.                     *)
(***************************************************************************)
LettersKept ==
    Done("chunk") => Places(FlattenSeq(Out), {"letter"}) = Places(job.text, {"letter"})

(* Part of a word: neither white space nor a sentence terminator.          *)
Solid(c) == c.kind \notin Whitespace \cup {"dot"}

(***************************************************************************)
(* A word that fits into a message is not cut, nor lost, wherever          *)
(* paragraphs, sentences and overlong words around it are split            *)
(* (chunking.py:1-7).                                                      *)
(***************************************************************************)
WholeWords ==
    Done("chunk") =>
        LET words == Runs(job.text, {i \in DOMAIN job.text : Solid(job.text[i])})
        IN  \A w \in DOMAIN words :
                Len(words[w]) <= job.max =>
                    \E k \in DOMAIN Out : \E i \in 1 .. Len(Out[k]) - Len(words[w]) + 1 :
                        SubSeq(Out[k], i, i + Len(words[w]) - 1) = words[w]

----------------------------------------------------------------------------
(* Styles.                                                                 *)

(* The text after phase 1, with the code that phase 1 has found in it.     *)
Blocks == CodeBlocks(Normalized(job.text))

(* Three shapes for which the algorithm goes wrong, see README.  Phase 2   *)
(* takes a line for a heading that stands in front of a code block, whose  *)
(* range is known already, or in it.                                       *)
HeadingUpToCode(b) ==
    \E i \in Headings(b.text), s \in b.styles : i <= s.start + s.len

(* The text of a heading, none being on its own line, is the next heading. *)
HeadingOfHeading(t) == \E i \in Headings(t) : HeadingStart(t, i) \in Headings(t)

(* A code ends in ticks that make another fence with those which its own   *)
(* fence leaves.                                                           *)
TickBeforeFence(t) ==
    \E f, i, j \in DOMAIN t, n \in 1 .. 2 :
        /\ f + 3 <= i /\ i + n < j
        /\ MarkerAt(t, f, "tick", 3)
        /\ MarkerAt(t, i, "tick", n) /\ MarkerAt(t, j, "tick", 6 - n)
        /\ \A k \in i + n .. j - 1 : t[k].kind = "newline"

Styled ==
    /\ Done("markdown")
    /\ ~HeadingUpToCode(Blocks) /\ ~HeadingOfHeading(Blocks.text) /\ ~TickBeforeFence(job.text)

(* The code units up to each place of a text.                              *)
Units(text) ==
    LET units[k \in 0 .. Len(text)] ==
            IF k = 0 THEN 0 ELSE units[k - 1] + (IF text[k].kind = "emoji" THEN 2 ELSE 1)
    IN  units

(* The characters a style is on, counted in code units.                    *)
Covered(text, style) ==
    {text[k].at : k \in {i \in DOMAIN text :
        /\ Units(text)[i - 1] >= style.start
        /\ Units(text)[i] <= style.start + style.len}}

Surviving == {Out.text[k].at : k \in DOMAIN Out.text}

(***************************************************************************)
(* Each style is on exactly those characters it was found for that are     *)
(* still there, after all markers, before, within and behind it, have been *)
(* removed and wherever emoji stand, but for the three shapes above        *)
(* (signal_client.py:96-216).                                              *)
(***************************************************************************)
StylesCoverContent ==
    Styled =>
        \A s \in Out.styles : Covered(Out.text, s) = s.of \cap Surviving

(***************************************************************************)
(* Nothing in code is taken for inline markup: what a code style is for is *)
(* still there, markers included, but for the three shapes above, of which *)
(* a line of code that looks like a heading is one                         *)
(* (signal_client.py:148-176).                                             *)
(***************************************************************************)
CodeStaysLiteral ==
    Styled =>
        \A s \in Out.styles : s.style = "MONOSPACE" => s.of \subseteq Surviving

----------------------------------------------------------------------------
(* Envelopes.                                                              *)

(* Signal counts in UTF-16 code units (signal_client.py:87-88): this is    *)
(* the mention of the character at i.                                      *)
MentionAt(e, i) ==
    {k \in DOMAIN e.mentions : e.mentions[k].start = Utf16Len(SubSeq(e.text, 1, i - 1))}

(* Each mention is that of a placeholder of its own.                       *)
WellPlaced(e) ==
    /\ \A k \in DOMAIN e.mentions :
          /\ e.mentions[k].start \in Nat /\ e.mentions[k].length = 1
          /\ \E i \in DOMAIN e.text : e.text[i].kind = "placeholder" /\ k \in MentionAt(e, i)
    /\ \A k, l \in DOMAIN e.mentions :
          e.mentions[k].start = e.mentions[l].start => k = l

(* No emoji stands in front of a mention.  Behind one the code splices at  *)
(* the wrong place, for it counts characters (envelope.py:78-81); see      *)
(* README.                                                                 *)
NarrowBefore(e) ==
    \A i, j \in DOMAIN e.text :
        i < j /\ e.text[i].kind = "emoji" => MentionAt(e, j) = {}

(* What a reader sees of the character at i.                               *)
Rendered(e, i) ==
    IF MentionAt(e, i) = {} THEN <<e.text[i]>>
    ELSE Tag(Identifier(e.mentions[CHOOSE k \in MentionAt(e, i) : TRUE]))

(***************************************************************************)
(* Every mention in a relayed text has become the tag of its own person    *)
(* and every other character is kept, in whatever order signal-cli lists   *)
(* the mentions, if no emoji stands in front of one (envelope.py:70-82).   *)
(***************************************************************************)
MentionsRendered ==
    Done("envelope") /\ ~Out.dropped /\ WellPlaced(job.envelope) /\ NarrowBefore(job.envelope) =>
        Out.text = FlattenSeq([i \in DOMAIN job.envelope.text |-> Rendered(job.envelope, i)])

(* The account is mentioned, under whatever identifier, or typed as a tag. *)
Called(account, e) ==
    \/ ShowsAccount(account, e.text)
    \/ \E k \in DOMAIN e.mentions :
          account \in {e.mentions[k].number, e.mentions[k].uuid, Identifier(e.mentions[k])}

(***************************************************************************)
(* A group message that mentions the bot is treated as if no mention were  *)
(* required, also if the mention shows a name, and one that does not is    *)
(* dropped, if no emoji stands in front of a mention (envelope.py:92-96,   *)
(* 178-181).                                                               *)
(***************************************************************************)
MentionHeard ==
    Done("envelope") /\ job.envelope.group # None /\ job.settings.requireMention
        /\ WellPlaced(job.envelope) /\ NarrowBefore(job.envelope) =>
            IF Called(job.settings.account, job.envelope)
            THEN Out = ParseEnvelope(job.envelope, [job.settings EXCEPT !.requireMention = FALSE])
            ELSE Out.dropped

----------------------------------------------------------------------------
(* Media.                                                                  *)

(* By its type, and by its name if the table does not have the type.       *)
KnownUnsupported(ref) == ref.type = "3gpp" \/ (ref.type # "audio" /\ ref.suffix = "3gp")

(***************************************************************************)
(* What the worker gets is the first attachment with the type or the name  *)
(* of audio, as a whole: nothing beyond the cap, whatever size was         *)
(* declared, and nothing that the tables know as unsupported.  A first one *)
(* of a supported type, with an honest size within the cap, reaches it     *)
(* (media.py:103-178).  What has only the name of audio counts as audio,   *)
(* whatever its type; see README.                                          *)
(***************************************************************************)
AudioWithinCap ==
    Done("audio") =>
        LET refs == job.refs
            chosen(k) == IsAudio(refs[k]) /\ \A l \in 1 .. k - 1 : ~IsAudio(refs[l])
            fits == /\ refs # << >>
                    /\ refs[1].type = "audio" /\ refs[1].bytes \in 1 .. job.max
                    /\ refs[1].declared \in {Nothing, refs[1].bytes}
        IN  /\ Out # Nothing =>
                  \E k \in DOMAIN refs : /\ chosen(k) /\ ~KnownUnsupported(refs[k])
                                         /\ Out = refs[k].bytes /\ Out \in 1 .. job.max
            /\ fits => Out = refs[1].bytes

Total(parts) ==
    LET total[k \in 0 .. Len(parts)] == IF k = 0 THEN 0 ELSE total[k - 1] + parts[k]
    IN  total[Len(parts)]

(***************************************************************************)
(* A file that is sent to a user is a whole download or payload within the *)
(* cap, never the part of one (media.py:238-324, dispatch.py:343-377).     *)
(***************************************************************************)
FileIsWhole ==
    Done("voice") /\ Out # Nothing =>
        \/ /\ job.download # Nothing /\ ~job.download.breaks
           /\ Out = Total(job.download.parts) /\ Out <= job.max
        \/ /\ job.payload # Nothing /\ job.payload.valid
           /\ Out = job.payload.bytes /\ Out <= job.max
=============================================================================
