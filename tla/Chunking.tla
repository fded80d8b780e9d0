------------------------------ MODULE Chunking ------------------------------
(***************************************************************************)
(* chunk_message: a reply is split into messages of at most max            *)
(* characters, at paragraphs, else sentences, else words, else anywhere.   *)
(* Characters are letters, sentence terminators ("dot"), spaces and        *)
(* newlines.                                                               *)
(***************************************************************************)
EXTENDS Text

NonEmpty(parts) == Picked(parts, {k \in DOMAIN parts : parts[k] # << >>})

(* _PARAGRAPH_SPLIT cuts at two newlines or more.                          *)
Paragraphs(t) ==
    LET newline(i) == i \in DOMAIN t /\ t[i].kind = "newline"
        cut == {i \in DOMAIN t : newline(i) /\ (newline(i - 1) \/ newline(i + 1))}
        parts == Runs(t, DOMAIN t \ cut)
    IN  NonEmpty([k \in DOMAIN parts |-> Strip(parts[k])])

(* _SENTENCE_SPLIT: each run of non-terminators with the terminators after *)
(* it.  The terminators a paragraph begins with belong to no match.        *)
Sentences(p) ==
    LET dot(i) == p[i].kind = "dot"
        firsts == Ascending({i \in DOMAIN p : ~dot(i) /\ (i = 1 \/ dot(i - 1))})
        last(k) == IF k = Len(firsts) THEN Len(p) ELSE firsts[k + 1] - 1
    IN  NonEmpty([k \in DOMAIN firsts |-> Strip(SubSeq(p, firsts[k], last(k)))])

(* _expand_paragraph.                                                      *)
Expand(p, max) ==
    LET segments(parts) == [k \in DOMAIN parts |->
                               [text |-> parts[k], blank |-> k = 1]]
    IN  IF Len(p) <= max THEN segments(<<p>>)
        ELSE IF Sentences(p) # << >> /\ \E i \in DOMAIN p : p[i].kind = "dot"
        THEN segments(Sentences(p))
        ELSE segments(Words(p))

LeftOverLost(w, max) == << >>       \* mutant: the end of a cut word is dropped

(* The pieces of a word of max characters, and what is left over.          *)
FullPieces(w, max) == [k \in 1 .. Len(w) \div max |-> SubSeq(w, (k - 1) * max + 1, k * max)]
LeftOver(w, max) == SubSeq(w, (Len(w) \div max) * max + 1, Len(w))

Flushed(chunks, current) == IF current = << >> THEN chunks ELSE Append(chunks, current)

SplitAnywhere(t, max, chunks) ==    \* mutant: words are not looked for
    [chunks |-> chunks \o FullPieces(t, max), current |-> LeftOver(t, max)]

(* One word of _split_oversized_segment: the chunks finished so far, and   *)
(* the run of words that may grow.                                         *)
AddWord(out, word, max) ==
    LET candidate == IF out.current = << >> THEN word
                     ELSE out.current \o Inserted("space") \o word
        flushed == Flushed(out.chunks, out.current)
    IN  IF Len(candidate) <= max THEN [chunks |-> out.chunks, current |-> candidate]
        ELSE IF Len(word) <= max THEN [chunks |-> flushed, current |-> word]
        ELSE [chunks |-> flushed \o FullPieces(word, max), current |-> LeftOver(word, max)]

(* _split_oversized_segment: chunks is extended, current is returned.      *)
SplitOversized(t, max, chunks) ==
    LET words == Words(t)
        split[k \in 0 .. Len(words)] ==
            IF k = 0 THEN [chunks |-> chunks, current |-> << >>]
            ELSE AddWord(split[k - 1], words[k], max)
    IN  split[Len(words)]

Joiner(segment) ==
    IF segment.blank THEN Inserted("newline") \o Inserted("newline") ELSE Inserted("space")

FitsWithoutJoiner(current, segment, max) == Len(current) + Len(segment.text) <= max    \* mutant

(* The segment fits behind what has been packed so far.                    *)
Fits(current, segment, max) ==
    Len(current) + Len(segment.text)
        + (IF current = << >> THEN 0 ELSE Len(Joiner(segment))) <= max

(* One segment of chunk_message.                                           *)
AddSegment(out, s, max) ==
    LET flushed == Flushed(out.chunks, out.current)
    IN  IF Fits(out.current, s, max)
        THEN [chunks |-> out.chunks,
              current |-> IF out.current = << >> THEN s.text
                          ELSE out.current \o Joiner(s) \o s.text]
        ELSE IF Len(s.text) <= max THEN [chunks |-> flushed, current |-> s.text]
        ELSE SplitOversized(s.text, max, flushed)

Segments(text, max) ==
    LET paragraphs == Paragraphs(Strip(text))
    IN  FlattenSeq([k \in DOMAIN paragraphs |-> Expand(paragraphs[k], max)])

Packed(segments, max) ==
    LET packed[k \in 0 .. Len(segments)] ==
            IF k = 0 THEN [chunks |-> << >>, current |-> << >>]
            ELSE AddSegment(packed[k - 1], segments[k], max)
    IN  packed[Len(segments)]

(* chunk_message.                                                          *)
ChunkMessage(text, max) ==
    LET packed == Packed(Segments(text, max), max)
    IN  Flushed(packed.chunks, packed.current)
=============================================================================
