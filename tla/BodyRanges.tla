----------------------------- MODULE BodyRanges -----------------------------
(***************************************************************************)
(* markdown_to_signal: markdown becomes a plain text and Signal's styles,  *)
(* each a start and a length in UTF-16 code units.  Characters are letters *)
(* and emoji, spaces and newlines, and the markers tick, star, under,      *)
(* tilde and hash.                                                         *)
(*                                                                         *)
(* A style is recorded with the characters it is for, which nothing in     *)
(* the algorithm reads.  Offsets count from 0, as in the code.             *)
(***************************************************************************)
EXTENDS Text

Style(start, of, style) ==
    [start |-> start, len |-> Len(of), style |-> style, of |-> {of[i].at : i \in DOMAIN of}]

(* A marker of n characters of a kind stands at i.                         *)
MarkerAt(t, i, kind, n) == \A j \in i .. i + n - 1 : j \in DOMAIN t /\ t[j].kind = kind

(* The first position from i on, at most Len(t) + 1, of a kind.            *)
FirstFrom(t, i, kind) ==
    Min({j \in DOMAIN t : j >= i /\ t[j].kind = kind} \cup {Len(t) + 1})

(* At most two newlines in a row.                                          *)
Normalized(t) ==
    Strip(Picked(t, {i \in DOMAIN t : ~(i > 2 /\ MarkerAt(t, i - 2, "newline", 3))}))

----------------------------------------------------------------------------
(* Phase 1: code blocks, the first of them again and again.                *)

Closings(t, i) == {j \in i + 3 .. Len(t) : MarkerAt(t, j, "tick", 3)}
Openings(t) == {i \in DOMAIN t : MarkerAt(t, i, "tick", 3) /\ Closings(t, i) # {}}

(* What stands between the fences, without the language and the newlines   *)
(* at the end.                                                             *)
CodeOf(t, i, j) ==
    LET eol == FirstFrom(t, i + 3, "newline")
        first == IF eol < j /\ \A k \in i + 3 .. eol - 1 : t[k].kind \in {"letter", "under"}
                 THEN eol + 1 ELSE i + 3
        last == Max({k \in first .. j - 1 : t[k].kind # "newline"} \cup {first - 1})
    IN  SubSeq(t, first, last)

(* The first block gives way to its code.                                  *)
Replaced(r) ==
    LET i == Min(Openings(r.text))
        j == Min(Closings(r.text, i))
        code == CodeOf(r.text, i, j)
    IN  IF Openings(r.text) = {} THEN r
        ELSE [text |-> SubSeq(r.text, 1, i - 1) \o code \o SubSeq(r.text, j + 3, Len(r.text)),
              styles |-> r.styles \cup {Style(i - 1, code, "MONOSPACE")}]

(* Each replacement takes six markers away.                                *)
CodeBlocks(t) ==
    LET replaced[n \in 0 .. Len(t) \div 6] ==
            IF n = 0 THEN [text |-> t, styles |-> {}] ELSE Replaced(replaced[n - 1])
    IN  replaced[Len(t) \div 6]

----------------------------------------------------------------------------
(* Phase 2: heading markers, with the white space behind them.             *)

Headings(t) ==
    {i \in DOMAIN t : /\ i = 1 \/ t[i - 1].kind = "newline"
                      /\ \E n \in 1 .. 6 : /\ MarkerAt(t, i, "hash", n)
                                           /\ i + n \in DOMAIN t
                                           /\ t[i + n].kind \in Whitespace}

HeadingStart(t, i) ==
    LET blank == Min({j \in i .. Len(t) : t[j].kind # "hash"})
    IN  Min({j \in blank .. Len(t) : t[j].kind \notin Whitespace} \cup {Len(t) + 1})

(* A heading loses its marker; out.next is where the text goes on.         *)
StripHeading(t, out, i) ==
    LET first == HeadingStart(t, i)
        eol == FirstFrom(t, first, "newline")
        heading == SubSeq(t, first, eol - 1)
        before == out.text \o SubSeq(t, out.next, i - 1)
    IN  [text |-> before \o heading, next |-> eol,
         styles |-> out.styles \cup {Style(Len(before), heading, "BOLD")}]

HeadingsStripped(t, styles) ==
    LET headings == Ascending(Headings(t))
        stripped[n \in 0 .. Len(headings)] ==
            IF n = 0 THEN [text |-> << >>, next |-> 1, styles |-> styles]
            ELSE StripHeading(t, stripped[n - 1], headings[n])
        out == stripped[Len(headings)]
    IN  [text |-> out.text \o SubSeq(t, out.next, Len(t)), styles |-> out.styles]

----------------------------------------------------------------------------
(* Phase 3: inline patterns, in this order: n markers of a kind on each    *)
(* side.                                                                   *)
Pattern(kind, n, style) == [kind |-> kind, n |-> n, style |-> style]
Patterns == <<Pattern("tick", 1, "MONOSPACE"), Pattern("star", 2, "BOLD"),
              Pattern("under", 2, "BOLD"), Pattern("tilde", 2, "STRIKETHROUGH"),
              Pattern("star", 1, "ITALIC"), Pattern("under", 1, "ITALIC")>>

KindAt(t, i) == IF i \in DOMAIN t THEN t[i].kind ELSE "end"

(* The look-arounds of the italic patterns.                                *)
Flanked(t, i, j, kind) ==
    IF kind = "star"
    THEN /\ KindAt(t, i - 1) # "star" /\ KindAt(t, i + 1) \notin {"star", "space"}
         /\ "star" \notin {KindAt(t, j - 1), KindAt(t, j + 1)}
    ELSE /\ KindAt(t, i - 1) \notin {"letter", "under"} /\ KindAt(t, i + 1) # "under"
         /\ KindAt(t, j - 1) # "under" /\ KindAt(t, j + 1) \notin {"letter", "under"}

(* The ends of the matches of a pattern at i: at least one character       *)
(* between the markers, in code and italic no newline.                     *)
Ends(t, i, p) ==
    {j \in i + p.n + 1 .. Len(t) :
        /\ MarkerAt(t, i, p.kind, p.n) /\ MarkerAt(t, j, p.kind, p.n)
        /\ p.n = 1 => \A k \in i .. j : t[k].kind # "newline"
        /\ p.style = "ITALIC" => Flanked(t, i, j, p.kind)}

(* What a match at i adds, unless it is within the one before it.          *)
Scanned(t, p, out, i) ==
    LET e == Min(Ends(t, i, p))
    IN  IF i < out.next \/ Ends(t, i, p) = {} THEN out
        ELSE [found |-> Append(out.found, [from |-> i, to |-> e + p.n - 1, pattern |-> p]),
              next |-> e + p.n]

(* The matches of a pattern, from left to right.                           *)
Matches(t, p) ==
    LET scanned[i \in 0 .. Len(t)] ==
            IF i = 0 THEN [found |-> << >>, next |-> 1] ELSE Scanned(t, p, scanned[i - 1], i)
    IN  scanned[Len(t)].found

Free(m, taken) == \A x \in taken : x.to < m.from \/ m.to < x.from
NothingTaken(styles) == {}          \* mutant: code blocks are not kept out

(* Where the code blocks are.                                             *)
TakenBy(styles) == {[from |-> s.start + 1, to |-> s.start + s.len] :
                       s \in {r \in styles : r.style = "MONOSPACE"}}

Taken(styles, out, m) ==
    IF Free(m, TakenBy(styles) \cup {[from |-> x.from, to |-> x.to] : x \in out})
    THEN out \cup {m} ELSE out

(* All matches that overlap neither code nor an earlier match.             *)
Inline(t, styles) ==
    LET found == FlattenSeq([k \in DOMAIN Patterns |-> Matches(t, Patterns[k])])
        taken[n \in 0 .. Len(found)] ==
            IF n = 0 THEN {} ELSE Taken(styles, taken[n - 1], found[n])
    IN  taken[Len(found)]

(* The positions of the markers to remove.                                 *)
Removals(matches) ==
    UNION {m.from .. m.from + m.pattern.n - 1 \cup m.to - m.pattern.n + 1 .. m.to : m \in matches}

AdjustedNot(offset, removed) == offset      \* mutant: markers before it are not counted

(* _adj.                                                                   *)
Adjusted(offset, removed) == offset - Cardinality({i \in removed : i <= offset})

(* _utf16_len.                                                             *)
Utf16Len(t) == Len(t) + Cardinality({i \in DOMAIN t : t[i].kind = "emoji"})

(* markdown_to_signal.                                                     *)
MarkdownToSignal(text) ==
    LET blocks == CodeBlocks(Normalized(text))
        headed == HeadingsStripped(blocks.text, blocks.styles)
        t == headed.text
        matches == Inline(t, headed.styles)
        removed == Removals(matches)
        plain == Picked(t, DOMAIN t \ removed)
        prior == {[s EXCEPT !.start = Adjusted(s.start, removed),
                            !.len = Adjusted(s.start + s.len, removed) - Adjusted(s.start, removed)] :
                     s \in headed.styles}
        inline == {LET first == m.from + m.pattern.n
                       inner == SubSeq(t, first, m.to - m.pattern.n)
                   IN  Style(Cardinality({i \in DOMAIN t \ removed : i < first}), inner,
                             m.pattern.style) : m \in matches}
        valid == {s \in prior : s.len > 0} \cup inline
    IN  [text |-> plain,
         styles |-> {[s EXCEPT !.start = Utf16Len(SubSeq(plain, 1, s.start)),
                               !.len = Utf16Len(SubSeq(plain, s.start + 1, s.start + s.len))] :
                        s \in {r \in valid : r.start + r.len <= Len(plain)}}]
=============================================================================
