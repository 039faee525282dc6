------------------------------- MODULE Citing -------------------------------
(***************************************************************************)
(* From the text of a version to a citation: chunking and quote matching   *)
(* (domain/text.py), the runs of consecutive chunks a quote is looked up   *)
(* in (domain/citations.py).                                               *)
(*                                                                         *)
(* A text is a sequence of characters, one model character for each class  *)
(* the code tells apart: letters "a", "b", an upper case letter "A", "fi"  *)
(* the ligature that becomes the letters "f" and "i", "." which ends a     *)
(* sentence, ")" which may follow it, "-", "shy" the soft hyphen, " " and  *)
(* "nl".  Offsets are from 1 and spans include their last character.  A    *)
(* quote is given as the parts between its ellipses.                       *)
(***************************************************************************)
EXTENDS Integers, FiniteSets, Sequences, SequencesExt

CONSTANTS VersionTexts,  \* texts to index
          Quotes,        \* quotes the model may return: sequences of parts
          Target,        \* chunk_target_chars
          MinQuote,      \* MIN_QUOTE_CHARS
          MaxElided      \* _MAX_ELIDED_SPAN

Chars == {"a", "b", "f", "i", "A", "fi", ".", ")", "-", "shy", " ", "nl"}

ASSUME CitingAssumption == /\ {Target, MinQuote, MaxElided} \subseteq Nat \ {0}
                           /\ VersionTexts \subseteq Seq(Chars)
                           /\ Quotes \subseteq Seq(Seq(Chars))

VARIABLES version,  \* the text of a version
          spans,    \* its chunks
          context,  \* ordinals of the chunks given to the model
          cited     \* the citation made of what the model returned

citingVars == <<version, spans, context, cited>>

Nowhere == [start |-> 0, end |-> 0, quote |-> <<>>]

IsSpace(c) == c \in {" ", "nl"}
IsLower(c) == c \in {"a", "b", "f", "i", "fi"}
IsAlpha(c) == IsLower(c) \/ c = "A"

-----------------------------------------------------------------------------
(* normalize_with_map and find_quote.                                      *)

\* _map_char(): what a character becomes; NFKC may make it several.
MapChar(c) == CASE c = "fi" -> <<"f", "i">>
                [] c = "A"  -> <<"a">>
                [] OTHER    -> <<c>>

\* Position of the letter that continues a word broken by "-" at i, or 0.
Continues(text, i) ==
    LET rest == {j \in (i + 1)..Len(text) : ~IsSpace(text[j])}
        j == IF rest = {} THEN 0 ELSE Min(rest)
    IN IF /\ j /= 0
          /\ \E k \in (i + 1)..(j - 1) : text[k] = "nl"
          /\ IsLower(text[j])
       THEN j ELSE 0

\* What is put out at i, and where to read on.  A place is a position with
\* the class of the last character put out.
Taken(text, i, last) ==
    LET c == text[i]
        Skipped(j) == [out |-> <<>>, next |-> <<j, last>>]
    IN CASE c = "shy" -> Skipped(i + 1)
         [] c = "-" /\ last = "letter" /\ Continues(text, i) /= 0 ->
              Skipped(Continues(text, i))
         [] IsSpace(c) /\ last \in {"none", "space"} -> Skipped(i + 1)
         [] IsSpace(c) /\ last \notin {"none", "space"} ->
              [out |-> <<" ">>, next |-> <<i + 1, "space">>]
         [] OTHER ->
              [out |-> MapChar(c),
               next |-> <<i + 1, IF IsAlpha(Last(MapChar(c))) THEN "letter"
                                 ELSE "other">>]

\* Normalized characters with their offsets in text.
Normalize(text) ==
    LET norm[p \in (1..(Len(text) + 1)) \X
                     {"none", "space", "letter", "other"}] ==
          IF p[1] > Len(text) THEN <<>>
          ELSE LET t == Taken(text, p[1], p[2]) IN
               [k \in 1..Len(t.out) |-> [char |-> t.out[k], at |-> p[1]]] \o
                   norm[t.next]
    IN norm[<<1, "none">>]

CharsOf(n) == [i \in 1..Len(n) |-> n[i].char]
TrimEnd(s) == IF s /= <<>> /\ Last(s) = " " THEN Front(s) ELSE s
Normalized(text) == TrimEnd(CharsOf(Normalize(text)))

\* str.find(): where part starts in hay at or after from, or 0.
Find(hay, part, from) ==
    LET at == {i \in from..(Len(hay) - Len(part) + 1) :
                  SubSeq(hay, i, i + Len(part) - 1) = part}
    IN IF at = {} THEN 0 ELSE Min(at)

\* Where the last of the parts ends when each is taken as early as it can
\* be, the first one at first; 0 if one is missing.
Greedy(hay, parts, first) ==
    LET g[k \in 1..Len(parts)] ==
          IF k = 1 THEN first + Len(parts[1]) - 1
          ELSE IF g[k - 1] = 0 THEN 0
          ELSE LET p == Find(hay, parts[k], g[k - 1] + 1) IN
               IF p = 0 THEN 0 ELSE p + Len(parts[k]) - 1
    IN g[Len(parts)]

\* The parts of a quote that are left.
PartsOf(quote) ==
    FoldLeft(LAMBDA parts, p : IF Normalized(p) = <<>> THEN parts
                               ELSE Append(parts, Normalized(p)),
             <<>>, quote)

\* The span of an elided quote is bounded, and a later start is tried when
\* it is too long.  hay are the characters of n.
Search(n, hay, parts) ==
    LET Fits(first, last) ==
            Len(parts) = 1 \/ n[last].at - n[first].at < MaxElided
        search[from \in 1..(Len(hay) + 1)] ==
            LET first == Find(hay, parts[1], from)
                last == Greedy(hay, parts, first) IN
            IF first = 0 \/ last = 0 THEN <<>>
            ELSE IF Fits(first, last) THEN <<n[first].at, n[last].at>>
            ELSE search[first + 1]
    IN IF Len(FlattenSeq(parts)) < MinQuote THEN <<>> ELSE search[1]

\* find_quote(): <<start, end>> in text, or <<>>.
FindQuote(text, quote) ==
    LET SearchIn(n) == Search(n, CharsOf(n), PartsOf(quote))
    IN SearchIn(Normalize(text))

-----------------------------------------------------------------------------
(* chunk_text.                                                             *)

\* Last character of the piece that starts at from and may reach hard: at a
\* paragraph, else after a sentence, else after a word of the second half.
Cut(text, from, hard) ==
    LET window == (from + (IF Target \div 2 > 1 THEN Target \div 2 ELSE 1))..hard
        paragraphs == {i \in window : /\ i - 1 \in window
                                      /\ text[i - 1] = "nl" /\ text[i] = "nl"}
        sentences == {i \in window : /\ IsSpace(text[i])
                                     /\ \E s \in window :
                                          /\ s < i /\ text[s] = "."
                                          /\ \A k \in (s + 1)..(i - 1) :
                                                text[k] = ")"}
        words == {i \in window : text[i] = " "}
    IN CASE hard = Len(text)  -> hard
         [] paragraphs /= {}  -> Max(paragraphs)
         [] sentences /= {}   -> Max(sentences)
         [] words /= {}       -> Max(words)
         [] OTHER             -> hard

\* What is no space, at the positions of S.
Inked(text, S) == {i \in S : ~IsSpace(text[i])}

\* The chunk that comes first from pos on, and where its piece is cut.
FirstChunk(text, pos) ==
    LET n == Len(text)
        first == Min(Inked(text, pos..n))
        hard == IF first + Target - 1 < n THEN first + Target - 1 ELSE n
        cut == Cut(text, first, hard)
    IN [start |-> first, end |-> Max(Inked(text, first..cut)), cut |-> cut]

ChunkText(text) ==
    LET n == Len(text)
        chunks[pos \in 1..(n + 1)] ==
          IF Inked(text, pos..n) = {} THEN <<>>
          ELSE LET p == FirstChunk(text, pos) IN
               <<[start |-> p.start, end |-> p.end]>> \o chunks[p.cut + 1]
    IN chunks[1]

-----------------------------------------------------------------------------
(* CitationResolver.                                                       *)

\* The runs of consecutive chunks in the context.
Runs == {r \in SUBSET context :
            /\ r /= {}
            /\ \A i, j \in r : i..j \subseteq r
            /\ Min(r) - 1 \notin context
            /\ Max(r) + 1 \notin context}

RunStart(r) == spans[Min(r)].start

\* Variant: the chunks are joined without the space between them.
RunTextJoined(r) ==
    FlattenSeq([k \in 1..Cardinality(r) |->
        LET s == spans[Min(r) + k - 1] IN SubSeq(version, s.start, s.end)])

\* The text of a run: its chunks, with spaces for what lies between them.
RunText(r) ==
    LET at(i) == RunStart(r) + i - 1 IN
    [i \in 1..(spans[Max(r)].end - RunStart(r) + 1) |->
        IF \E k \in r : at(i) \in spans[k].start..spans[k].end
          THEN version[at(i)] ELSE " "]

\* The runs a quote is found in, with its place in the text of the run.
Hits(quote) ==
    {h \in {[run |-> r, text |-> RunText(r), at |-> FindQuote(RunText(r), quote)]
               : r \in Runs} : h.at /= <<>>}

\* The run of the named chunk first, then the others in order.
Prefer(hits, named) ==
    CHOOSE h \in hits : \/ named \in h.run
                        \/ \A o \in hits : /\ named \notin o.run
                                           /\ Min(h.run) <= Min(o.run)

\* resolve()
ResolveQuote(named, quote) ==
    LET Citation(h) == [start |-> RunStart(h.run) + h.at[1] - 1,
                        end |-> RunStart(h.run) + h.at[2] - 1,
                        quote |-> SubSeq(h.text, h.at[1], h.at[2])]
        From(hits) == IF hits = {} \/ named \notin context THEN Nowhere
                      ELSE Citation(Prefer(hits, named))
    IN From(Hits(quote))

CitingInit ==
    /\ version \in VersionTexts
    /\ spans = <<>>
    /\ context = {}
    /\ cited = Nowhere

\* _write_version() stores the chunks.
Index ==
    /\ spans = <<>> /\ ChunkText(version) /= <<>>
    /\ spans' = ChunkText(version)
    /\ UNCHANGED <<version, context, cited>>

\* _ranked_chunks() picks some of them for a question.
Select ==
    /\ context = {}
    /\ \E c \in SUBSET (1..Len(spans)) : c /= {} /\ context' = c
    /\ UNCHANGED <<version, spans, cited>>

\* The model answers with a quote and the chunk it says it is from.
Cite(named, quote) ==
    /\ context /= {}
    /\ cited = Nowhere
    /\ cited' = ResolveQuote(named, quote)
    /\ cited' /= Nowhere
    /\ UNCHANGED <<version, spans, context>>

CitingNext ==
    \/ Index
    \/ Select
    \/ \E k \in 1..(Len(spans) + 1), q \in Quotes : Cite(k, q)

CitingSpec == CitingInit /\ [][CitingNext]_citingVars

-----------------------------------------------------------------------------

(***************************************************************************)
(* The invariant chunk_text() promises: chunks are in order, do not        *)
(* overlap, neither start nor end with a space, are not longer than the    *)
(* target, and no character but spaces is left out.                        *)
(***************************************************************************)
ChunksCover ==
    spans /= <<>> =>
        /\ \A k \in 1..Len(spans) :
              /\ spans[k].start <= spans[k].end
              /\ spans[k].end - spans[k].start < Target
              /\ ~IsSpace(version[spans[k].start])
              /\ ~IsSpace(version[spans[k].end])
              /\ k < Len(spans) => spans[k].end < spans[k + 1].start
        /\ \A i \in 1..Len(version) :
              ~IsSpace(version[i]) =>
                  \E k \in 1..Len(spans) : i \in spans[k].start..spans[k].end

(***************************************************************************)
(* The offsets of a citation index the original text of the version, even  *)
(* when the quote crosses chunks: what they enclose is the stored quote,   *)
(* but for the kind of its spaces, and it holds no text that was not given *)
(* to the model.                                                           *)
(***************************************************************************)
OffsetsExact ==
    cited /= Nowhere =>
        /\ Len(cited.quote) = cited.end - cited.start + 1
        /\ \A i \in cited.start..cited.end :
              LET c == cited.quote[i - cited.start + 1] IN
              \/ version[i] = c
              \/ IsSpace(version[i]) /\ IsSpace(c)
        /\ \A i \in cited.start..cited.end : ~IsSpace(version[i]) =>
              \E k \in context : i \in spans[k].start..spans[k].end

\* part stands in hay at i.
Occurs(hay, part, i) == /\ i + Len(part) - 1 <= Len(hay)
                        /\ SubSeq(hay, i, i + Len(part) - 1) = part

\* Where the parts may stand in hay, in order and apart.
Placings(hay, parts) ==
    {at \in [1..Len(parts) -> 1..Len(hay)] :
        \A k \in 1..Len(parts) :
            /\ Occurs(hay, parts[k], at[k])
            /\ k < Len(parts) => at[k] + Len(parts[k]) <= at[k + 1]}

\* Where the last of them ends.
Reach(parts, at) == at[Len(parts)] + Len(Last(parts)) - 1

\* They stand close enough for an elided quote, in the characters of n.
Close(n, parts, at) ==
    Len(parts) = 1 \/ n[Reach(parts, at)].at - n[at[1]].at < MaxElided

\* The slice of text at m holds the parts from end to end; a ligature at an end
\* may be cut in half.
Encloses(text, parts, m) ==
    LET slice == Normalized(SubSeq(text, m[1], m[2])) IN
    \E at \in Placings(slice, parts) :
        /\ at[1] = 1 \/ (at[1] = 2 /\ text[m[1]] = "fi")
        /\ LET beyond == Len(slice) - Reach(parts, at) IN
           beyond = 0 \/ (beyond = 1 /\ text[m[2]] = "fi")

(***************************************************************************)
(* find_quote() against its definition: it finds a quote exactly when its  *)
(* normalized parts occur in order within the span allowed, and the slice  *)
(* it returns normalizes to a text that starts with the first part, holds  *)
(* the others in order, and ends with the last, but for a ligature cut in  *)
(* half.                                                                   *)
(***************************************************************************)
QuotesExact ==
    LET n == Normalize(version)
        Exact(parts, m) ==
            /\ (m /= <<>>) <=>
                  /\ Len(FlattenSeq(parts)) >= MinQuote
                  /\ \E at \in Placings(CharsOf(n), parts) : Close(n, parts, at)
            /\ m /= <<>> => Encloses(version, parts, m)
    IN spans = <<>> =>
          \A quote \in Quotes : Exact(PartsOf(quote), FindQuote(version, quote))

(***************************************************************************)
(* What the citations of the product rest on (domain/text.py): chunks that *)
(* leave nothing out, quotes found exactly when they are there, and        *)
(* offsets that index the original text.                                   *)
(***************************************************************************)
CitationsExact == ChunksCover /\ QuotesExact /\ OffsetsExact

=============================================================================
