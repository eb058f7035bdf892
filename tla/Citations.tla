-------------------------------- MODULE Citations -------------------------------
(***************************************************************************)
(* Sources stored with their text, and the extracts quoted from them       *)
(* (engine/references.py): a quote that is not in the text is not filed.   *)
(*                                                                         *)
(* A text is a sequence of characters: letters, the hyphen, a blank, the   *)
(* break of a line, and one that stands for the words of a heading.        *)
(* Positions count from 1 and a place is <<first, last>>.  The key of a    *)
(* call is its caller's, so that a call is new.                            *)
(***************************************************************************)
EXTENDS Idempotency, SequencesExt

CONSTANTS
    Titles,
    Texts,         \* what sources say
    Quotes,        \* what sessions say that they say
    MaxSources, MaxExtracts

ASSUME CitationBounds == {MaxSources, MaxExtracts} \subseteq Nat
ASSUME TextsAreTexts == \A t \in Texts \cup Quotes : t \in Seq(Range(t))

VARIABLES
    sources,       \* [title, text, live]
    extracts       \* [source, quote, place, section, name, live]

citationVars == <<sources, extracts>>

CitationsInit == sources = <<>> /\ extracts = <<>>

Space == "space"
Break == "break"
Blank == {Space, Break}
Hyphen == "-"
Heading == "heading"

Blanks(s) == \A i \in DOMAIN s : s[i] \in Blank

\* detect_sections: a line that is a heading, blanks aside, starts one, and so does the
\* text.
Sections(text) ==
    LET line(i) == {j \in DOMAIN text : j >= i /\ \A k \in i..j : text[k] # Break}
        marks == {i \in DOMAIN text :
                    /\ i = 1 \/ text[i - 1] = Break
                    /\ \E h \in line(i) : /\ text[h] = Heading
                                          /\ \A j \in line(i) \ {h} : text[j] = Space}
        starts == marks \cup {1}
        later(i) == {j \in starts : j > i}
        last(i) == IF later(i) # {} THEN Min(later(i)) - 1 ELSE Len(text)
    IN  {<<i, last(i)>> : i \in starts}

---------------------------------------------------------------------------
(* Reading a text.                                                         *)

EndsLine_blank(s, i) == s[i] = Hyphen /\ i < Len(s) /\ s[i + 1] \in Blank

EndsLine(s, i) == s[i] = Hyphen /\ i < Len(s) /\ s[i + 1] = Break

\* A character is read after others: of a word that goes on in the next line the blanks
\* are skipped; other blanks wait for what comes after them.
ReadOn(acc, s, i, keepBreakHyphen) ==
    CASE acc.joining /\ s[i] \in Blank -> acc
      [] EndsLine(s, i) ->
            [acc EXCEPT !.joining = TRUE,
                        !.out = IF keepBreakHyphen THEN Append(@, <<Hyphen, i>>) ELSE @]
      [] ~acc.joining /\ s[i] \in Blank -> [acc EXCEPT !.pending = acc.out # <<>>]
      [] OTHER ->
            [out |-> Append(IF acc.pending THEN Append(acc.out, <<Space, i>>) ELSE acc.out,
                            <<s[i], i>>),
             pending |-> FALSE, joining |-> FALSE]

\* _normalize: characters with the positions they come from.  Blanks become one, and none
\* at the edges; a word broken by a hyphen is joined, with the hyphen or without.
Normal(s, keepBreakHyphen) ==
    LET read[i \in 0..Len(s)] ==
            IF i = 0 THEN [out |-> <<>>, pending |-> FALSE, joining |-> FALSE]
            ELSE ReadOn(read[i - 1], s, i, keepBreakHyphen)
    IN  read[Len(s)].out

Characters(reading) == [i \in DOMAIN reading |-> reading[i][1]]

\* Where q first is in s, 0 if nowhere.
Find(s, q) ==
    LET at == {i \in 1..(Len(s) - Len(q) + 1) : SubSeq(s, i, i + Len(q) - 1) = q}
    IN  IF at = {} THEN 0 ELSE Min(at)

Nowhere == <<0, 0>>

\* Where a reading of the quote is in a reading of the text.
ReadAt(raw, quote, keepText, keepQuote) ==
    LET t == Normal(raw, keepText)
        q == Normal(quote, keepQuote)
        at == IF q = <<>> THEN 0 ELSE Find(Characters(t), Characters(q))
    IN  IF at = 0 THEN Nowhere ELSE <<t[at][2], t[at + Len(q) - 1][2]>>

\* _locate: as it stands, or else in the first pair of readings that has it.
Locate(raw, quote) ==
    LET direct == Find(raw, quote)
        places == <<ReadAt(raw, quote, FALSE, FALSE), ReadAt(raw, quote, FALSE, TRUE),
                    ReadAt(raw, quote, TRUE, FALSE), ReadAt(raw, quote, TRUE, TRUE)>>
        hits == {n \in 1..4 : places[n] # Nowhere}
    IN  IF direct # 0 THEN <<direct, direct + Len(quote) - 1>>
        ELSE IF hits # {} THEN places[Min(hits)] ELSE Nowhere

\* The words at a place, with one blank between them.
Worded(raw, place) ==
    LET s == SubSeq(raw, place[1], place[2])
    IN  Characters(Normal([i \in DOMAIN s |-> IF s[i] \in Blank THEN Space ELSE s[i]], TRUE))

---------------------------------------------------------------------------
(* Operations.                                                             *)

\* A name is free when no live row has it.
Free(rows, field, name) == \A i \in DOMAIN rows : rows[i].live => rows[i][field] # name

\* The text is stored once for all the sources that have it.
AddSource(title, text) ==
    /\ Len(sources) < MaxSources
    /\ ~Blanks(text)
    /\ Free(sources, "title", title)
    /\ sources' = Append(sources, [title |-> title, text |-> text, live |-> TRUE])
    /\ UNCHANGED <<extracts, receipts>>

\* Of a source that is retired, too; named for its words, a paraphrase not being given.
AddExtract(s, quote) ==
    LET raw == sources[s].text
        place == Locate(raw, quote)
        name == Worded(raw, place)
    IN  /\ Len(extracts) < MaxExtracts
        /\ ~Blanks(quote)
        /\ place # Nowhere
        /\ Free(extracts, "name", name)
        /\ extracts' = Append(extracts,
             [source |-> s, quote |-> quote, place |-> place, name |-> name, live |-> TRUE,
              section |-> CHOOSE x \in Sections(raw) : x[1] <= place[1] /\ place[1] <= x[2]])
        /\ UNCHANGED <<sources, receipts>>

\* retire_row.
RetireSource(s) ==
    /\ sources[s].live
    /\ sources' = [sources EXCEPT ![s].live = FALSE]
    /\ UNCHANGED <<extracts, receipts>>

RetireExtract(e) ==
    /\ extracts[e].live
    /\ extracts' = [extracts EXCEPT ![e].live = FALSE]
    /\ UNCHANGED <<sources, receipts>>

\* section_coverage: the extracts a section is credited with.
Coverage(s, section) ==
    {e \in DOMAIN extracts : /\ extracts[e].live /\ extracts[e].source = s
                             /\ extracts[e].place[1] \in section[1]..section[2]}

---------------------------------------------------------------------------
(* Properties.                                                             *)

\* What is left of s without blanks and, unless they are kept, the hyphens that end a line.
Kept(s, keep) == {i \in DOMAIN s : /\ s[i] \notin Blank
                                   /\ keep \/ ~(s[i] = Hyphen /\ i < Len(s) /\ s[i + 1] = Break)}

Nth(S, n) == CHOOSE i \in S : Cardinality({j \in S : j <= i}) = n

Solid(s, keep) == [n \in 1..Cardinality(Kept(s, keep)) |-> s[Nth(Kept(s, keep), n)]]

\* V2_BUILD_PLAN.md 5.4, 5.7 - what is on file as quoted is in the text of its source, at
\* the place the extract names: there are the same characters in the same order, but for
\* blanks and hyphens that end a line; and one section is credited with it, its own.
QuotesVerified ==
    \A e \in DOMAIN extracts :
        LET x == extracts[e]
            raw == sources[x.source].text
            found == SubSeq(raw, x.place[1], x.place[2])
        IN  /\ \E k, l \in BOOLEAN : Solid(found, k) = Solid(x.quote, l)
            /\ {c \in Sections(raw) : e \in Coverage(x.source, c)} =
                    IF x.live THEN {x.section} ELSE {}
===============================================================================
