---------------------------- MODULE DocumentChunks ----------------------------
(***************************************************************************)
(* chunk_document: how the text of a document is cut into the chunks that  *)
(* searches return and answers cite.  A text is the lengths of its lines,  *)
(* newlines included; the pages of a PDF are intervals of the text with a  *)
(* blank line between two of them.                                         *)
(***************************************************************************)
EXTENDS Naturals, FiniteSetsExt, SequencesExt

CONSTANTS
  MaxLength,  \* bound on the length of a text
  MaxChars    \* bound on max_chars

ASSUME TextAssumption == MaxLength \in Nat /\ MaxChars \in Nat \ {0}

Overlap(i, k) == i.start < k.end /\ k.start < i.end

EndOfLine(lines, n) ==
  LET end[i \in 0..Len(lines)] == IF i = 0 THEN 0 ELSE end[i - 1] + lines[i] IN end[n]
LineAt(lines, n) == [start |-> EndOfLine(lines, n - 1), end |-> EndOfLine(lines, n)]

Length(lines) == EndOfLine(lines, Len(lines))

\* PdfDocumentLoader joins the pages with two newlines: a gap begins where two
\* lines end one after the other.
Gaps(lines) ==
  LET ends == {EndOfLine(lines, n) : n \in DOMAIN lines} IN
    {g \in SUBSET {e \in 0..Length(lines) : {e + 1, e + 2} \subseteq ends} :
       \A e, f \in g : e < f => e + 2 <= f}
Pages(lines, gaps) ==
  LET count == Cardinality(gaps)
      at == CHOOSE list \in [1..count -> gaps] : \A i, j \in 1..count : i < j => list[i] < list[j] IN
    [p \in 1..(count + 1) |->
       [start |-> IF p = 1 THEN 0 ELSE at[p - 1] + 2,
        end |-> IF p > count THEN Length(lines) ELSE at[p]]]

\* normalized_text, pages (none unless it is a PDF), and max_chars
Document ==
  UNION {{[lines |-> lines, pages |-> pages, max |-> max] : max \in 1..MaxChars,
          pages \in {<<>>} \cup {Pages(lines, g) : g \in Gaps(lines)}} :
         lines \in {l \in BoundedSeq(1..MaxLength, MaxLength) : Length(l) <= MaxLength}}

VARIABLE document  \* the document that is cut: one of Document, for ever
-----------------------------------------------------------------------------
\* What the loop over the lines has made so far, and the chunk it is filling.
NoChunk == [start |-> 0, end |-> 0, first |-> 0, last |-> 0]
Begun == [done |-> <<>>, open |-> NoChunk]

\* Nothing is open while last is 0: lines are counted from 1.
Close(c) ==
  IF c.open.last = 0 THEN c
  ELSE [done |-> Append(c.done, c.open), open |-> NoChunk]

\* A line longer than max is cut into segments of max characters.
Segments(line, n, max) ==
  LET count == (line.end - line.start + max - 1) \div max IN
    [i \in 1..count |->
       [start |-> line.start + (i - 1) * max, end |-> Min({line.start + i * max, line.end}),
        first |-> n, last |-> n]]

\* One turn of the loop.
\* Mutant: the open chunk is not closed before a long line.
AddLineUnclosed(c, line, n, max) ==
  LET closed == Close(c)
      alone == [start |-> line.start, end |-> line.end, first |-> n, last |-> n] IN
    IF line.end - line.start > max
    THEN [c EXCEPT !.done = @ \o Segments(line, n, max)]
    ELSE IF c.open.last # 0 /\ line.end - c.open.start <= max
    THEN [c EXCEPT !.open.end = line.end, !.open.last = n]
    ELSE [closed EXCEPT !.open = alone]
AddLine(c, line, n, max) ==
  LET closed == Close(c)
      alone == [start |-> line.start, end |-> line.end, first |-> n, last |-> n] IN
    IF line.end - line.start > max
    THEN [closed EXCEPT !.done = @ \o Segments(line, n, max)]
    ELSE IF c.open.last # 0 /\ line.end - c.open.start <= max
    THEN [c EXCEPT !.open.end = line.end, !.open.last = n]
    ELSE [closed EXCEPT !.open = alone]

Chunks(d) ==
  LET filled[n \in 0..Len(d.lines)] ==
        IF n = 0 THEN Begun ELSE AddLine(filled[n - 1], LineAt(d.lines, n), n, d.max)
  IN  Close(filled[Len(d.lines)]).done

\* _page_range_for_offsets: the pages a chunk overlaps; where it is only part
\* of the blank line between two pages, the pages on both sides of it.
PageRange(c, pages) ==
  LET over == {p \in DOMAIN pages : Overlap(pages[p], c)}
      after == Min({p \in DOMAIN pages : pages[p].end > c.start})
      before == Max({p \in DOMAIN pages : pages[p].start < c.end}) IN
    IF over # {} THEN <<Min(over), Max(over)>>
    ELSE <<Min({after, before}), Max({after, before})>>
-----------------------------------------------------------------------------
\* The chunks tile the text: none empty, none longer than max_chars, nothing
\* left out or told twice, so that an offset of a citation means one place.
\* Its lines are those it overlaps, and so are its pages, where it overlaps
\* any; a chunk of a PDF always has pages (document_chunker.py:13, :129).
ChunksTileText ==
  LET chunks == Chunks(document)
      bounds == [i \in 0..Len(chunks) |-> IF i = 0 THEN 0 ELSE chunks[i].end]
      lines == [n \in DOMAIN document.lines |-> LineAt(document.lines, n)] IN
    /\ bounds[Len(chunks)] = Length(document.lines)
    /\ \A i \in DOMAIN chunks :
         LET c == chunks[i] IN
           /\ c.start = bounds[i - 1] /\ c.end \in (c.start + 1)..(c.start + document.max)
           /\ {n \in DOMAIN lines : Overlap(lines[n], c)} = c.first..c.last
           /\ document.pages # <<>> =>
                LET range == PageRange(c, document.pages) IN
                  /\ 1 <= range[1] /\ range[1] <= range[2] /\ range[2] <= Len(document.pages)
                  /\ \A p \in DOMAIN document.pages :
                       Overlap(document.pages[p], c) => p \in range[1]..range[2]
=============================================================================
