------------------------------ MODULE Chunking ------------------------------
(***************************************************************************)
(* How the AI service cuts a text into the chunks it embeds: chunk_text of *)
(* chunking.py, after the parsers.                                         *)
(*                                                                         *)
(* A text is a sequence of blocks: pages, paragraphs, rows or lines.  A    *)
(* block is a sequence of pieces, of which only the length counts and      *)
(* whether it ends like a sentence.  A unit is a length.                   *)
(*                                                                         *)
(* An overlap is cut at a number of characters and stripped: it loses a    *)
(* blank, or the two of a paragraph's end, if it begins there.  All that   *)
(* may result are followed.                                                *)
(***************************************************************************)
EXTENDS Naturals, Sequences
LOCAL INSTANCE SequencesExt

Longest(lengths) == FoldLeft(LAMBDA a, b : IF a < b THEN b ELSE a, 0, lengths)

\* Texts joined by one blank.
Joined(lengths) == FoldLeft(LAMBDA a, b : IF a = 0 THEN b ELSE a + 1 + b, 0, lengths)

Lengths(pieces) == [i \in DOMAIN pieces |-> pieces[i].len]

-----------------------------------------------------------------------------
(* parse_bytes and parse_url: pages and plain texts come apart at blank    *)
(* lines, rows, the paragraphs of a document and the lines of a page of    *)
(* the web do not.                                                         *)

Paragraphs(type, blocks) ==
  IF type \in {"pdf", "text"} \/ blocks = <<>> THEN blocks ELSE <<FlattenSeq(blocks)>>

\* _split_sentences: a piece that does not end goes on in the next one.
Sentences(paragraph) ==
  FoldLeft(LAMBDA done, piece :
             IF done # <<>> /\ ~Last(done).ends
             THEN Append(Front(done), [len |-> Last(done).len + 1 + piece.len, ends |-> piece.ends])
             ELSE Append(done, piece),
           <<>>, paragraph)

\* A paragraph that is too long is cut between sentences.
Pack(sentences, max) ==
  LET end == FoldLeft(LAMBDA s, len :
                        IF s.buf # 0 /\ s.buf + len + 1 > max
                        THEN [units |-> Append(s.units, s.buf), buf |-> len]
                        ELSE [s EXCEPT !.buf = Joined(<<s.buf, len>>)],
                      [units |-> <<>>, buf |-> 0], sentences)
  IN  Append(end.units, end.buf)

UnitsOf(paragraph, max) ==
  IF Joined(Lengths(paragraph)) <= max THEN <<Joined(Lengths(paragraph))>>
  ELSE Pack(Lengths(Sentences(paragraph)), max)

Units(paragraphs, max) ==
  FoldLeft(LAMBDA units, paragraph : units \o UnitsOf(paragraph, max), <<>>, paragraphs)

-----------------------------------------------------------------------------
(* The chunks: how long each is and the units that it has in full.         *)

NoChunk == [len |-> 0, own |-> <<>>]

\* current[-overlap:], stripped.
Tails(len, overlap) ==
  IF len <= overlap THEN {len} ELSE {overlap - blanks : blanks \in 0..(IF overlap < 2 THEN overlap ELSE 2)}

\* What the next unit makes of the chunks that are done and the current one.
Grow(s, unit, max, overlap) ==
  IF s.cur.len # 0 /\ s.cur.len + unit + 1 > max
  THEN {[done |-> Append(s.done, s.cur), cur |-> [len |-> Joined(<<tail, unit>>), own |-> <<unit>>]] :
          tail \in Tails(s.cur.len, overlap)}
  ELSE {[s EXCEPT !.cur = [len |-> IF @.len = 0 THEN unit ELSE @.len + 2 + unit,
                           own |-> Append(@.own, unit)]]}

ChunkUnits(units, max, overlap) ==
  LET ends == FoldLeft(LAMBDA ss, unit : UNION {Grow(s, unit, max, overlap) : s \in ss},
                       {[done |-> <<>>, cur |-> NoChunk]}, units)
  IN  {IF s.cur = NoChunk THEN s.done ELSE Append(s.done, s.cur) : s \in ends}

\* An overlap of 0 is the configured one.
ChunkText(type, blocks, max, overlap, configured) ==
  ChunkUnits(Units(Paragraphs(type, blocks), max), max, IF overlap = 0 THEN configured ELSE overlap)

-----------------------------------------------------------------------------
(* Properties. *)

\* Every unit is in full in one chunk, in the order of the text.
\* (chunking.py: no unit is lost or cut where two chunks meet)
NothingIsLost(units, chunks) ==
  FlattenSeq([i \in DOMAIN chunks |-> chunks[i].own]) = units

\* No chunk is empty or longer than the limit and one blank, unless it is an
\* overlap with a unit of its own, which is one sentence if that is too long.
\* (chunking.py; test_chunking.py: "margen por solapamiento")
SizeIsBounded(units, chunks, max, overlap) ==
  \A i \in DOMAIN chunks :
    /\ 0 < chunks[i].len
    /\ \/ chunks[i].len <= max + 1
       \/ chunks[i].len <= overlap + 1 + Longest(units)

\* A unit is longer than the limit only if one sentence is.
\* (chunking.py: a sentence is never cut)
OnlySentencesAreLong(paragraphs, max) ==
  \A n \in DOMAIN paragraphs :
    LET sentences == Lengths(Sentences(paragraphs[n]))
    IN  Longest(UnitsOf(paragraphs[n], max))
          <= (IF max < Longest(sentences) THEN Longest(sentences) ELSE max)

=============================================================================
