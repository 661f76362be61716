------------------------------ MODULE TextLines ------------------------------
(***************************************************************************)
(* What the generators of a response make of the chunks they are given:    *)
(* stream_decode_response_unicode (requests/utils.py) and iter_lines       *)
(* (requests/models.py).  A chunk is a sequence of bytes, a body a         *)
(* sequence of chunks.  Bytes are CR, LF, ordinary ones, and the two       *)
(* halves Lead and Trail of a multi-byte character; decoded, the pair is   *)
(* Char and a half without the other is Replacement.                       *)
(***************************************************************************)
EXTENDS Naturals, SequencesExt

CONSTANTS CR, LF, Lead, Trail, Char, Replacement

-----------------------------------------------------------------------------
(* Decoding.                                                               *)

\* An incremental decoder given more bytes: what it has put out, and whether
\* it holds the first half of a character back.
DecodeByte(st, byte) ==
    LET flushed == IF st.held THEN Append(st.out, Replacement) ELSE st.out
    IN  IF byte = Lead THEN [out |-> flushed, held |-> TRUE]
        ELSE IF byte = Trail
             THEN [out |-> Append(st.out, IF st.held THEN Char ELSE Replacement),
                   held |-> FALSE]
        ELSE [out |-> Append(flushed, byte), held |-> FALSE]

Decoder(bytes, held) == FoldLeft(DecodeByte, [out |-> <<>>, held |-> held], bytes)

\* Mutant: every chunk is decoded on its own.
DecodeChunks_Separately(chunks) ==
    [i \in DOMAIN chunks |->
        LET st == Decoder(chunks[i], FALSE)
        IN  IF st.held THEN Append(st.out, Replacement) ELSE st.out]

DecodeChunk(st, chunk) ==
    LET d == Decoder(chunk, st.held)
    IN  [texts |-> IF d.out = <<>> THEN st.texts ELSE Append(st.texts, d.out),
         held  |-> d.held]

Decoded(chunks) == FoldLeft(DecodeChunk, [texts |-> <<>>, held |-> FALSE], chunks)

\* stream_decode_response_unicode: the chunks of text, none of them empty, and
\* at the end what the decoder still holds.
DecodeChunks(chunks) ==
    LET end == Decoded(chunks)
    IN  IF end.held THEN Append(end.texts, <<Replacement>>) ELSE end.texts

-----------------------------------------------------------------------------
(* Splitting.                                                              *)

ScanLine(st, x) ==
    IF x = LF /\ st.afterCR
    THEN [lines |-> st.lines, line |-> st.line, afterCR |-> FALSE]
    ELSE IF x \in {CR, LF}
         THEN [lines |-> Append(st.lines, st.line), line |-> <<>>, afterCR |-> x = CR]
    ELSE [lines |-> st.lines, line |-> Append(st.line, x), afterCR |-> FALSE]

LineScan(text) ==
    FoldLeft(ScanLine, [lines |-> <<>>, line |-> <<>>, afterCR |-> FALSE], text)

\* splitlines: CR, LF or both end a line; a last line without an end counts
\* if it is not empty.
SplitLines(text) ==
    LET end == LineScan(text)
    IN  IF end.line = <<>> THEN end.lines ELSE Append(end.lines, end.line)

ScanPart(st, x, delimiter) ==
    LET part == Append(st.part, x)
    IN  IF IsSuffix(delimiter, part)
        THEN [parts |-> Append(st.parts, SubSeq(part, 1, Len(part) - Len(delimiter))),
              part |-> <<>>]
        ELSE [parts |-> st.parts, part |-> part]

PartScan(text, delimiter) ==
    FoldLeft(LAMBDA st, x : ScanPart(st, x, delimiter), [parts |-> <<>>, part |-> <<>>], text)

\* split(delimiter): the parts between its occurrences, from the left.
Split(text, delimiter) ==
    LET end == PartScan(text, delimiter)
    IN  Append(end.parts, end.part)

\* No delimiter is the empty sequence.
LinesOf(text, delimiter) ==
    IF delimiter = <<>> THEN SplitLines(text) ELSE Split(text, delimiter)

\* Is the last line of the chunk still open?
Unfinished(lines, chunk) ==
    /\ lines # <<>> /\ chunk # <<>>
    /\ Last(lines) # <<>>
    /\ Last(Last(lines)) = Last(chunk)

\* What iter_lines makes of one more chunk.  pending is never empty, so the
\* empty sequence stands for None.
FeedLines(st, more, delimiter) ==
    LET chunk == st.pending \o more
        lines == LinesOf(chunk, delimiter)
    IN  IF Unfinished(lines, chunk)
        THEN [out |-> st.out \o Front(lines), pending |-> Last(lines)]
        ELSE [out |-> st.out \o lines, pending |-> <<>>]

Fed(chunks, delimiter) ==
    FoldLeft(LAMBDA st, more : FeedLines(st, more, delimiter),
             [out |-> <<>>, pending |-> <<>>], chunks)

\* iter_lines over the chunks of iter_content.
IterLines(chunks, delimiter) ==
    LET end == Fed(chunks, delimiter)
    IN  IF end.pending = <<>> THEN end.out ELSE Append(end.out, end.pending)
=============================================================================
