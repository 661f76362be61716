---------------------------- MODULE ResponseLines ----------------------------
(***************************************************************************)
(* ResponseBody with something in its chunks: what callers of iter_lines   *)
(* and of decode_unicode are given, whoever else reads the body.           *)
(***************************************************************************)
EXTENDS ResponseBody, TextLines, SequenceOperators

CONSTANTS
    Bytes,
    Chunks,      \* what the chunks of a body may be
    Delimiters   \* what iter_lines may be given

ASSUME LinesAssumption ==
    /\ Chunks \subseteq Seq(Bytes) \ {<<>>}
    /\ Delimiters \subseteq Seq(Bytes)
    /\ CR # LF

Bodies == [1..N -> Chunks]

Text(bytes) ==
    LET end == Decoder(bytes, FALSE)
    IN  IF end.held THEN Append(end.out, Replacement) ELSE end.out

Written(lines) == Filter(lines, ToSet(lines) \ {<<>>})

\* The chunk boundaries that make iter_lines yield an empty line too many: one
\* between CR and LF, or with a delimiter one right behind it.
Splits(chunks, delimiter) ==
    {i \in 1..(Len(chunks) - 1) :
        IF delimiter = <<>>
        THEN Last(chunks[i]) = CR /\ Head(chunks[i + 1]) = LF
        ELSE PartScan(FlattenSeq(SubSeq(chunks, 1, i)), delimiter).part = <<>>}

\* The lines of the chunks are those of their text.  An empty body has none,
\* although the split of an empty text has one.
LinesKept(chunks, text, delimiter) ==
    LET lines    == IterLines(chunks, delimiter)
        expected == IF chunks = <<>> THEN <<>> ELSE LinesOf(text, delimiter)
    IN  /\ Written(lines) = Written(expected)
        /\ Len(lines) = Len(expected) + Cardinality(Splits(chunks, delimiter))

\* Are the lines of the body's chunks, read in order, kept, whatever is in them?
LinesInOrder ==
    LET got == InOrder(0, N)
    IN  \A body \in Bodies, delimiter \in Delimiters :
            LET given == [i \in DOMAIN got |-> body[got[i]]]
                bytes == FlattenSeq(given)
            IN  /\ LinesKept(given, bytes, delimiter)
                /\ LinesKept(DecodeChunks(given), Text(bytes), delimiter)

\* iter_lines, with and without decode_unicode, gives every line of the text,
\* in order and unbroken wherever the body is cut into chunks, inside a
\* character too, and besides them exactly one empty line for each unlucky
\* boundary.  This holds for every caller who came to the end with the whole
\* body.
LinesWhole ==
    \A p \in Readers :
        reader[p].kind = "ended" /\ reader[p].got = InOrder(0, N) => LinesInOrder
=============================================================================
