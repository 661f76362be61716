---------------------------- MODULE ResponseBody ----------------------------
(***************************************************************************)
(* requests/models.py Response: the ways to its body.  The content         *)
(* property, the generators that iter_content returns, pickling and close  *)
(* share one raw stream of the HTTP library and the flags _content and     *)
(* _content_consumed; a caller may hold several generators and mix them    *)
(* with the rest in any order.                                             *)
(*                                                                         *)
(* The body is the chunks 1..N.  The raw stream is external: reading the   *)
(* chunk cut raises and ends it (a lost connection, a read timeout),       *)
(* reading the chunk corrupt raises and leaves it open (a decoding error), *)
(* and a stream that is not open, or is exhausted, yields nothing.         *)
(*                                                                         *)
(* A definition named D_Variant is D as a plausible mistake would have it; *)
(* nothing uses it.                                                        *)
(***************************************************************************)
EXTENDS Naturals, Sequences, FiniteSets

CONSTANTS
    N,         \* the number of chunks of the body
    Readers,   \* the generators a caller may make
    Unset      \* _content = False

ASSUME BodyAssumption ==
    /\ N \in Nat
    /\ Unset \notin Seq(Nat)
    /\ Unset \notin Readers

VARIABLES
    cut, corrupt,  \* the chunks that cannot be read; 0 is none
    wire,      \* how many chunks were taken from the raw stream
    raw,       \* the raw stream: "open", "broken" off, or "closed" by close()
    held,      \* the connection is not back in its pool
    content,   \* _content: Unset, or the chunks in it
    consumed,  \* _content_consumed
    reader,    \* reader[p]: what generator p reads, and what it has yielded
    failed     \* a read has raised

vars == <<cut, corrupt, wire, raw, held, content, consumed, reader, failed>>

Kinds == {"new", "stream", "slices", "ended", "raised"}

Generators == [kind : Kinds, late : BOOLEAN, got : Seq(1..N)]

\* The type of the state.
TypeOK ==
    /\ cut \in 0..N /\ corrupt \in 0..N
    /\ wire \in 0..N
    /\ raw \in {"open", "broken", "closed"}
    /\ held \in BOOLEAN
    /\ content \in Seq(1..N) \cup {Unset}
    /\ consumed \in BOOLEAN
    /\ reader \in [Readers -> Generators]
    /\ failed \in BOOLEAN

Init ==
    /\ cut \in 0..N /\ corrupt \in 0..N
    /\ wire = 0
    /\ raw = "open" /\ held = TRUE
    /\ content = Unset
    /\ consumed = FALSE
    /\ reader = [p \in Readers |-> [kind |-> "new", late |-> FALSE, got |-> <<>>]]
    /\ failed = FALSE

-----------------------------------------------------------------------------
(* The raw stream.                                                         *)

Bad(c) == c \in {cut, corrupt}
More == raw = "open" /\ wire < N
FirstBad == {c \in (wire + 1)..N : Bad(c) /\ \A d \in (wire + 1)..(c - 1) : ~Bad(d)}

\* A read that finds the end of the stream gives the connection back.
AtEnd == held' = (held /\ raw # "open")

\* The read of chunk c raises.
Break(c) ==
    /\ wire' = c
    /\ raw' = IF c = cut THEN "broken" ELSE raw
    /\ held' = (held /\ c # cut)
    /\ failed' = TRUE

InOrder(from, to) == [i \in 1..(to - from) |-> from + i]

-----------------------------------------------------------------------------
\* content, and __getstate__, which reads it: the rest of the stream becomes
\* _content.  (Of a body that is settled they change nothing.)
ReadContent ==
    LET last == IF More THEN N ELSE wire
    IN  /\ content = Unset /\ ~consumed
        /\ More => FirstBad = {}
        /\ content' = InOrder(wire, last)
        /\ wire' = last
        /\ AtEnd
        /\ consumed' = TRUE
        /\ UNCHANGED <<cut, corrupt, raw, reader, failed>>

\* An error leaves both flags as they were.
ReadContentFails ==
    /\ content = Unset /\ ~consumed
    /\ More
    /\ \E c \in FirstBad : Break(c)
    /\ UNCHANGED <<cut, corrupt, content, consumed, reader>>

\* Mutant: every generator reads the raw stream.
IterContent_AlwaysStreams(p) ==
    /\ reader[p].kind = "new"
    /\ ~(consumed /\ content = Unset)
    /\ reader' = [reader EXCEPT ![p].kind = "stream", ![p].late = content # Unset]
    /\ UNCHANGED <<cut, corrupt, wire, raw, held, content, consumed, failed>>

\* iter_content decides at once what the generator will read: slices of
\* _content or the raw stream.  (Of a body that was streamed to its end it
\* makes none: StreamConsumedError.)  late is history: _content was there.
IterContent(p) ==
    /\ reader[p].kind = "new"
    /\ ~(consumed /\ content = Unset)
    /\ reader' = [reader EXCEPT
           ![p].kind = IF consumed THEN "slices" ELSE "stream",
           ![p].late = content # Unset]
    /\ UNCHANGED <<cut, corrupt, wire, raw, held, content, consumed, failed>>

\* Mutant: the generator yields what it read before.
StreamChunk_Late(p) ==
    /\ reader[p].kind = "stream"
    /\ More /\ ~Bad(wire + 1)
    /\ reader' = [reader EXCEPT ![p].got = Append(@, wire)]
    /\ wire' = wire + 1
    /\ UNCHANGED <<cut, corrupt, raw, held, content, consumed, failed>>

\* next() of a generator over the raw stream: a chunk, the end or an error.
StreamChunk(p) ==
    /\ reader[p].kind = "stream"
    /\ More /\ ~Bad(wire + 1)
    /\ reader' = [reader EXCEPT ![p].got = Append(@, wire + 1)]
    /\ wire' = wire + 1
    /\ UNCHANGED <<cut, corrupt, raw, held, content, consumed, failed>>

\* Mutant: a generator that ends does not say so.
StreamEnds_Unflagged(p) ==
    /\ reader[p].kind = "stream"
    /\ ~More
    /\ reader' = [reader EXCEPT ![p].kind = "ended"]
    /\ AtEnd
    /\ UNCHANGED <<cut, corrupt, wire, raw, content, consumed, failed>>

StreamEnds(p) ==
    /\ reader[p].kind = "stream"
    /\ ~More
    /\ reader' = [reader EXCEPT ![p].kind = "ended"]
    /\ AtEnd
    /\ consumed' = TRUE
    /\ UNCHANGED <<cut, corrupt, wire, raw, content, failed>>

\* Mutant: the error is swallowed, and the generator ends as at the end.
StreamFails_Swallows(p) ==
    /\ reader[p].kind = "stream"
    /\ More /\ Bad(wire + 1)
    /\ wire' = wire + 1
    /\ reader' = [reader EXCEPT ![p].kind = "ended"]
    /\ consumed' = TRUE
    /\ UNCHANGED <<cut, corrupt, raw, held, content, failed>>

StreamFails(p) ==
    /\ reader[p].kind = "stream"
    /\ More /\ Bad(wire + 1)
    /\ Break(wire + 1)
    /\ reader' = [reader EXCEPT ![p].kind = "raised"]
    /\ UNCHANGED <<cut, corrupt, content, consumed>>

\* next() of a generator over _content.
SliceChunk(p) ==
    LET i == Len(reader[p].got) + 1
    IN  /\ reader[p].kind = "slices"
        /\ reader' = IF i <= Len(content)
                     THEN [reader EXCEPT ![p].got = Append(@, content[i])]
                     ELSE [reader EXCEPT ![p].kind = "ended"]
        /\ UNCHANGED <<cut, corrupt, wire, raw, held, content, consumed, failed>>

\* Mutant: the raw stream is closed and its connection is not given back.
Close_KeepsConnection ==
    /\ raw' = IF consumed THEN raw ELSE "closed"
    /\ UNCHANGED <<cut, corrupt, wire, held, content, consumed, reader, failed>>

\* close.
Close ==
    /\ raw' = IF consumed THEN raw ELSE "closed"
    /\ held' = FALSE
    /\ UNCHANGED <<cut, corrupt, wire, content, consumed, reader, failed>>

Next ==
    \/ ReadContent
    \/ ReadContentFails
    \/ Close
    \/ \E p \in Readers :
          \/ IterContent(p)
          \/ StreamChunk(p)
          \/ StreamEnds(p)
          \/ StreamFails(p)
          \/ SliceChunk(p)

Spec == Init /\ [][Next]_vars

-----------------------------------------------------------------------------
(* Properties.                                                             *)

Yielded(p) == {reader[p].got[i] : i \in DOMAIN reader[p].got}

\* Who was given chunk c from the wire: a generator, or the content property
\* (which stands here under the name Unset).
Holders(c) ==
    {p \in Readers : ~reader[p].late /\ c \in Yielded(p)}
    \cup (IF content # Unset /\ c \in {content[i] : i \in DOMAIN content}
          THEN {Unset} ELSE {})

\* When the body counts as consumed, no read has raised and nobody closed the
\* stream (models.py _content_consumed), then every chunk was handed out, to
\* exactly one of the generators and the content property, however the
\* caller interleaved them.
NoSilentTruncation ==
    consumed /\ ~failed /\ raw # "closed"
        => \A c \in 1..N : Cardinality(Holders(c)) = 1

\* A generator made once _content is there (models.py iter_content) yields
\* all of it before it ends, whatever older generators and close() do in the
\* meantime.
LateReadersWhole ==
    \A p \in Readers :
        reader[p].late /\ reader[p].kind = "ended" => reader[p].got = content

\* A body that a generator streamed to its end is not read again: content
\* never turns up afterwards as what is left, the empty string (the
\* RuntimeError of models.py content).
NoContentAfterStream ==
    [][ (\E p \in Readers : reader[p].kind = "ended" /\ ~reader[p].late)
            => content' = content ]_vars

\* The connection is back in its pool once the body is consumed, as the
\* comment in models.py content says, and once the stream broke or was closed.
ConnectionReleased == consumed \/ raw # "open" => ~held

\* What models.py __getstate__ says of content: reading it "makes sure the
\* content has been fully read", at least while no generator took a chunk
\* and nobody closed the response.
ContentFullyRead ==
    content # Unset /\ raw # "closed" /\ (\A p \in Readers : Yielded(p) = {})
        => content = InOrder(0, N)
=============================================================================
