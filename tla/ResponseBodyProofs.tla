------------------------- MODULE ResponseBodyProofs -------------------------
(***************************************************************************)
(* Proofs about ResponseBody for a body of any number of chunks and any    *)
(* set of generators: its types, that the connection is released, that a   *)
(* streamed body is not read again, that late generators yield it whole,   *)
(* that nothing goes missing silently, and that iter_lines gives the lines *)
(* of the body however it is cut into chunks.                              *)
(***************************************************************************)
EXTENDS ResponseLines, SequenceFolds, FiniteSetTheorems, SequenceTheorems

\* The content property makes a sequence of chunks.
LEMMA InOrderType ==
    ASSUME NEW from \in 0..N, NEW to \in from..N
    PROVE  /\ InOrder(from, to) \in Seq(1..N)
           /\ Len(InOrder(from, to)) = to - from
           /\ \A i \in 1..(to - from) : InOrder(from, to)[i] = from + i
<1>1. to - from \in Nat
  BY BodyAssumption
<1>2. \A i \in 1..(to - from) : from + i \in 1..N
  BY BodyAssumption
<1> QED BY <1>1, <1>2 DEF InOrder

\* _content is never mistaken for False once it is set.
LEMMA UnsetIsNoContent ==
    ASSUME NEW s \in Seq(1..N)
    PROVE  s # Unset
<1>1. s \in Seq(Nat)
  BY BodyAssumption
<1> QED BY <1>1, BodyAssumption

\* The flags and the generators: what is set is consumed, a generator over
\* _content was made late and one over the stream was not, and one that read
\* the stream to its end has said so.
Flags ==
    /\ content # Unset => consumed
    /\ \A p \in Readers :
          /\ reader[p].kind = "new" => reader[p].got = <<>> /\ ~reader[p].late
          /\ reader[p].kind = "slices" => reader[p].late
          /\ reader[p].kind = "stream" => ~reader[p].late
          /\ reader[p].kind = "ended" /\ ~reader[p].late => consumed
          /\ reader[p].late => content # Unset

\* A chunk of _content goes to the end of what was yielded.
LEMMA NextSlice ==
    ASSUME NEW s \in Seq(1..N), NEW t \in Seq(1..N), Len(t) + 1 <= Len(s)
    PROVE  /\ s[Len(t) + 1] \in 1..N
           /\ Append(t, s[Len(t) + 1]) \in Seq(1..N)
<1>1. Len(t) + 1 \in 1..Len(s)
  OBVIOUS
<1>2. s[Len(t) + 1] \in 1..N
  BY <1>1, ElementOfSeq
<1> QED BY <1>2

LEMMA TypeInit == Init => TypeOK
<1> SUFFICES ASSUME Init
             PROVE  TypeOK
  OBVIOUS
<1>1. [kind |-> "new", late |-> FALSE, got |-> <<>>] \in Generators
  BY DEF Generators, Kinds
<1>2. reader \in [Readers -> Generators]
  BY <1>1 DEF Init
<1>3. 0 \in 0..N
  BY BodyAssumption
<1> QED BY <1>2, <1>3 DEF Init, TypeOK

LEMMA TypeStep ==
    ASSUME TypeOK, Flags, [Next]_vars
    PROVE  TypeOK'
<1> USE DEF TypeOK
<1>n. N \in Nat
  BY BodyAssumption
<1>1. CASE ReadContent
  <2>1. PICK last \in wire..N : content' = InOrder(wire, last) /\ wire' = last
    BY <1>1, <1>n DEF ReadContent
  <2>2. last \in 0..N
    BY <1>n
  <2>3. content' \in Seq(1..N) /\ wire' \in 0..N
    BY <2>1, <2>2, InOrderType
  <2> QED BY <1>1, <2>3 DEF ReadContent, AtEnd
<1>2. CASE ReadContentFails
  <2>1. PICK c \in FirstBad : Break(c)
    BY <1>2 DEF ReadContentFails
  <2>2. c \in 0..N
    BY <1>n, <2>1 DEF FirstBad
  <2> QED BY <1>2, <2>1, <2>2 DEF ReadContentFails, Break
<1>3. CASE Close
  BY <1>3 DEF Close
<1>4. ASSUME NEW p \in Readers, IterContent(p)
      PROVE  TypeOK'
  <2>1. (IF consumed THEN "slices" ELSE "stream") \in Kinds
    BY DEF Kinds
  <2>2. reader' \in [Readers -> Generators]
    BY <1>4, <2>1, ZenonT(60) DEF IterContent, Generators
  <2> QED BY <1>4, <2>2 DEF IterContent
<1>5. ASSUME NEW p \in Readers, StreamChunk(p)
      PROVE  TypeOK'
  <2>1. wire + 1 \in 1..N /\ wire + 1 \in 0..N
    BY <1>5, <1>n DEF StreamChunk, More
  <2>2. Append(reader[p].got, wire + 1) \in Seq(1..N)
    BY <2>1 DEF Generators
  <2>3. reader' \in [Readers -> Generators]
    BY <1>5, <2>2 DEF StreamChunk, Generators
  <2> QED BY <1>5, <2>1, <2>3 DEF StreamChunk
<1>6. ASSUME NEW p \in Readers, StreamEnds(p)
      PROVE  TypeOK'
  <2>1. reader' \in [Readers -> Generators]
    BY <1>6 DEF StreamEnds, Kinds, Generators
  <2> QED BY <1>6, <2>1 DEF StreamEnds, AtEnd
<1>7. ASSUME NEW p \in Readers, StreamFails(p)
      PROVE  TypeOK'
  <2>1. wire + 1 \in 0..N
    BY <1>7, <1>n DEF StreamFails, More
  <2>2. reader' \in [Readers -> Generators]
    BY <1>7 DEF StreamFails, Kinds, Generators
  <2> QED BY <1>7, <2>1, <2>2 DEF StreamFails, Break
<1>8. ASSUME NEW p \in Readers, SliceChunk(p)
      PROVE  TypeOK'
  <2> DEFINE i == Len(reader[p].got) + 1
  <2>1. content \in Seq(1..N) /\ reader[p].got \in Seq(1..N)
    BY <1>8 DEF SliceChunk, Flags, Generators
  <2>2. ASSUME i <= Len(content)
        PROVE  Append(reader[p].got, content[i]) \in Seq(1..N)
    BY <2>1, <2>2, NextSlice
  <2>3. reader' \in [Readers -> Generators]
    BY <1>8, <2>2 DEF SliceChunk, Kinds, Generators
  <2> QED BY <1>8, <2>3 DEF SliceChunk
<1>9. CASE UNCHANGED vars
  BY <1>9 DEF vars
<1> QED BY <1>1, <1>2, <1>3, <1>4, <1>5, <1>6, <1>7, <1>8, <1>9 DEF Next

LEMMA FlagsInit == Init => Flags
BY DEF Init, Flags

\* A step of one generator keeps what Flags says of the others.
LEMMA FlagsStep ==
    ASSUME TypeOK, Flags, [Next]_vars
    PROVE  Flags'
<1> USE DEF Flags, TypeOK
<1>1. CASE ReadContent
  <2>1. PICK last \in wire..N : content' = InOrder(wire, last)
    BY <1>1, BodyAssumption DEF ReadContent
  <2>2. last \in 0..N
    BY BodyAssumption
  <2>3. content' # Unset
    BY <2>1, <2>2, InOrderType, UnsetIsNoContent
  <2> QED BY <1>1, <2>3 DEF ReadContent
<1>2. CASE ReadContentFails
  BY <1>2 DEF ReadContentFails
<1>3. CASE Close
  BY <1>3 DEF Close
<1>4. ASSUME NEW p \in Readers, IterContent(p)
      PROVE  Flags'
  BY <1>4 DEF IterContent, Generators
<1>5. ASSUME NEW p \in Readers, StreamChunk(p)
      PROVE  Flags'
  BY <1>5 DEF StreamChunk, Generators
<1>6. ASSUME NEW p \in Readers, StreamEnds(p)
      PROVE  Flags'
  BY <1>6 DEF StreamEnds, Generators
<1>7. ASSUME NEW p \in Readers, StreamFails(p)
      PROVE  Flags'
  BY <1>7 DEF StreamFails, Generators
<1>8. ASSUME NEW p \in Readers, SliceChunk(p)
      PROVE  Flags'
  BY <1>8 DEF SliceChunk, Generators
<1>9. CASE UNCHANGED vars
  BY <1>9 DEF vars
<1> QED BY <1>1, <1>2, <1>3, <1>4, <1>5, <1>6, <1>7, <1>8, <1>9 DEF Next

\* TypeOK of every run of the model.
THEOREM TypeCorrect == Spec => []TypeOK
<1>1. Init => TypeOK /\ Flags
  BY TypeInit, FlagsInit
<1>2. TypeOK /\ Flags /\ [Next]_vars => (TypeOK /\ Flags)'
  BY TypeStep, FlagsStep
<1> QED BY <1>1, <1>2, PTL DEF Spec

-----------------------------------------------------------------------------
(* The connection.                                                         *)

LEMMA ReleasedStep ==
    ASSUME TypeOK, ConnectionReleased, [Next]_vars
    PROVE  ConnectionReleased'
<1> USE DEF TypeOK, ConnectionReleased
<1>1. CASE ReadContent
  BY <1>1 DEF ReadContent, AtEnd
<1>2. CASE ReadContentFails
  <2>1. PICK c \in FirstBad : Break(c)
    BY <1>2 DEF ReadContentFails
  <2> QED BY <1>2, <2>1 DEF ReadContentFails, Break
<1>3. CASE Close
  BY <1>3 DEF Close
<1>4. ASSUME NEW p \in Readers, StreamEnds(p)
      PROVE  ConnectionReleased'
  BY <1>4 DEF StreamEnds, AtEnd
<1>5. ASSUME NEW p \in Readers, StreamFails(p)
      PROVE  ConnectionReleased'
  BY <1>5 DEF StreamFails, Break
<1>6. ASSUME NEW p \in Readers, IterContent(p) \/ StreamChunk(p) \/ SliceChunk(p)
      PROVE  ConnectionReleased'
  BY <1>6 DEF IterContent, StreamChunk, SliceChunk
<1>7. CASE UNCHANGED vars
  BY <1>7 DEF vars
<1> QED BY <1>1, <1>2, <1>3, <1>4, <1>5, <1>6, <1>7 DEF Next

\* A body that is consumed, broken off or closed holds no connection
\* (models.py content, iter_content, close).
THEOREM ReleasedAlways == Spec => []ConnectionReleased
<1>1. Init => ConnectionReleased
  BY DEF Init, ConnectionReleased
<1>2. TypeOK /\ ConnectionReleased /\ [Next]_vars => ConnectionReleased'
  BY ReleasedStep
<1> QED BY <1>1, <1>2, TypeCorrect, PTL DEF Spec

-----------------------------------------------------------------------------
(* A streamed body is not read again.                                      *)

LEMMA ContentKept ==
    ASSUME TypeOK, Flags, [Next]_vars,
           \E p \in Readers : reader[p].kind = "ended" /\ ~reader[p].late
    PROVE  content' = content
<1>1. consumed
  BY DEF Flags
<1>2. ~ReadContent
  BY <1>1 DEF ReadContent
<1>3. ReadContentFails => content' = content
  BY DEF ReadContentFails
<1>4. Close => content' = content
  BY DEF Close
<1>5. ASSUME NEW p \in Readers,
             \/ IterContent(p) \/ StreamChunk(p) \/ StreamEnds(p)
             \/ StreamFails(p) \/ SliceChunk(p)
      PROVE  content' = content
  BY <1>5 DEF IterContent, StreamChunk, StreamEnds, StreamFails, SliceChunk
<1>6. UNCHANGED vars => content' = content
  BY DEF vars
<1> QED BY <1>2, <1>3, <1>4, <1>5, <1>6 DEF Next

\* Once a generator has streamed the body to its end, content never turns up
\* afterwards (the RuntimeError of models.py content).
THEOREM StreamedOnce == Spec => NoContentAfterStream
<1>1. Init => TypeOK /\ Flags
  BY TypeInit, FlagsInit
<1>2. TypeOK /\ Flags /\ [Next]_vars => (TypeOK /\ Flags)'
  BY TypeStep, FlagsStep
<1>3. TypeOK /\ Flags /\ [Next]_vars
        => [ (\E p \in Readers : reader[p].kind = "ended" /\ ~reader[p].late)
               => content' = content ]_vars
  BY ContentKept
<1> QED BY <1>1, <1>2, <1>3, PTL DEF Spec, NoContentAfterStream

-----------------------------------------------------------------------------
(* Late generators.                                                        *)

\* A generator over _content has yielded a prefix of it.
PrefixesYielded ==
    \A p \in Readers :
        /\ reader[p].late => reader[p].kind \in {"slices", "ended"}
        /\ reader[p].late =>
              /\ Len(reader[p].got) <= Len(content)
              /\ \A i \in 1..Len(reader[p].got) : reader[p].got[i] = content[i]
        /\ reader[p].late /\ reader[p].kind = "ended"
              => Len(reader[p].got) = Len(content)

LEMMA PrefixesStep ==
    ASSUME TypeOK, Flags, PrefixesYielded, [Next]_vars
    PROVE  PrefixesYielded'
<1> USE DEF TypeOK
<1>1. CASE ReadContent
  <2>1. \A p \in Readers : ~reader[p].late
    BY <1>1 DEF ReadContent, Flags
  <2> QED BY <1>1, <2>1 DEF ReadContent, PrefixesYielded
<1>2. CASE ReadContentFails \/ Close \/ UNCHANGED vars
  BY <1>2 DEF ReadContentFails, Close, vars, PrefixesYielded
<1>3. ASSUME NEW p \in Readers, IterContent(p)
      PROVE  PrefixesYielded'
  <2>1. content' = content /\ reader[p].got = <<>> /\ (content # Unset => consumed)
    BY <1>3 DEF IterContent, Flags
  <2>2. content # Unset => Len(content) \in Nat
    BY DEF Generators
  <2>3. Len(reader[p].got) = 0
    BY <2>1
  <2>4. /\ reader'[p].got = reader[p].got
        /\ reader'[p].late => reader'[p].kind = "slices" /\ content # Unset
    BY <1>3, <2>1 DEF IterContent, Generators
  <2>5. \A q \in Readers : q # p => reader'[q] = reader[q]
    BY <1>3 DEF IterContent
  <2> QED BY <2>1, <2>2, <2>3, <2>4, <2>5 DEF PrefixesYielded
<1>4. ASSUME NEW p \in Readers, StreamChunk(p) \/ StreamEnds(p) \/ StreamFails(p)
      PROVE  PrefixesYielded'
  <2>1. content' = content /\ ~reader[p].late
    BY <1>4 DEF StreamChunk, StreamEnds, StreamFails, Flags
  <2>2. ~reader'[p].late
    BY <1>4, <2>1 DEF StreamChunk, StreamEnds, StreamFails, Generators
  <2>3. \A q \in Readers : q # p => reader'[q] = reader[q]
    BY <1>4 DEF StreamChunk, StreamEnds, StreamFails
  <2> QED BY <2>1, <2>2, <2>3 DEF PrefixesYielded
<1>5. ASSUME NEW p \in Readers, SliceChunk(p)
      PROVE  PrefixesYielded'
  <2> DEFINE i == Len(reader[p].got) + 1
  <2>1. /\ content' = content /\ reader[p].late
        /\ content \in Seq(1..N) /\ reader[p].got \in Seq(1..N)
    BY <1>5 DEF SliceChunk, Flags, Generators
  <2>2. \A q \in Readers : q # p => reader'[q] = reader[q]
    BY <1>5 DEF SliceChunk
  <2>3. /\ Len(reader[p].got) \in Nat /\ Len(content) \in Nat
        /\ Len(reader[p].got) <= Len(content)
        /\ \A j \in 1..Len(reader[p].got) : reader[p].got[j] = content[j]
    BY <2>1 DEF PrefixesYielded
  <2>4. CASE i <= Len(content)
    <3>1. reader'[p].kind = "slices" /\ reader'[p].got = Append(reader[p].got, content[i])
      BY <1>5, <2>4 DEF SliceChunk, Generators
    <3>2. content[i] \in 1..N
      BY <2>1, <2>4, NextSlice
    <3>3. /\ Len(reader'[p].got) = i
          /\ \A j \in 1..i : reader'[p].got[j] = content[j]
      BY <2>1, <2>3, <3>1, <3>2
    <3>4. content' = content /\ \A q \in Readers : q # p => reader'[q] = reader[q]
      BY <2>1, <2>2
    <3>5. /\ Len(reader'[p].got) <= Len(content')
          /\ \A j \in 1..Len(reader'[p].got) : reader'[p].got[j] = content'[j]
      BY <2>1, <2>4, <3>3
    <3>6. reader'[p].kind = "slices"
      BY <3>1
    <3> HIDE DEF i
    <3> QED BY <3>4, <3>5, <3>6 DEF PrefixesYielded
  <2>5. CASE ~(i <= Len(content))
    <3>1. reader'[p].kind = "ended" /\ reader'[p].got = reader[p].got
      BY <1>5, <2>5 DEF SliceChunk, Generators
    <3>2. Len(reader[p].got) = Len(content)
      BY <2>3, <2>5
    <3> QED BY <2>1, <2>2, <2>3, <3>1, <3>2 DEF PrefixesYielded
  <2> QED BY <2>4, <2>5
<1> QED BY <1>1, <1>2, <1>3, <1>4, <1>5 DEF Next

\* Two sequences of one length with the same elements are the same.
LEMMA SameSequence ==
    ASSUME NEW s \in Seq(1..N), NEW t \in Seq(1..N), Len(s) = Len(t),
           \A i \in 1..Len(s) : s[i] = t[i]
    PROVE  s = t
OBVIOUS

LEMMA PrefixesWhole ==
    ASSUME TypeOK, Flags, PrefixesYielded
    PROVE  LateReadersWhole
<1> SUFFICES ASSUME NEW p \in Readers, reader[p].late, reader[p].kind = "ended"
             PROVE  reader[p].got = content
  BY DEF LateReadersWhole
<1>1. content \in Seq(1..N) /\ reader[p].got \in Seq(1..N)
  BY DEF TypeOK, Flags, Generators
<1> QED BY <1>1, SameSequence DEF PrefixesYielded

\* A generator made once _content is there yields all of it before it ends
\* (models.py iter_content).
THEOREM LateReaders == Spec => []LateReadersWhole
<1>1. Init => TypeOK /\ Flags /\ PrefixesYielded
  BY TypeInit, FlagsInit DEF Init, PrefixesYielded
<1>2. TypeOK /\ Flags /\ PrefixesYielded /\ [Next]_vars => (TypeOK /\ Flags /\ PrefixesYielded)'
  BY TypeStep, FlagsStep, PrefixesStep
<1>3. TypeOK /\ Flags /\ PrefixesYielded => LateReadersWhole
  BY PrefixesWhole
<1> QED BY <1>1, <1>2, <1>3, PTL DEF Spec

-----------------------------------------------------------------------------
(* Nothing goes missing silently.                                          *)

\* While no read has raised and nobody closed the stream: a consumed body is
\* wholly off the wire, each chunk off the wire has one holder, and a chunk
\* still on it has none.
Partition ==
    ~failed /\ raw # "closed" =>
        /\ raw = "open"
        /\ consumed => wire = N
        /\ \A c \in 1..wire : \E h : Holders(c) = {h}
        /\ \A c \in (wire + 1)..N : Holders(c) = {}

\* Who holds a chunk depends on the generators that read the stream, and on
\* _content.
LEMMA SameHolders ==
    ASSUME content' = content,
           \A p \in Readers :
               (~reader[p].late /\ Yielded(p) # {}) \/ (~reader'[p].late /\ Yielded(p)' # {})
               => reader[p].late = reader'[p].late /\ Yielded(p)' = Yielded(p)
    PROVE  \A c : Holders(c)' = Holders(c)
<1> SUFFICES ASSUME NEW c
             PROVE  Holders(c)' = Holders(c)
  OBVIOUS
<1>1. ASSUME NEW p \in Readers
      PROVE  (~reader[p].late /\ c \in Yielded(p)) <=> (~reader'[p].late /\ c \in Yielded(p)')
  OBVIOUS
<1> QED BY <1>1 DEF Holders

LEMMA PartitionKept ==
    ASSUME Partition, \A c : Holders(c)' = Holders(c),
           wire' = wire, raw' = raw \/ raw' = "closed", consumed' = consumed, failed' = failed
    PROVE  Partition'
BY DEF Partition

LEMMA PartitionStep ==
    ASSUME TypeOK, Flags, Partition, [Next]_vars
    PROVE  Partition'
<1> USE DEF TypeOK
<1>n. N \in Nat
  BY BodyAssumption
<1>0. CASE failed \/ raw = "closed"
  <2>1. failed' \/ raw' = "closed"
    <3>1. CASE ReadContent
      BY <1>0, <3>1 DEF ReadContent
    <3>2. CASE ReadContentFails
      BY <3>2 DEF ReadContentFails, Break
    <3>3. CASE Close
      BY <1>0, <3>3 DEF Close
    <3>4. ASSUME NEW p \in Readers, StreamFails(p)
          PROVE  failed'
      BY <3>4 DEF StreamFails, Break
    <3>5. ASSUME NEW p \in Readers,
                 IterContent(p) \/ StreamChunk(p) \/ StreamEnds(p) \/ SliceChunk(p)
          PROVE  failed' \/ raw' = "closed"
      BY <1>0, <3>5 DEF IterContent, StreamChunk, StreamEnds, SliceChunk
    <3>6. CASE UNCHANGED vars
      BY <1>0, <3>6 DEF vars
    <3> QED BY <3>1, <3>2, <3>3, <3>4, <3>5, <3>6 DEF Next
  <2> QED BY <2>1 DEF Partition
<1>o. ASSUME ~failed, raw # "closed"
      PROVE  /\ raw = "open"
             /\ consumed => wire = N
             /\ \A c \in 1..wire : \E h : Holders(c) = {h}
             /\ \A c \in (wire + 1)..N : Holders(c) = {}
  BY <1>o DEF Partition
<1>1. CASE ~failed /\ raw # "closed" /\ ReadContent
  <2>1. content = Unset /\ reader' = reader /\ raw' = raw /\ raw = "open"
    BY <1>1, <1>o DEF ReadContent
  <2>2. content' = InOrder(wire, N) /\ wire' = N
    BY <1>1, <1>n, <2>1 DEF ReadContent, More
  <2>3. /\ InOrder(wire, N) \in Seq(1..N) /\ Len(InOrder(wire, N)) = N - wire
        /\ \A i \in 1..(N - wire) : InOrder(wire, N)[i] = wire + i
    <3>1. wire \in 0..N /\ N \in wire..N
      BY <1>n
    <3> QED BY <3>1, InOrderType
  <2>4. content' # Unset /\ DOMAIN content' = 1..(N - wire)
    BY <2>2, <2>3, UnsetIsNoContent
  <2>5. ASSUME NEW c \in 1..N
        PROVE  (c \in {content'[i] : i \in DOMAIN content'}) <=> c > wire
    <3>1. c > wire => c - wire \in 1..(N - wire) /\ content'[c - wire] = c
      BY <1>n, <2>2, <2>3
    <3>2. \A i \in 1..(N - wire) : content'[i] > wire
      BY <1>n, <2>2, <2>3
    <3> QED BY <2>4, <3>1, <3>2
  <2>6. ASSUME NEW c \in 1..N
        PROVE  Holders(c)' = Holders(c) \cup (IF c > wire THEN {Unset} ELSE {})
    <3>1. \A p \in Readers : Yielded(p)' = Yielded(p)
      BY <2>1 DEF Yielded
    <3>2. Holders(c) = {p \in Readers : ~reader[p].late /\ c \in Yielded(p)}
      BY <2>1 DEF Holders
    <3>3. Holders(c)' = {p \in Readers : ~reader[p].late /\ c \in Yielded(p)}
                        \cup (IF c > wire THEN {Unset} ELSE {})
      BY <2>1, <2>4, <2>5, <3>1 DEF Holders
    <3> QED BY <3>2, <3>3
  <2>7. ASSUME NEW c \in 1..N
        PROVE  \E h : Holders(c)' = {h}
    <3>1. CASE c > wire
      <4>1. c \in (wire + 1)..N
        BY <1>n, <3>1
      <4>2. Holders(c) = {}
        BY <1>1, <1>o, <4>1
      <4> QED BY <2>6, <3>1, <4>2
    <3>2. CASE ~(c > wire)
      <4>1. c \in 1..wire
        BY <1>n, <3>2
      <4>2. PICK h : Holders(c) = {h}
        BY <1>1, <1>o, <4>1
      <4> QED BY <2>6, <3>2, <4>2
    <3> QED BY <3>1, <3>2
  <2>8. \A c \in (N + 1)..N : FALSE
    BY <1>n
  <2> QED BY <2>1, <2>2, <2>7, <2>8 DEF Partition
<1>2. CASE ReadContentFails
  BY <1>2 DEF ReadContentFails, Break, Partition
<1>3. CASE Close
  <2>1. \A c : Holders(c)' = Holders(c)
    BY <1>3 DEF Close, Holders, Yielded
  <2> QED BY <1>3, <2>1, PartitionKept DEF Close
<1>4. ASSUME NEW p \in Readers, IterContent(p)
      PROVE  Partition'
  <2>1. reader[p].got = <<>> /\ reader'[p].got = <<>>
    BY <1>4 DEF IterContent, Flags, Generators
  <2>2. Yielded(p) = {} /\ Yielded(p)' = {}
    BY <2>1 DEF Yielded
  <2>3. \A q \in Readers : q # p => reader'[q] = reader[q] /\ Yielded(q)' = Yielded(q)
    BY <1>4 DEF IterContent, Yielded
  <2>4. content' = content
    BY <1>4 DEF IterContent
  <2>5. \A c : Holders(c)' = Holders(c)
    BY <2>2, <2>3, <2>4, SameHolders
  <2> QED BY <1>4, <2>5, PartitionKept DEF IterContent
<1>5. ASSUME NEW p \in Readers, StreamChunk(p), ~failed, raw # "closed"
      PROVE  Partition'
  <2>1. /\ wire < N /\ wire' = wire + 1 /\ wire + 1 \in 1..N
        /\ content' = content /\ raw' = raw /\ raw = "open"
        /\ ~consumed /\ ~consumed' /\ ~failed'
    BY <1>5, <1>n, <1>o DEF StreamChunk, More
  <2>2. content = Unset /\ content' = Unset /\ ~reader[p].late
    BY <1>5, <2>1 DEF StreamChunk, Flags
  <2>3. /\ reader'[p].got = Append(reader[p].got, wire + 1)
        /\ reader'[p].late = reader[p].late
        /\ reader[p].got \in Seq(1..N)
    BY <1>5 DEF StreamChunk, Generators
  <2>4. Yielded(p)' = Yielded(p) \cup {wire + 1}
    <3>1. /\ DOMAIN reader'[p].got = DOMAIN reader[p].got \cup {Len(reader[p].got) + 1}
          /\ \A i \in DOMAIN reader[p].got : reader'[p].got[i] = reader[p].got[i]
          /\ reader'[p].got[Len(reader[p].got) + 1] = wire + 1
      BY <2>1, <2>3
    <3> QED BY <3>1 DEF Yielded
  <2>5. \A q \in Readers : q # p => reader'[q] = reader[q] /\ Yielded(q)' = Yielded(q)
    BY <1>5 DEF StreamChunk, Yielded
  <2>6. ASSUME NEW c \in 1..N
        PROVE  Holders(c)' = Holders(c) \cup (IF c = wire + 1 THEN {p} ELSE {})
    <3>1. Holders(c) = {q \in Readers : ~reader[q].late /\ c \in Yielded(q)}
      BY <2>2 DEF Holders
    <3>2. Holders(c)' = {q \in Readers : ~reader'[q].late /\ c \in Yielded(q)'}
      BY <2>2 DEF Holders
    <3>3. ASSUME NEW q \in Readers
          PROVE  (~reader'[q].late /\ c \in Yielded(q)')
                    <=> (~reader[q].late /\ c \in Yielded(q)) \/ (q = p /\ c = wire + 1)
      BY <2>2, <2>3, <2>4, <2>5
    <3> QED BY <3>1, <3>2, <3>3
  <2>7. ASSUME NEW c \in 1..wire'
        PROVE  \E h : Holders(c)' = {h}
    <3>1. c \in 1..N
      BY <1>n, <2>1
    <3>2. CASE c = wire + 1
      <4>1. Holders(c) = {}
        BY <1>5, <1>o, <2>1, <3>1, <3>2
      <4> QED BY <2>6, <3>1, <3>2, <4>1
    <3>3. CASE c # wire + 1
      <4>1. c \in 1..wire
        BY <1>n, <2>1, <3>3
      <4>2. PICK h : Holders(c) = {h}
        BY <1>5, <1>o, <4>1
      <4> QED BY <2>6, <3>1, <3>3, <4>2
    <3> QED BY <3>2, <3>3
  <2>8. ASSUME NEW c \in (wire' + 1)..N
        PROVE  Holders(c)' = {}
    <3>1. c \in 1..N /\ c # wire + 1 /\ c \in (wire + 1)..N
      BY <1>n, <2>1
    <3> QED BY <1>5, <1>o, <2>6, <3>1
  <2> QED BY <2>1, <2>7, <2>8 DEF Partition
<1>6. ASSUME NEW p \in Readers, StreamEnds(p), ~failed, raw # "closed"
      PROVE  Partition'
  <2>1. wire = N /\ wire' = wire /\ raw' = raw /\ failed' = failed /\ raw = "open"
    BY <1>6, <1>n, <1>o DEF StreamEnds, More
  <2>2. content' = content /\ \A q \in Readers : /\ reader'[q].late = reader[q].late
                                                 /\ reader'[q].got = reader[q].got
    BY <1>6 DEF StreamEnds, Generators
  <2>3. \A q \in Readers : Yielded(q)' = Yielded(q)
    BY <2>2 DEF Yielded
  <2>4. \A c : Holders(c)' = Holders(c)
    BY <2>2, <2>3, SameHolders
  <2> QED BY <1>6, <1>o, <2>1, <2>4 DEF Partition
<1>7. ASSUME NEW p \in Readers, StreamFails(p)
      PROVE  Partition'
  BY <1>7 DEF StreamFails, Break, Partition
<1>8. ASSUME NEW p \in Readers, SliceChunk(p)
      PROVE  Partition'
  <2>1. content' = content /\ reader[p].late /\ reader'[p].late
    BY <1>8 DEF SliceChunk, Flags, Generators
  <2>2. \A q \in Readers : q # p => reader'[q] = reader[q] /\ Yielded(q)' = Yielded(q)
    BY <1>8 DEF SliceChunk, Yielded
  <2>3. \A c : Holders(c)' = Holders(c)
    BY <2>1, <2>2 DEF Holders
  <2> QED BY <1>8, <2>3, PartitionKept DEF SliceChunk
<1>9. CASE UNCHANGED vars
  <2>1. \A c : Holders(c)' = Holders(c)
    BY <1>9 DEF vars, Holders, Yielded
  <2> QED BY <1>9, <2>1, PartitionKept DEF vars
<1> QED BY <1>0, <1>1, <1>2, <1>3, <1>4, <1>5, <1>6, <1>7, <1>8, <1>9 DEF Next

LEMMA PartitionWhole ==
    ASSUME TypeOK, Partition
    PROVE  NoSilentTruncation
<1> SUFFICES ASSUME consumed, ~failed, raw # "closed", NEW c \in 1..N
             PROVE  Cardinality(Holders(c)) = 1
  BY DEF NoSilentTruncation
<1>1. PICK h : Holders(c) = {h}
  BY DEF Partition
<1> QED BY <1>1, FS_Singleton

LEMMA PartitionInit == Init => Partition
<1> SUFFICES ASSUME Init
             PROVE  Partition
  OBVIOUS
<1>1. \A p \in Readers : Yielded(p) = {}
  BY DEF Init, Yielded
<1>2. \A c : Holders(c) = {}
  BY <1>1 DEF Init, Holders
<1> QED BY <1>2, BodyAssumption DEF Init, Partition

\* A body that counts as consumed after no error and no close was handed out
\* whole, each chunk once (models.py _content_consumed).
THEOREM NothingLost == Spec => []NoSilentTruncation
<1>1. Init => TypeOK /\ Flags /\ Partition
  BY TypeInit, FlagsInit, PartitionInit
<1>2. TypeOK /\ Flags /\ Partition /\ [Next]_vars => (TypeOK /\ Flags /\ Partition)'
  BY TypeStep, FlagsStep, PartitionStep
<1>3. TypeOK /\ Partition => NoSilentTruncation
  BY PartitionWhole
<1> QED BY <1>1, <1>2, <1>3, PTL DEF Spec


-----------------------------------------------------------------------------
(* Chunks put together.                                                    *)

JoinF(L) == [p \in Seq(L) \X Seq(L) |-> p[1] \o p[2]]

LEMMA FlattenFold ==
  ASSUME NEW L, NEW seqs \in Seq(Seq(L))
  PROVE  FlattenSeq(seqs) = Folded(Seq(L), JoinF(L), <<>>, seqs)
  <1> DEFINE n     == Len(seqs)
             Eq(f) == f = [i \in 1..n |-> IF i = 1 THEN seqs[i] ELSE f[i - 1] \o seqs[i]]
             it    == CHOOSE f : Eq(f)
  <1>0. n \in Nat /\ DOMAIN seqs = 1..n
    OBVIOUS
  <1>1. JoinF(L) \in [Seq(L) \X Seq(L) -> Seq(L)] /\ <<>> \in Seq(L)
    BY DEF JoinF
  <1>2. PICK h : Folds(h, Seq(L), JoinF(L), <<>>, seqs)
    BY <1>1, FoldsExist
  <1>3. h[0] = <<>> /\ \A i \in 0..n : h[i] \in Seq(L)
    BY <1>0, <1>2 DEF Folds
  <1>4. \A i \in 1..n : h[i] = h[i - 1] \o seqs[i]
    <2>. SUFFICES ASSUME NEW i \in 1..n PROVE h[i] = h[i - 1] \o seqs[i]
      OBVIOUS
    <2>1. i - 1 \in 0..n /\ seqs[i] \in Seq(L)
      OBVIOUS
    <2>2. h[i] = JoinF(L)[<<h[i - 1], seqs[i]>>]
      BY <1>2 DEF Folds
    <2>. QED  BY <1>3, <2>1, <2>2 DEF JoinF
  <1> DEFINE g == [i \in 1..n |-> h[i]]
  <1>a. g = [i \in 1..n |-> g[i]] /\ \A i \in 1..n : g[i] = h[i]
    OBVIOUS
  <1>. HIDE DEF g
  <1>5. ASSUME NEW i \in 1..n
        PROVE  g[i] = IF i = 1 THEN seqs[i] ELSE g[i - 1] \o seqs[i]
    <2>1. CASE i = 1
      <3>1. seqs[1] \in Seq(L) /\ <<>> \o seqs[1] = seqs[1]
        BY <2>1
      <3>2. 1 \in 1..n /\ 1 - 1 = 0
        BY <2>1
      <3>3. h[1] = h[0] \o seqs[1] /\ g[1] = h[1]
        BY <1>4, <1>a, <3>2
      <3>. QED  BY <1>3, <2>1, <3>1, <3>3
    <2>2. CASE i # 1
      <3>1. i - 1 \in 1..n
        BY <2>2
      <3>2. g[i] = h[i] /\ g[i - 1] = h[i - 1]
        BY <1>a, <3>1
      <3>3. h[i] = h[i - 1] \o seqs[i]
        BY <1>4
      <3>. QED  BY <2>2, <3>2, <3>3
    <2>. QED  BY <2>1, <2>2
  <1>6. Eq(g)
    <2>. HIDE DEF n
    <2>. QED  BY <1>5, <1>a
  <1>7. Eq(it)
    <2>. HIDE DEF Eq, g
    <2>. QED  BY <1>6
  <1> DEFINE T == {k \in Nat : k # 0 => it[k] = h[k]}
  <1>. HIDE DEF it, n
  <1>8. 0 \in T
    OBVIOUS
  <1>9. ASSUME NEW k \in 0..(n - 1), k \in T
        PROVE  k + 1 \in T
    <2>1. k \in Nat /\ k + 1 \in 1..n /\ (k + 1) - 1 = k
      BY <1>0
    <2>2. it[k + 1] = IF k + 1 = 1 THEN seqs[k + 1] ELSE it[k] \o seqs[k + 1]
      BY <1>7, <2>1
    <2>3. h[k + 1] = h[k] \o seqs[k + 1]
      BY <1>4, <2>1
    <2>4. it[k + 1] = h[k + 1]
      <3>1. CASE k = 0
        <4>1. seqs[1] \in Seq(L) /\ <<>> \o seqs[1] = seqs[1]
          BY <1>0, <2>1, <3>1
        <4>0. k + 1 = 1
          BY <3>1
        <4>2. h[1] = h[0] \o seqs[1] /\ it[1] = seqs[1]
          BY <2>2, <2>3, <3>1, <4>0
        <4>. QED  BY <1>3, <4>0, <4>1, <4>2
      <3>2. CASE k # 0
        <4>1. it[k] = h[k] /\ k + 1 # 1
          BY <1>9, <2>1, <3>2
        <4>. QED  BY <2>2, <2>3, <4>1
      <3>. QED  BY <3>1, <3>2
    <2>. QED  BY <2>1, <2>4
  <1>. HIDE DEF T
  <1>10. n \in T
    <2>1. n \in 0..n
      BY <1>0
    <2>. QED  BY <1>0, <1>8, <1>9, <2>1, BoundedInduction
  <1>11. FlattenSeq(seqs) = IF n = 0 THEN seqs ELSE it[n]
    BY DEF FlattenSeq, it, n
  <1>12. n = 0 => seqs = <<>>
    BY DEF n
  <1>13. Folded(Seq(L), JoinF(L), <<>>, seqs) = h[n]
    BY <1>0, <1>2, FoldedIs DEF n
  <1>. QED  BY <1>3, <1>10, <1>11, <1>12, <1>13 DEF T

LEMMA FlattenAppend ==
  ASSUME NEW L
  PROVE  /\ FlattenSeq(<<>>) = <<>>
         /\ \A cs \in Seq(Seq(L)) : FlattenSeq(cs) \in Seq(L)
         /\ \A cs \in Seq(Seq(L)), c \in Seq(L) :
               FlattenSeq(Append(cs, c)) = FlattenSeq(cs) \o c
  <1>1. JoinF(L) \in [Seq(L) \X Seq(L) -> Seq(L)] /\ <<>> \in Seq(L)
    BY DEF JoinF
  <1>2. FoldLaws(Seq(L), Seq(L), JoinF(L))
    BY <1>1, FoldedLaws
  <1>3. \A s, t \in Seq(L) : JoinF(L)[<<s, t>>] = s \o t
    BY DEF JoinF
  <1>4. FlattenSeq(<<>>) = <<>>
    BY DEF FlattenSeq
  <1>5. ASSUME NEW cs \in Seq(Seq(L))
        PROVE  FlattenSeq(cs) \in Seq(L)
    BY <1>1, <1>2, FlattenFold DEF FoldLaws
  <1>6. ASSUME NEW cs \in Seq(Seq(L)), NEW c \in Seq(L)
        PROVE  FlattenSeq(Append(cs, c)) = FlattenSeq(cs) \o c
    <2>1. Append(cs, c) \in Seq(Seq(L))
      OBVIOUS
    <2>2. Folded(Seq(L), JoinF(L), <<>>, Append(cs, c))
              = JoinF(L)[<<Folded(Seq(L), JoinF(L), <<>>, cs), c>>]
      BY <1>1, <1>2 DEF FoldLaws, Appends
    <2>3. /\ FlattenSeq(Append(cs, c)) = Folded(Seq(L), JoinF(L), <<>>, Append(cs, c))
          /\ FlattenSeq(cs) = Folded(Seq(L), JoinF(L), <<>>, cs)
      BY <2>1, FlattenFold
    <2>. QED  BY <1>3, <1>5, <2>2, <2>3
  <1>. QED  BY <1>4, <1>5, <1>6

-----------------------------------------------------------------------------
(* Decoding.                                                               *)

Letters == Bytes \cup {Char, Replacement}
Fragments == Seq(Letters) \ {<<>>}

DecodeStates == [out : Seq(Letters), held : BOOLEAN]
DecodeF == [p \in DecodeStates \X Bytes |-> DecodeByte(p[1], p[2])]
DecodeFrom(st, bytes) == Folded(DecodeStates, DecodeF, st, bytes)

Fresh(half) == [out |-> <<>>, held |-> half]

\* What a byte adds to the output.
Emitted(half, byte) == DecodeByte(Fresh(half), byte).out

\* Putting one more letter at the end.
LEMMA AppendLaws ==
  ASSUME NEW L, NEW s \in Seq(L), NEW e \in L
  PROVE  /\ Append(s, e) \in Seq(L) /\ Append(s, e) # <<>>
         /\ Append(<<>>, e) \in Seq(L)
         /\ Append(s, e) = s \o Append(<<>>, e)
  <1>1. Append(s, e) \in Seq(L)
    OBVIOUS
  <1>2. Append(s, e) # <<>>
    <2>1. Len(Append(s, e)) = Len(s) + 1 /\ Len(s) \in Nat /\ Len(<<>>) = 0
      OBVIOUS
    <2>. QED  BY <2>1
  <1>3. <<>> \in Seq(L) /\ Append(<<>>, e) \in Seq(L)
    OBVIOUS
  <1>4. Append(s, e) = s \o Append(<<>>, e)
    <2>1. s \o Append(<<>>, e) = Append(s \o <<>>, e) /\ s \o <<>> = s
      BY <1>3
    <2>. QED  BY <2>1
  <1>. QED  BY <1>1, <1>2, <1>3, <1>4

LEMMA AppendTwice ==
  ASSUME NEW L, NEW s \in Seq(L), NEW t \in Seq(L), NEW e \in L
  PROVE  s \o Append(t, e) = Append(s \o t, e)
  OBVIOUS

LEMMA DecodeStep ==
  ASSUME NEW st \in DecodeStates, NEW byte \in Bytes
  PROVE  /\ Emitted(st.held, byte) \in Seq(Letters)
         /\ DecodeByte(st, byte).out = st.out \o Emitted(st.held, byte)
         /\ DecodeByte(st, byte).held <=> byte = Lead
         /\ DecodeByte(st, byte) \in DecodeStates
         /\ DecodeByte(st, byte).out # <<>> \/ DecodeByte(st, byte).held
  <1>1. /\ st.out \in Seq(Letters) /\ st.held \in BOOLEAN /\ byte \in Letters
        /\ Char \in Letters /\ Replacement \in Letters
    BY DEF DecodeStates, Letters
  <1>2. ASSUME NEW e \in Letters
        PROVE  /\ Append(<<>>, e) \in Seq(Letters)
               /\ Append(st.out, e) = st.out \o Append(<<>>, e)
               /\ Append(st.out, e) \in Seq(Letters)
               /\ Append(st.out, e) # <<>>
    BY <1>1, AppendLaws
  <1>3. ASSUME NEW e \in Letters, NEW f \in Letters
        PROVE  /\ Append(Append(<<>>, e), f) \in Seq(Letters)
               /\ Append(Append(st.out, e), f) = st.out \o Append(Append(<<>>, e), f)
               /\ Append(Append(st.out, e), f) \in Seq(Letters)
               /\ Append(Append(st.out, e), f) # <<>>
    <2>1. /\ Append(<<>>, e) \in Seq(Letters)
          /\ Append(st.out, e) = st.out \o Append(<<>>, e)
          /\ Append(st.out, e) \in Seq(Letters)
      BY <1>2
    <2>2. st.out \o Append(Append(<<>>, e), f) = Append(st.out \o Append(<<>>, e), f)
      BY <1>1, <2>1, AppendTwice
    <2>3. /\ Append(Append(<<>>, e), f) \in Seq(Letters)
          /\ Append(Append(st.out, e), f) \in Seq(Letters)
          /\ Append(Append(st.out, e), f) # <<>>
      BY <2>1, AppendLaws
    <2>. QED  BY <2>1, <2>2, <2>3
  <1>4. st.out \o <<>> = st.out /\ <<>> \in Seq(Letters)
    BY <1>1
  <1>5. CASE byte = Lead /\ st.held
    BY <1>1, <1>2, <1>5 DEF DecodeByte, Emitted, Fresh, DecodeStates
  <1>6. CASE byte = Lead /\ ~st.held
    BY <1>1, <1>4, <1>6 DEF DecodeByte, Emitted, Fresh, DecodeStates
  <1>7. CASE byte # Lead /\ byte = Trail
    BY <1>1, <1>2, <1>7 DEF DecodeByte, Emitted, Fresh, DecodeStates
  <1>8. CASE byte # Lead /\ byte # Trail /\ st.held
    BY <1>1, <1>3, <1>8 DEF DecodeByte, Emitted, Fresh, DecodeStates
  <1>9. CASE byte # Lead /\ byte # Trail /\ ~st.held
    BY <1>1, <1>2, <1>9 DEF DecodeByte, Emitted, Fresh, DecodeStates
  <1>. QED  BY <1>5, <1>6, <1>7, <1>8, <1>9

LEMMA DecodeLaws == FoldLaws(DecodeStates, Bytes, DecodeF)
  <1>1. DecodeF \in [DecodeStates \X Bytes -> DecodeStates]
    BY DecodeStep DEF DecodeF
  <1>. QED  BY <1>1, FoldedLaws

LEMMA FreshState ==
  ASSUME NEW half \in BOOLEAN
  PROVE  Fresh(half) \in DecodeStates /\ Fresh(half).out = <<>> /\ Fresh(half).held = half
  BY DEF Fresh, DecodeStates

LEMMA DecodeNext ==
  ASSUME NEW st \in DecodeStates, NEW s \in Seq(Bytes), NEW byte \in Bytes
  PROVE  /\ DecodeFrom(st, s) \in DecodeStates
         /\ DecodeFrom(st, <<>>) = st
         /\ DecodeFrom(st, Append(s, byte)) = DecodeByte(DecodeFrom(st, s), byte)
  <1>1. DecodeFrom(st, s) \in DecodeStates /\ DecodeFrom(st, <<>>) = st
    BY DecodeLaws DEF DecodeFrom, FoldLaws
  <1>2. DecodeFrom(st, Append(s, byte)) = DecodeF[<<DecodeFrom(st, s), byte>>]
    BY DecodeLaws DEF DecodeFrom, FoldLaws, Appends
  <1>. QED  BY <1>1, <1>2 DEF DecodeF

LEMMA DecoderFold ==
  ASSUME NEW bytes \in Seq(Bytes), NEW half \in BOOLEAN
  PROVE  Decoder(bytes, half) = DecodeFrom(Fresh(half), bytes)
  <1> DEFINE Eq(f) == f = [s \in SUBSET DOMAIN bytes |->
                              IF s = {} THEN Fresh(half)
                              ELSE DecodeByte(f[s \ {Max(s)}], bytes[Max(s)])]
             it == CHOOSE f : Eq(f)
  <1>1. DecodeF \in [DecodeStates \X Bytes -> DecodeStates] /\ Fresh(half) \in DecodeStates
    BY DecodeStep, FreshState DEF DecodeF
  <1>2. \A st \in DecodeStates, b \in Bytes : DecodeF[<<st, b>>] = DecodeByte(st, b)
    BY DEF DecodeF
  <1>3. PICK g : Solves(g, DecodeStates, Bytes, DecodeF, Fresh(half), bytes)
    BY <1>1, SolutionExists
  <1>4. Eq(g)
    BY <1>2, <1>3 DEF Solves
  <1>5. Eq(it)
    <2>. HIDE DEF Eq
    <2>. QED  BY <1>4
  <1>6. Decoder(bytes, half) = it[DOMAIN bytes]
    BY DEF Decoder, FoldLeft, MapThenFoldSet, Fresh
  <1>. HIDE DEF it
  <1>7. Unrolls(it, DecodeStates, Bytes, DecodeF, Fresh(half), bytes)
    BY <1>2, <1>5 DEF Unrolls
  <1>8. it[DOMAIN bytes] = Folded(DecodeStates, DecodeF, Fresh(half), bytes)
    <2>1. ComesTo(it, DecodeStates, Bytes, DecodeF, Fresh(half), bytes)
      BY <1>1, <1>7, UnrollsTo
    <2>. QED  BY <2>1 DEF ComesTo
  <1>. QED  BY <1>6, <1>8 DEF DecodeFrom

LEMMA Associative ==
  ASSUME NEW L, NEW s \in Seq(L), NEW t \in Seq(L), NEW u \in Seq(L)
  PROVE  (s \o t) \o u = s \o (t \o u)
  OBVIOUS

\* What has been put out does not matter to the bytes that follow.
LEMMA DecodeShift ==
  ASSUME NEW st \in DecodeStates, NEW bytes \in Seq(Bytes)
  PROVE  /\ DecodeFrom(st, bytes).out = st.out \o DecodeFrom(Fresh(st.held), bytes).out
         /\ DecodeFrom(st, bytes).held = DecodeFrom(Fresh(st.held), bytes).held
  <1> DEFINE fresh == Fresh(st.held)
             Shifted(s) == /\ DecodeFrom(st, s).out = st.out \o DecodeFrom(fresh, s).out
                           /\ DecodeFrom(st, s).held = DecodeFrom(fresh, s).held
             T == {s \in Seq(Bytes) : Shifted(s)}
  <1>0. fresh \in DecodeStates /\ fresh.out = <<>> /\ fresh.held = st.held
    BY FreshState DEF DecodeStates
  <1>. HIDE DEF fresh
  <1>1. <<>> \in T
    <2>1. DecodeFrom(st, <<>>) = st /\ DecodeFrom(fresh, <<>>) = fresh
      BY <1>0, DecodeLaws DEF DecodeFrom, FoldLaws
    <2>2. st.out \o <<>> = st.out
      BY DEF DecodeStates
    <2>3. Shifted(<<>>)
      BY <1>0, <2>1, <2>2
    <2>. HIDE DEF Shifted
    <2>. QED  BY <2>3
  <1>2. ASSUME NEW s \in Seq(Bytes), NEW byte \in Bytes, s \in T
        PROVE  Append(s, byte) \in T
    <2> DEFINE a == DecodeFrom(st, s)
               b == DecodeFrom(fresh, s)
    <2>1. /\ a \in DecodeStates /\ b \in DecodeStates
          /\ DecodeFrom(st, Append(s, byte)) = DecodeByte(a, byte)
          /\ DecodeFrom(fresh, Append(s, byte)) = DecodeByte(b, byte)
      BY <1>0, DecodeNext
    <2>2. a.out = st.out \o b.out /\ a.held = b.held
      BY <1>2
    <2>. HIDE DEF a, b
    <2>3. /\ DecodeByte(a, byte).out = a.out \o Emitted(a.held, byte)
          /\ DecodeByte(b, byte).out = b.out \o Emitted(b.held, byte)
          /\ DecodeByte(a, byte).held = DecodeByte(b, byte).held
          /\ Emitted(b.held, byte) \in Seq(Letters)
      <3>1. /\ DecodeByte(a, byte).out = a.out \o Emitted(a.held, byte)
            /\ DecodeByte(a, byte) \in DecodeStates
            /\ DecodeByte(a, byte).held <=> byte = Lead
        BY <2>1, DecodeStep
      <3>2. /\ DecodeByte(b, byte).out = b.out \o Emitted(b.held, byte)
            /\ DecodeByte(b, byte) \in DecodeStates
            /\ DecodeByte(b, byte).held <=> byte = Lead
            /\ Emitted(b.held, byte) \in Seq(Letters)
        BY <2>1, DecodeStep
      <3>3. \A x \in DecodeStates : x.held \in BOOLEAN
        BY DEF DecodeStates
      <3>4. DecodeByte(a, byte).held = DecodeByte(b, byte).held
        BY <3>1, <3>2, <3>3
      <3>. QED  BY <3>1, <3>2, <3>4
    <2>4. st.out \in Seq(Letters) /\ b.out \in Seq(Letters)
      BY <2>1 DEF DecodeStates
    <2>5. (st.out \o b.out) \o Emitted(b.held, byte) = st.out \o (b.out \o Emitted(b.held, byte))
      <3> DEFINE x == st.out
                 y == b.out
                 z == Emitted(b.held, byte)
      <3>1. x \in Seq(Letters) /\ y \in Seq(Letters) /\ z \in Seq(Letters)
        BY <2>3, <2>4
      <3>. HIDE DEF x, y, z
      <3>2. (x \o y) \o z = x \o (y \o z)
        BY <3>1
      <3>. QED  BY <3>2 DEF x, y, z
    <2>6. Shifted(Append(s, byte))
      BY <2>1, <2>2, <2>3, <2>5
    <2>. HIDE DEF Shifted
    <2>. QED  BY <2>6
  <1>. HIDE DEF T
  <1>3. bytes \in T
    BY <1>1, <1>2, SequenceInduction
  <1>. QED  BY <1>3 DEF T, fresh

\* What a sequence of bytes makes of a decoder that has put out nothing yet.
LEMMA DecoderLaws ==
  ASSUME NEW half \in BOOLEAN, NEW s \in Seq(Bytes), NEW t \in Seq(Bytes)
  PROVE  /\ Decoder(s, half) \in DecodeStates
         /\ Decoder(<<>>, half) = Fresh(half)
         /\ Decoder(s \o t, half).out
                = Decoder(s, half).out \o Decoder(t, Decoder(s, half).held).out
         /\ Decoder(s \o t, half).held = Decoder(t, Decoder(s, half).held).held
  <1> DEFINE st == DecodeFrom(Fresh(half), s)
  <1>1. Fresh(half) \in DecodeStates /\ <<>> \in Seq(Bytes) /\ s \o t \in Seq(Bytes)
    BY FreshState
  <1>2. st \in DecodeStates /\ Decoder(s, half) = st
    BY <1>1, DecoderFold, DecodeLaws DEF DecodeFrom, FoldLaws
  <1>3. Decoder(<<>>, half) = Fresh(half)
    <2>1. DecodeFrom(Fresh(half), <<>>) = Fresh(half)
      BY <1>1, DecodeLaws DEF DecodeFrom, FoldLaws
    <2>. QED  BY <1>1, <2>1, DecoderFold
  <1>4. DecodeFrom(Fresh(half), s \o t) = DecodeFrom(st, t)
    BY <1>1, DecodeLaws DEF DecodeFrom, FoldLaws, Concats
  <1>. HIDE DEF st
  <1>5. st.held \in BOOLEAN
    BY <1>2 DEF DecodeStates
  <1>6. /\ DecodeFrom(st, t).out = st.out \o DecodeFrom(Fresh(st.held), t).out
        /\ DecodeFrom(st, t).held = DecodeFrom(Fresh(st.held), t).held
    BY <1>2, DecodeShift
  <1>7. Decoder(t, st.held) = DecodeFrom(Fresh(st.held), t)
    BY <1>5, DecoderFold
  <1>8. Decoder(s \o t, half) = DecodeFrom(Fresh(half), s \o t)
    BY <1>1, DecoderFold
  <1>. QED  BY <1>2, <1>3, <1>4, <1>6, <1>7, <1>8

DecodedStates == [texts : Seq(Fragments), held : BOOLEAN]
DecodedF == [p \in DecodedStates \X Seq(Bytes) |-> DecodeChunk(p[1], p[2])]
NoneDecoded == [texts |-> <<>>, held |-> FALSE]

LEMMA ChunkDecoded ==
  ASSUME NEW st \in DecodedStates, NEW chunk \in Seq(Bytes)
  PROVE  /\ DecodeChunk(st, chunk) \in DecodedStates
         /\ DecodeChunk(st, chunk).held = Decoder(chunk, st.held).held
         /\ FlattenSeq(DecodeChunk(st, chunk).texts)
                = FlattenSeq(st.texts) \o Decoder(chunk, st.held).out
  <1> DEFINE d == Decoder(chunk, st.held)
  <1>1. st.held \in BOOLEAN /\ st.texts \in Seq(Fragments)
    BY DEF DecodedStates
  <1>2. d.out \in Seq(Letters) /\ d.held \in BOOLEAN
    BY <1>1, DecoderLaws DEF DecodeStates
  <1>. HIDE DEF d
  <1>3. st.texts \in Seq(Seq(Letters)) /\ FlattenSeq(st.texts) \in Seq(Letters)
    <2>1. st.texts \in Seq(Seq(Letters))
      BY <1>1 DEF Fragments
    <2>. QED  BY <2>1, FlattenAppend
  <1>4. CASE d.out = <<>>
    <2>1. FlattenSeq(st.texts) \o d.out = FlattenSeq(st.texts)
      BY <1>3, <1>4
    <2>. QED  BY <1>1, <1>2, <1>4, <2>1 DEF DecodeChunk, DecodedStates, d
  <1>5. CASE d.out # <<>>
    <2>1. d.out \in Fragments
      BY <1>2, <1>5 DEF Fragments
    <2>2. Append(st.texts, d.out) \in Seq(Fragments)
      BY <1>1, <2>1
    <2>3. FlattenSeq(Append(st.texts, d.out)) = FlattenSeq(st.texts) \o d.out
      BY <1>2, <1>3, FlattenAppend
    <2>4. DecodeChunk(st, chunk) = [texts |-> Append(st.texts, d.out), held |-> d.held]
      BY <1>5 DEF DecodeChunk, d
    <2>. QED  BY <1>1, <1>2, <2>2, <2>3, <2>4 DEF DecodedStates, d
  <1>. QED  BY <1>4, <1>5

LEMMA DecodedLaws == FoldLaws(DecodedStates, Seq(Bytes), DecodedF)
  <1>1. DecodedF \in [DecodedStates \X Seq(Bytes) -> DecodedStates]
    BY ChunkDecoded DEF DecodedF
  <1>. QED  BY <1>1, FoldedLaws

LEMMA DecodedFold ==
  ASSUME NEW cs \in Seq(Seq(Bytes))
  PROVE  Decoded(cs) = Folded(DecodedStates, DecodedF, NoneDecoded, cs)
  <1> DEFINE Eq(f) == f = [s \in SUBSET DOMAIN cs |->
                              IF s = {} THEN NoneDecoded
                              ELSE DecodeChunk(f[s \ {Max(s)}], cs[Max(s)])]
             it == CHOOSE f : Eq(f)
  <1>1. DecodedF \in [DecodedStates \X Seq(Bytes) -> DecodedStates]
    BY ChunkDecoded DEF DecodedF
  <1>2. NoneDecoded \in DecodedStates
    BY DEF NoneDecoded, DecodedStates
  <1>3. \A st \in DecodedStates, c \in Seq(Bytes) : DecodedF[<<st, c>>] = DecodeChunk(st, c)
    BY DEF DecodedF
  <1>4. PICK g : Solves(g, DecodedStates, Seq(Bytes), DecodedF, NoneDecoded, cs)
    BY <1>1, <1>2, SolutionExists
  <1>5. Eq(g)
    BY <1>3, <1>4 DEF Solves
  <1>6. Eq(it)
    <2>. HIDE DEF Eq
    <2>. QED  BY <1>5
  <1>7. Decoded(cs) = it[DOMAIN cs]
    BY DEF Decoded, FoldLeft, MapThenFoldSet, NoneDecoded
  <1>. HIDE DEF it
  <1>8. Unrolls(it, DecodedStates, Seq(Bytes), DecodedF, NoneDecoded, cs)
    BY <1>3, <1>6 DEF Unrolls
  <1>9. ComesTo(it, DecodedStates, Seq(Bytes), DecodedF, NoneDecoded, cs)
    BY <1>1, <1>2, <1>8, UnrollsTo
  <1>. QED  BY <1>7, <1>9 DEF ComesTo

\* A decoder that is given a text in chunks puts out what it makes of the text.
LEMMA DecodedInOrder ==
  ASSUME NEW cs \in Seq(Seq(Bytes))
  PROVE  /\ Decoded(cs) \in DecodedStates
         /\ FlattenSeq(Decoded(cs).texts) = Decoder(FlattenSeq(cs), FALSE).out
         /\ Decoded(cs).held = Decoder(FlattenSeq(cs), FALSE).held
  <1> DEFINE Good(s) == /\ Decoded(s) \in DecodedStates
                        /\ FlattenSeq(Decoded(s).texts) = Decoder(FlattenSeq(s), FALSE).out
                        /\ Decoded(s).held = Decoder(FlattenSeq(s), FALSE).held
             T == {s \in Seq(Seq(Bytes)) : Good(s)}
  <1>0. NoneDecoded \in DecodedStates
    BY DEF NoneDecoded, DecodedStates
  <1>1. <<>> \in T
    <2>1. <<>> \in Seq(Seq(Bytes)) /\ <<>> \in Seq(Bytes)
      OBVIOUS
    <2>2. Decoded(<<>>) = NoneDecoded
      BY <1>0, <2>1, DecodedFold, DecodedLaws DEF FoldLaws
    <2>3. Decoder(<<>>, FALSE) = Fresh(FALSE)
      BY <2>1, DecoderLaws
    <2>4. FlattenSeq(<<>>) = <<>>
      BY FlattenAppend
    <2>5. Good(<<>>)
      <3>1. /\ NoneDecoded.texts = <<>> /\ NoneDecoded.held = FALSE
            /\ Fresh(FALSE).out = <<>> /\ Fresh(FALSE).held = FALSE
        BY DEF NoneDecoded, Fresh
      <3>. QED  BY <1>0, <2>2, <2>3, <2>4, <3>1
    <2>. HIDE DEF Good
    <2>. QED  BY <2>1, <2>5
  <1>2. ASSUME NEW s \in Seq(Seq(Bytes)), NEW c \in Seq(Bytes), s \in T
        PROVE  Append(s, c) \in T
    <2>0. Append(s, c) \in Seq(Seq(Bytes))
      OBVIOUS
    <2>1. Good(s)
      BY <1>2
    <2>2. Decoded(Append(s, c)) = DecodeChunk(Decoded(s), c)
      <3>1. Folded(DecodedStates, DecodedF, NoneDecoded, Append(s, c))
                = DecodedF[<<Folded(DecodedStates, DecodedF, NoneDecoded, s), c>>]
        BY <1>0, DecodedLaws DEF FoldLaws, Appends
      <3>2. Decoded(Append(s, c)) = DecodedF[<<Decoded(s), c>>]
        BY <2>0, <3>1, DecodedFold
      <3>. QED  BY <2>1, <3>2 DEF DecodedF
    <2> DEFINE st   == Decoded(s)
               flat == FlattenSeq(s)
    <2>3. flat \in Seq(Bytes) /\ FlattenSeq(Append(s, c)) = flat \o c
      BY FlattenAppend
    <2>4. /\ st \in DecodedStates
          /\ FlattenSeq(st.texts) = Decoder(flat, FALSE).out
          /\ st.held = Decoder(flat, FALSE).held
      BY <2>1
    <2>. HIDE DEF Good, st, flat
    <2>5. /\ DecodeChunk(st, c) \in DecodedStates
          /\ DecodeChunk(st, c).held = Decoder(c, st.held).held
          /\ FlattenSeq(DecodeChunk(st, c).texts)
                 = FlattenSeq(st.texts) \o Decoder(c, st.held).out
      BY <2>4, ChunkDecoded
    <2>6. /\ Decoder(flat \o c, FALSE).out
                 = Decoder(flat, FALSE).out \o Decoder(c, Decoder(flat, FALSE).held).out
          /\ Decoder(flat \o c, FALSE).held = Decoder(c, Decoder(flat, FALSE).held).held
      BY <2>3, DecoderLaws
    <2>7. Good(Append(s, c))
      BY <2>2, <2>3, <2>4, <2>5, <2>6 DEF Good, st
    <2>. QED  BY <2>0, <2>7
  <1>. HIDE DEF T
  <1>3. cs \in T
    BY <1>1, <1>2, SequenceInduction
  <1>. QED  BY <1>3 DEF T

\* stream_decode_response_unicode gives the text of the bytes, in fragments none
\* of which is empty, wherever the bytes are cut.
LEMMA ChunksDecoded ==
  ASSUME NEW cs \in Seq(Seq(Bytes))
  PROVE  /\ DecodeChunks(cs) \in Seq(Fragments)
         /\ FlattenSeq(DecodeChunks(cs)) = Text(FlattenSeq(cs))
  <1> DEFINE end == Decoded(cs)
             dec == Decoder(FlattenSeq(cs), FALSE)
  <1>1. /\ end \in DecodedStates
        /\ FlattenSeq(end.texts) = dec.out
        /\ end.held = dec.held
    BY DecodedInOrder
  <1>2. DecodeChunks(cs) = IF end.held THEN Append(end.texts, <<Replacement>>) ELSE end.texts
    BY DEF DecodeChunks
  <1>3. Text(FlattenSeq(cs)) = IF dec.held THEN Append(dec.out, Replacement) ELSE dec.out
    BY DEF Text
  <1>. HIDE DEF end, dec
  <1>4. end.texts \in Seq(Fragments) /\ end.texts \in Seq(Seq(Letters)) /\ end.held \in BOOLEAN
    BY <1>1 DEF DecodedStates, Fragments
  <1>5. CASE ~end.held
    BY <1>1, <1>2, <1>3, <1>4, <1>5
  <1>6. CASE end.held
    <2>1. Replacement \in Letters
      BY DEF Letters
    <2>2. <<Replacement>> \in Seq(Letters) /\ <<Replacement>> = Append(<<>>, Replacement)
      BY <2>1
    <2>3. <<Replacement>> \in Fragments
      BY <2>2 DEF Fragments
    <2>4. Append(end.texts, <<Replacement>>) \in Seq(Fragments)
      BY <1>4, <2>3
    <2>5. FlattenSeq(Append(end.texts, <<Replacement>>)) = dec.out \o <<Replacement>>
      BY <1>1, <1>4, <2>2, FlattenAppend
    <2>6. dec.out \in Seq(Letters)
      BY <1>1, <1>4, FlattenAppend
    <2>7. Append(dec.out, Replacement) = dec.out \o <<Replacement>>
      BY <2>1, <2>2, <2>6, AppendLaws
    <2>. QED  BY <1>1, <1>2, <1>3, <1>6, <2>4, <2>5, <2>7
  <1>. QED  BY <1>4, <1>5, <1>6

-----------------------------------------------------------------------------
(* Which lines are written.                                                *)

KeepF(E, S) == [p \in Seq(E) \X E |-> Kept(p[1], p[2], S)]

LEMMA KeepType ==
  ASSUME NEW E, NEW S
  PROVE  KeepF(E, S) \in [Seq(E) \X E -> Seq(E)]
  <1>1. \A s \in Seq(E), e \in E : Kept(s, e, S) \in Seq(E)
    BY DEF Kept
  <1>. QED  BY <1>1 DEF KeepF

LEMMA FilterIs ==
  ASSUME NEW E, NEW seq \in Seq(E), NEW S
  PROVE  Filter(seq, S) = Folded(Seq(E), KeepF(E, S), <<>>, seq)
  <1>1. PICK h \in [0..Len(seq) -> Seq(E)] :
            /\ h[0] = <<>>
            /\ \A n \in 1..Len(seq) : h[n] = Kept(h[n - 1], seq[n], S)
            /\ Filter(seq, S) = h[Len(seq)]
    BY FilterFold
  <1>2. ASSUME NEW n \in 1..Len(seq)
        PROVE  h[n] = KeepF(E, S)[<<h[n - 1], seq[n]>>]
    <2>1. n - 1 \in 0..Len(seq) /\ seq[n] \in E
      OBVIOUS
    <2>2. h[n - 1] \in Seq(E)
      BY <1>1, <2>1
    <2>3. KeepF(E, S)[<<h[n - 1], seq[n]>>] = Kept(h[n - 1], seq[n], S)
      BY <2>1, <2>2 DEF KeepF
    <2>. QED  BY <1>1, <2>3
  <1>3. Folds(h, Seq(E), KeepF(E, S), <<>>, seq)
    BY <1>1, <1>2 DEF Folds
  <1>4. Len(seq) \in Nat
    OBVIOUS
  <1>. QED  BY <1>1, <1>3, <1>4, FoldedIs

LEMMA FilterLaws ==
  ASSUME NEW E, NEW S
  PROVE  /\ Filter(<<>>, S) = <<>>
         /\ \A s \in Seq(E) : Filter(s, S) \in Seq(E)
         /\ \A s \in Seq(E), e \in E : Filter(Append(s, e), S) = Kept(Filter(s, S), e, S)
  <1>1. FoldLaws(Seq(E), E, KeepF(E, S))
    BY KeepType, FoldedLaws
  <1>2. <<>> \in Seq(E)
    OBVIOUS
  <1>3. Filter(<<>>, S) = <<>>
    BY <1>1, <1>2, FilterIs DEF FoldLaws
  <1>4. ASSUME NEW s \in Seq(E)
        PROVE  Filter(s, S) \in Seq(E)
    BY <1>1, <1>2, FilterIs, ZenonT(60) DEF FoldLaws
  <1>5. ASSUME NEW s \in Seq(E), NEW e \in E
        PROVE  Filter(Append(s, e), S) = Kept(Filter(s, S), e, S)
    <2>1. Append(s, e) \in Seq(E)
      OBVIOUS
    <2>2. Folded(Seq(E), KeepF(E, S), <<>>, Append(s, e))
              = KeepF(E, S)[<<Folded(Seq(E), KeepF(E, S), <<>>, s), e>>]
      BY <1>1, <1>2 DEF FoldLaws, Appends
    <2>3. /\ Filter(Append(s, e), S) = Folded(Seq(E), KeepF(E, S), <<>>, Append(s, e))
          /\ Filter(s, S) = Folded(Seq(E), KeepF(E, S), <<>>, s)
      BY <2>1, FilterIs
    <2>4. KeepF(E, S)[<<Filter(s, S), e>>] = Kept(Filter(s, S), e, S)
      BY <1>4 DEF KeepF
    <2>. QED  BY <2>2, <2>3, <2>4
  <1>. QED  BY <1>3, <1>4, <1>5

WrittenLines(lines) == Filter(lines, Fragments)
Lines == Seq(Letters)

\* The sets of lines that Written tests against differ from one sequence to
\* the next, what they say of its lines does not.
LEMMA WrittenIs ==
  ASSUME NEW lines \in Seq(Lines)
  PROVE  Written(lines) = WrittenLines(lines)
  <1> DEFINE S == ToSet(lines) \ {<<>>}
             Same(s) == ToSet(s) \subseteq ToSet(lines) => Filter(s, S) = Filter(s, Fragments)
             T == {s \in Seq(Lines) : Same(s)}
  <1>1. <<>> \in T
    <2>1. <<>> \in Seq(Lines)
      OBVIOUS
    <2>2. Filter(<<>>, S) = <<>> /\ Filter(<<>>, Fragments) = <<>>
      <3>. HIDE DEF S
      <3>. QED  BY FilterLaws
    <2>. QED  BY <2>1, <2>2
  <1>2. ASSUME NEW s \in Seq(Lines), NEW e \in Lines, s \in T
        PROVE  Append(s, e) \in T
    <2>1. Append(s, e) \in Seq(Lines)
      OBVIOUS
    <2>. SUFFICES ASSUME ToSet(Append(s, e)) \subseteq ToSet(lines)
                  PROVE  Filter(Append(s, e), S) = Filter(Append(s, e), Fragments)
      BY <2>1
    <2>2. e \in ToSet(Append(s, e)) /\ ToSet(s) \subseteq ToSet(Append(s, e))
      <3>1. /\ Len(Append(s, e)) = Len(s) + 1 /\ Len(s) \in Nat
            /\ Append(s, e)[Len(s) + 1] = e
            /\ \A i \in 1..Len(s) : Append(s, e)[i] = s[i]
            /\ DOMAIN s = 1..Len(s) /\ DOMAIN Append(s, e) = 1..(Len(s) + 1)
        OBVIOUS
      <3>. HIDE DEF T
      <3>2. Len(s) + 1 \in 1..(Len(s) + 1) /\ \A i \in 1..Len(s) : i \in 1..(Len(s) + 1)
        BY <3>1
      <3>. QED  BY <3>1, <3>2 DEF ToSet
    <2>3. e \in S <=> e \in Fragments
      BY <2>2 DEF Fragments, Lines
    <2>4. Filter(s, S) = Filter(s, Fragments)
      BY <1>2, <2>2
    <2>. HIDE DEF S
    <2>5. /\ Filter(Append(s, e), S) = Kept(Filter(s, S), e, S)
          /\ Filter(Append(s, e), Fragments) = Kept(Filter(s, Fragments), e, Fragments)
      BY FilterLaws
    <2>. QED  BY <2>3, <2>4, <2>5 DEF Kept
  <1>. HIDE DEF T
  <1>3. lines \in T
    BY <1>1, <1>2, SequenceInduction
  <1>. QED  BY <1>3 DEF T, Written, WrittenLines

LEMMA WrittenLaws ==
  /\ WrittenLines(<<>>) = <<>>
  /\ \A s \in Seq(Lines) : WrittenLines(s) \in Seq(Lines)
  /\ \A s \in Seq(Lines), e \in Lines :
        WrittenLines(Append(s, e)) = IF e = <<>> THEN WrittenLines(s) ELSE Append(WrittenLines(s), e)
  <1>1. \A e \in Lines : e \in Fragments <=> e # <<>>
    BY DEF Lines, Fragments
  <1>. QED  BY <1>1, FilterLaws DEF WrittenLines, Kept

LEMMA WrittenConcat ==
  ASSUME NEW s \in Seq(Lines), NEW t \in Seq(Lines)
  PROVE  WrittenLines(s \o t) = WrittenLines(s) \o WrittenLines(t)
  <1> DEFINE T == {u \in Seq(Lines) : WrittenLines(s \o u) = WrittenLines(s) \o WrittenLines(u)}
  <1>0. WrittenLines(s) \in Seq(Lines)
    BY WrittenLaws
  <1>1. <<>> \in T
    <2>1. <<>> \in Seq(Lines) /\ s \o <<>> = s /\ WrittenLines(s) \o <<>> = WrittenLines(s)
      BY <1>0
    <2>. QED  BY <2>1, WrittenLaws
  <1>2. ASSUME NEW u \in Seq(Lines), NEW e \in Lines, u \in T
        PROVE  Append(u, e) \in T
    <2>1. Append(u, e) \in Seq(Lines) /\ s \o u \in Seq(Lines)
      OBVIOUS
    <2>2. s \o Append(u, e) = Append(s \o u, e)
      OBVIOUS
    <2>3. WrittenLines(u) \in Seq(Lines) /\ WrittenLines(s \o u) = WrittenLines(s) \o WrittenLines(u)
      BY <1>2, WrittenLaws
    <2>4. WrittenLines(s) \o Append(WrittenLines(u), e) = Append(WrittenLines(s) \o WrittenLines(u), e)
      BY <1>0, <2>3, AppendTwice
    <2>5. /\ WrittenLines(Append(u, e)) = IF e = <<>> THEN WrittenLines(u) ELSE Append(WrittenLines(u), e)
          /\ WrittenLines(Append(s \o u, e))
                = IF e = <<>> THEN WrittenLines(s \o u) ELSE Append(WrittenLines(s \o u), e)
      BY <2>1, WrittenLaws
    <2>6. WrittenLines(s \o Append(u, e)) = WrittenLines(s) \o WrittenLines(Append(u, e))
      BY <2>2, <2>3, <2>4, <2>5
    <2>. QED  BY <2>1, <2>6
  <1>. HIDE DEF T
  <1>3. t \in T
    BY <1>1, <1>2, SequenceInduction
  <1>. QED  BY <1>3 DEF T

-----------------------------------------------------------------------------
(* Splitting at a delimiter.                                               *)

PartStates == [parts : Seq(Lines), part : Lines]
PartF(d) == [p \in PartStates \X Letters |-> ScanPart(p[1], p[2], d)]
PartFrom(st, text, d) == Folded(PartStates, PartF(d), st, text)

\* The scanner in the middle of a part.
Within(part) == [parts |-> <<>>, part |-> part]

LEMMA PartStep ==
  ASSUME NEW d \in Seq(Letters), NEW st \in PartStates, NEW x \in Letters
  PROVE  /\ ScanPart(st, x, d) \in PartStates
         /\ ScanPart(st, x, d).parts = st.parts \o ScanPart(Within(st.part), x, d).parts
         /\ ScanPart(st, x, d).part = ScanPart(Within(st.part), x, d).part
         /\ ScanPart(st, x, d).part = <<>> \/ ScanPart(st, x, d).part = Append(st.part, x)
         /\ ScanPart(st, x, d).part # <<>> => ScanPart(st, x, d).parts = st.parts
         /\ ScanPart(Within(st.part), x, d) \in PartStates
  <1> DEFINE part == Append(st.part, x)
             head == SubSeq(part, 1, Len(part) - Len(d))
  <1>1. st.parts \in Seq(Lines) /\ st.part \in Lines /\ part \in Lines
    BY DEF PartStates, Lines
  <1>2. head \in Lines
    <2>1. part \in Seq(Letters) /\ Len(part) \in Nat /\ Len(d) \in Nat
      BY <1>1 DEF Lines
    <2>. HIDE DEF part
    <2>2. \A i \in Int : SubSeq(part, 1, i) \in Seq(Letters) \/ i > Len(part)
      BY <2>1
    <2>3. Len(part) - Len(d) \in Int /\ ~(Len(part) - Len(d) > Len(part))
      BY <2>1
    <2>. QED  BY <2>2, <2>3 DEF Lines
  <1>3. ScanPart(st, x, d) = IF IsSuffix(d, part)
                             THEN [parts |-> Append(st.parts, head), part |-> <<>>]
                             ELSE [parts |-> st.parts, part |-> part]
    BY DEF ScanPart
  <1>4. ScanPart(Within(st.part), x, d)
            = IF IsSuffix(d, part)
              THEN [parts |-> Append(<<>>, head), part |-> <<>>]
              ELSE [parts |-> <<>>, part |-> part]
    BY DEF ScanPart, Within
  <1>. HIDE DEF part, head
  <1>5. /\ Append(st.parts, head) \in Seq(Lines) /\ Append(<<>>, head) \in Seq(Lines)
        /\ Append(st.parts, head) = st.parts \o Append(<<>>, head)
    BY <1>1, <1>2, AppendLaws
  <1>6. st.parts \o <<>> = st.parts /\ <<>> \in Seq(Lines) /\ <<>> \in Lines
    BY <1>1 DEF Lines
  <1>7. CASE IsSuffix(d, part)
    BY <1>1, <1>3, <1>4, <1>5, <1>6, <1>7 DEF PartStates
  <1>8. CASE ~IsSuffix(d, part)
    BY <1>1, <1>3, <1>4, <1>6, <1>8 DEF PartStates, part
  <1>. QED  BY <1>7, <1>8

LEMMA PartLaws ==
  ASSUME NEW d \in Seq(Letters)
  PROVE  FoldLaws(PartStates, Letters, PartF(d))
  <1>1. PartF(d) \in [PartStates \X Letters -> PartStates]
    BY PartStep DEF PartF
  <1>. QED  BY <1>1, FoldedLaws

LEMMA WithinState ==
  ASSUME NEW part \in Lines
  PROVE  Within(part) \in PartStates /\ Within(part).parts = <<>> /\ Within(part).part = part
  <1>1. <<>> \in Seq(Lines)
    OBVIOUS
  <1>. QED  BY <1>1 DEF Within, PartStates

LEMMA PartNext ==
  ASSUME NEW d \in Seq(Letters), NEW st \in PartStates, NEW s \in Lines, NEW x \in Letters
  PROVE  /\ PartFrom(st, s, d) \in PartStates
         /\ PartFrom(st, <<>>, d) = st
         /\ PartFrom(st, Append(s, x), d) = ScanPart(PartFrom(st, s, d), x, d)
  <1>1. PartFrom(st, s, d) \in PartStates /\ PartFrom(st, <<>>, d) = st
    BY PartLaws DEF PartFrom, FoldLaws, Lines
  <1>2. PartFrom(st, Append(s, x), d) = PartF(d)[<<PartFrom(st, s, d), x>>]
    BY PartLaws DEF PartFrom, FoldLaws, Appends, Lines
  <1>. QED  BY <1>1, <1>2 DEF PartF

LEMMA PartThen ==
  ASSUME NEW d \in Seq(Letters), NEW st \in PartStates, NEW s \in Lines, NEW t \in Lines
  PROVE  PartFrom(st, s \o t, d) = PartFrom(PartFrom(st, s, d), t, d)
  BY PartLaws DEF PartFrom, FoldLaws, Concats, Lines

LEMMA PartFold ==
  ASSUME NEW d \in Seq(Letters), NEW text \in Lines
  PROVE  PartScan(text, d) = PartFrom(Within(<<>>), text, d)
  <1> DEFINE Eq(f) == f = [s \in SUBSET DOMAIN text |->
                              IF s = {} THEN Within(<<>>)
                              ELSE ScanPart(f[s \ {Max(s)}], text[Max(s)], d)]
             it == CHOOSE f : Eq(f)
  <1>1. PartF(d) \in [PartStates \X Letters -> PartStates] /\ text \in Seq(Letters)
    BY PartStep DEF PartF, Lines
  <1>2. Within(<<>>) \in PartStates
    <2>1. <<>> \in Lines
      BY DEF Lines
    <2>. QED  BY <2>1, WithinState
  <1>3. \A st \in PartStates, x \in Letters : PartF(d)[<<st, x>>] = ScanPart(st, x, d)
    BY DEF PartF
  <1>4. PICK g : Solves(g, PartStates, Letters, PartF(d), Within(<<>>), text)
    BY <1>1, <1>2, SolutionExists
  <1>5. Eq(g)
    BY <1>3, <1>4 DEF Solves
  <1>6. Eq(it)
    <2>. HIDE DEF Eq
    <2>. QED  BY <1>5
  <1>7. PartScan(text, d) = it[DOMAIN text]
    BY DEF PartScan, FoldLeft, MapThenFoldSet, Within
  <1>. HIDE DEF it
  <1>8. Unrolls(it, PartStates, Letters, PartF(d), Within(<<>>), text)
    BY <1>3, <1>6 DEF Unrolls
  <1>9. ComesTo(it, PartStates, Letters, PartF(d), Within(<<>>), text)
    BY <1>1, <1>2, <1>8, UnrollsTo
  <1>. QED  BY <1>7, <1>9 DEF ComesTo, PartFrom

\* What has been split off does not matter to what follows.
LEMMA PartShift ==
  ASSUME NEW d \in Seq(Letters), NEW st \in PartStates, NEW text \in Lines
  PROVE  /\ PartFrom(st, text, d).parts = st.parts \o PartFrom(Within(st.part), text, d).parts
         /\ PartFrom(st, text, d).part = PartFrom(Within(st.part), text, d).part
  <1> DEFINE from == Within(st.part)
             Shifted(s) == /\ PartFrom(st, s, d).parts = st.parts \o PartFrom(from, s, d).parts
                           /\ PartFrom(st, s, d).part = PartFrom(from, s, d).part
             T == {s \in Lines : Shifted(s)}
  <1>0. /\ st.parts \in Seq(Lines) /\ st.part \in Lines
        /\ from \in PartStates /\ from.parts = <<>> /\ from.part = st.part
    BY WithinState DEF PartStates
  <1>. HIDE DEF from
  <1>1. <<>> \in T
    <2>1. PartFrom(st, <<>>, d) = st /\ PartFrom(from, <<>>, d) = from
      BY <1>0, PartLaws DEF PartFrom, FoldLaws
    <2>2. st.parts \o <<>> = st.parts /\ <<>> \in Lines
      BY <1>0 DEF Lines
    <2>3. Shifted(<<>>)
      BY <1>0, <2>1, <2>2
    <2>. HIDE DEF Shifted
    <2>. QED  BY <2>2, <2>3
  <1>2. ASSUME NEW s \in Seq(Letters), NEW x \in Letters, s \in T
        PROVE  Append(s, x) \in T
    <2> DEFINE a == PartFrom(st, s, d)
               b == PartFrom(from, s, d)
    <2>0. s \in Lines /\ Append(s, x) \in Lines
      BY DEF Lines
    <2>1. /\ a \in PartStates /\ b \in PartStates
          /\ PartFrom(st, Append(s, x), d) = ScanPart(a, x, d)
          /\ PartFrom(from, Append(s, x), d) = ScanPart(b, x, d)
      BY <1>0, <2>0, PartNext
    <2>2. a.parts = st.parts \o b.parts /\ a.part = b.part
      BY <1>2
    <2>. HIDE DEF a, b
    <2> DEFINE more == ScanPart(Within(b.part), x, d).parts
    <2>3. ScanPart(a, x, d).parts = a.parts \o more
      <3>1. ScanPart(a, x, d).parts = a.parts \o ScanPart(Within(a.part), x, d).parts
        BY <2>1, PartStep
      <3>. QED  BY <2>2, <3>1
    <2>4. ScanPart(b, x, d).parts = b.parts \o more
      BY <2>1, PartStep
    <2>5. ScanPart(a, x, d).part = ScanPart(b, x, d).part
      <3>1. /\ ScanPart(a, x, d).part = ScanPart(Within(a.part), x, d).part
            /\ ScanPart(b, x, d).part = ScanPart(Within(b.part), x, d).part
        BY <2>1, PartStep
      <3>. QED  BY <2>2, <3>1
    <2>6. more \in Seq(Lines) /\ b.parts \in Seq(Lines)
      <3>1. ScanPart(Within(b.part), x, d) \in PartStates
        BY <2>1, PartStep
      <3>. QED  BY <2>1, <3>1 DEF PartStates
    <2>. HIDE DEF more
    <2>7. (st.parts \o b.parts) \o more = st.parts \o (b.parts \o more)
      <3> DEFINE u == st.parts
                 v == b.parts
      <3>1. u \in Seq(Lines) /\ v \in Seq(Lines)
        BY <1>0, <2>6
      <3>. HIDE DEF u, v
      <3>2. (u \o v) \o more = u \o (v \o more)
        BY <2>6, <3>1, Associative
      <3>. QED  BY <3>2 DEF u, v
    <2>8. Shifted(Append(s, x))
      BY <2>1, <2>2, <2>3, <2>4, <2>5, <2>7
    <2>. HIDE DEF Shifted
    <2>. QED  BY <2>0, <2>8
  <1>. HIDE DEF T
  <1>3. text \in T
    BY <1>1, <1>2, SequenceInduction DEF Lines
  <1>. QED  BY <1>3 DEF T, from

\* The open part is the end of the text, and has nothing in it to split at.
LEMMA OpenPart ==
  ASSUME NEW d \in Seq(Letters), NEW text \in Lines
  PROVE  /\ PartScan(text, d) \in PartStates
         /\ PartFrom(Within(<<>>), PartScan(text, d).part, d) = Within(PartScan(text, d).part)
         /\ PartScan(text, d).part # <<>> =>
               text # <<>> /\ Last(PartScan(text, d).part) = Last(text)
  <1> DEFINE from == Within(<<>>)
             Scan(s) == PartFrom(from, s, d)
             Good(s) == /\ Scan(Scan(s).part) = Within(Scan(s).part)
                        /\ Scan(s).part # <<>> => s # <<>> /\ Last(Scan(s).part) = Last(s)
             T == {s \in Lines : Good(s)}
  <1>0. <<>> \in Lines /\ from \in PartStates /\ from.part = <<>>
    <2>1. <<>> \in Lines
      BY DEF Lines
    <2>. QED  BY <2>1, WithinState
  <1>1. <<>> \in T
    <2>1. Scan(<<>>) = from
      BY <1>0, PartLaws DEF PartFrom, FoldLaws
    <2>. HIDE DEF Scan
    <2>2. Good(<<>>)
      BY <1>0, <2>1
    <2>. QED  BY <1>0, <2>2
  <1>2. ASSUME NEW s \in Seq(Letters), NEW x \in Letters, s \in T
        PROVE  Append(s, x) \in T
    <2> DEFINE st  == Scan(s)
               new == Scan(Append(s, x))
    <2>0. s \in Lines /\ Append(s, x) \in Lines
      BY DEF Lines
    <2>1. st \in PartStates /\ new = ScanPart(st, x, d)
      BY <1>0, <2>0, PartNext
    <2>2. st.part \in Lines /\ Append(st.part, x) \in Lines
      BY <2>1 DEF PartStates, Lines
    <2>3. CASE new.part = <<>>
      <3>1. Scan(<<>>) = from
        BY <1>0, PartLaws DEF PartFrom, FoldLaws
      <3>. HIDE DEF Scan
      <3>2. Good(Append(s, x))
        BY <2>3, <3>1
      <3>. HIDE DEF Good
      <3>. QED  BY <2>0, <3>2
    <2>4. CASE new.part # <<>>
      <3>1. new.part = Append(st.part, x)
        <4>. HIDE DEF st, new
        <4>. QED  BY <2>1, <2>4, PartStep
      <3>2. Scan(st.part) = Within(st.part)
        BY <1>2
      <3>3. Scan(Append(st.part, x)) = ScanPart(Within(st.part), x, d)
        BY <1>0, <2>2, <3>2, PartNext
      <3>4. ScanPart(Within(st.part), x, d) = Within(Append(st.part, x))
        <4>1. Within(st.part) \in PartStates /\ Within(st.part).part = st.part
              /\ Within(st.part).parts = <<>>
          BY <2>2, WithinState
        <4>2. ScanPart(Within(st.part), x, d).part = new.part
          BY <2>1, PartStep, ZenonT(60)
        <4>3. IsSuffix(d, Append(st.part, x)) => ScanPart(Within(st.part), x, d).part = <<>>
          BY <4>1 DEF ScanPart
        <4>4. ~IsSuffix(d, Append(st.part, x))
          BY <2>4, <4>2, <4>3
        <4>. QED  BY <4>1, <4>4 DEF ScanPart, Within
      <3>5. Last(Append(st.part, x)) = x /\ Last(Append(s, x)) = x
        BY <2>2 DEF Last, Lines
      <3>6. Append(s, x) # <<>>
        BY AppendLaws
      <3>. HIDE DEF Scan, st
      <3>7. Good(Append(s, x))
        BY <3>1, <3>3, <3>4, <3>5, <3>6 DEF new
      <3>. HIDE DEF Good
      <3>. QED  BY <2>0, <3>7
    <2>. QED  BY <2>3, <2>4
  <1>. HIDE DEF T
  <1>3. text \in T
    BY <1>1, <1>2, SequenceInduction DEF Lines
  <1>4. PartScan(text, d) = Scan(text) /\ Scan(text) \in PartStates
    <2>1. Scan(text) \in PartStates
      BY <1>0, PartLaws DEF PartFrom, FoldLaws, Lines
    <2>. QED  BY <2>1, PartFold
  <1>. QED  BY <1>3, <1>4 DEF T

-----------------------------------------------------------------------------
(* Splitting at the ends of lines.                                         *)

Breaks == {CR, LF}

LineStates == [lines : Seq(Lines), line : Lines, afterCR : BOOLEAN]
LineF == [p \in LineStates \X Letters |-> ScanLine(p[1], p[2])]
LineFrom(st, text) == Folded(LineStates, LineF, st, text)

\* The scanner in the middle of a line.
Midway(line, after) == [lines |-> <<>>, line |-> line, afterCR |-> after]

LEMMA MidwayState ==
  ASSUME NEW line \in Lines, NEW after \in BOOLEAN
  PROVE  /\ Midway(line, after) \in LineStates
         /\ Midway(line, after).lines = <<>> /\ Midway(line, after).line = line
         /\ Midway(line, after).afterCR = after
  <1>1. <<>> \in Seq(Lines)
    OBVIOUS
  <1>. QED  BY <1>1 DEF Midway, LineStates

LEMMA ScanLineIs ==
  ASSUME NEW st \in LineStates, NEW x \in Letters
  PROVE  ScanLine(st, x)
             = IF x = LF /\ st.afterCR
               THEN [lines |-> st.lines, line |-> st.line, afterCR |-> FALSE]
               ELSE IF x \in Breaks
                    THEN [lines |-> Append(st.lines, st.line), line |-> <<>>, afterCR |-> x = CR]
               ELSE [lines |-> st.lines, line |-> Append(st.line, x), afterCR |-> FALSE]
  BY DEF ScanLine, Breaks

LEMMA LineStep ==
  ASSUME NEW st \in LineStates, NEW x \in Letters
  PROVE  /\ ScanLine(st, x) \in LineStates
         /\ ScanLine(Midway(st.line, st.afterCR), x) \in LineStates
         /\ ScanLine(st, x).lines
                = st.lines \o ScanLine(Midway(st.line, st.afterCR), x).lines
         /\ ScanLine(st, x).line = ScanLine(Midway(st.line, st.afterCR), x).line
         /\ ScanLine(st, x).afterCR = ScanLine(Midway(st.line, st.afterCR), x).afterCR
  <1> DEFINE from == Midway(st.line, st.afterCR)
  <1>1. /\ st.lines \in Seq(Lines) /\ st.line \in Lines /\ st.afterCR \in BOOLEAN
        /\ <<>> \in Lines /\ <<>> \in Seq(Lines)
    BY DEF LineStates, Lines
  <1>2. /\ from \in LineStates /\ from.lines = <<>> /\ from.line = st.line
        /\ from.afterCR = st.afterCR
    BY <1>1, MidwayState
  <1>. HIDE DEF from
  <1>3. /\ Append(st.lines, st.line) \in Seq(Lines) /\ Append(<<>>, st.line) \in Seq(Lines)
        /\ Append(st.lines, st.line) = st.lines \o Append(<<>>, st.line)
    BY <1>1, AppendLaws
  <1>4. st.lines \o <<>> = st.lines /\ Append(st.line, x) \in Lines
    BY <1>1 DEF Lines
  <1>5. CASE x = LF /\ st.afterCR
    <2>1. ScanLine(st, x) = [lines |-> st.lines, line |-> st.line, afterCR |-> FALSE]
      BY <1>5, ScanLineIs
    <2>2. ScanLine(from, x) = [lines |-> <<>>, line |-> st.line, afterCR |-> FALSE]
      BY <1>2, <1>5, ScanLineIs
    <2>. QED  BY <1>1, <1>4, <2>1, <2>2 DEF from, LineStates
  <1>6. CASE ~(x = LF /\ st.afterCR) /\ x \in Breaks
    <2>1. ScanLine(st, x)
              = [lines |-> Append(st.lines, st.line), line |-> <<>>, afterCR |-> x = CR]
      BY <1>6, ScanLineIs
    <2>2. ScanLine(from, x)
              = [lines |-> Append(<<>>, st.line), line |-> <<>>, afterCR |-> x = CR]
      BY <1>2, <1>6, ScanLineIs
    <2>. QED  BY <1>1, <1>3, <2>1, <2>2 DEF from, LineStates
  <1>7. CASE x \notin Breaks
    <2>0. ~(x = LF /\ st.afterCR)
      BY <1>7 DEF Breaks
    <2>1. ScanLine(st, x) = [lines |-> st.lines, line |-> Append(st.line, x), afterCR |-> FALSE]
      BY <1>7, <2>0, ScanLineIs
    <2>2. ScanLine(from, x) = [lines |-> <<>>, line |-> Append(st.line, x), afterCR |-> FALSE]
      BY <1>2, <1>7, <2>0, ScanLineIs
    <2>. QED  BY <1>1, <1>4, <2>1, <2>2 DEF from, LineStates
  <1>. QED  BY <1>5, <1>6, <1>7

LEMMA LineLaws == FoldLaws(LineStates, Letters, LineF)
  <1>1. LineF \in [LineStates \X Letters -> LineStates]
    BY LineStep DEF LineF
  <1>. QED  BY <1>1, FoldedLaws

LEMMA LineNext ==
  ASSUME NEW st \in LineStates, NEW s \in Lines, NEW x \in Letters
  PROVE  /\ LineFrom(st, s) \in LineStates
         /\ LineFrom(st, <<>>) = st
         /\ LineFrom(st, Append(s, x)) = ScanLine(LineFrom(st, s), x)
  <1>1. LineFrom(st, s) \in LineStates /\ LineFrom(st, <<>>) = st
    BY LineLaws DEF LineFrom, FoldLaws, Lines
  <1>2. LineFrom(st, Append(s, x)) = LineF[<<LineFrom(st, s), x>>]
    BY LineLaws DEF LineFrom, FoldLaws, Appends, Lines
  <1>. QED  BY <1>1, <1>2 DEF LineF

LEMMA LineThen ==
  ASSUME NEW st \in LineStates, NEW s \in Lines, NEW t \in Lines
  PROVE  LineFrom(st, s \o t) = LineFrom(LineFrom(st, s), t)
  BY LineLaws DEF LineFrom, FoldLaws, Concats, Lines

LEMMA LineFold ==
  ASSUME NEW text \in Lines
  PROVE  LineScan(text) = LineFrom(Midway(<<>>, FALSE), text)
  <1> DEFINE start == Midway(<<>>, FALSE)
             Eq(f) == f = [s \in SUBSET DOMAIN text |->
                              IF s = {} THEN start
                              ELSE ScanLine(f[s \ {Max(s)}], text[Max(s)])]
             it == CHOOSE f : Eq(f)
  <1>1. LineF \in [LineStates \X Letters -> LineStates] /\ text \in Seq(Letters)
    BY LineStep DEF LineF, Lines
  <1>2. start \in LineStates
    <2>1. <<>> \in Lines
      BY DEF Lines
    <2>. QED  BY <2>1, MidwayState
  <1>3. \A st \in LineStates, x \in Letters : LineF[<<st, x>>] = ScanLine(st, x)
    BY DEF LineF
  <1>4. PICK g : Solves(g, LineStates, Letters, LineF, start, text)
    BY <1>1, <1>2, SolutionExists
  <1>5. Eq(g)
    BY <1>3, <1>4 DEF Solves
  <1>6. Eq(it)
    <2>. HIDE DEF Eq
    <2>. QED  BY <1>5
  <1>7. LineScan(text) = it[DOMAIN text]
    BY DEF LineScan, FoldLeft, MapThenFoldSet, Midway
  <1>. HIDE DEF it, start
  <1>8. Unrolls(it, LineStates, Letters, LineF, start, text)
    BY <1>3, <1>6 DEF Unrolls
  <1>9. ComesTo(it, LineStates, Letters, LineF, start, text)
    BY <1>1, <1>2, <1>8, UnrollsTo
  <1>. QED  BY <1>7, <1>9 DEF ComesTo, LineFrom, start

\* The lines that are complete do not matter to what follows.
LEMMA LineShift ==
  ASSUME NEW st \in LineStates, NEW text \in Lines
  PROVE  /\ LineFrom(st, text).lines
                = st.lines \o LineFrom(Midway(st.line, st.afterCR), text).lines
         /\ LineFrom(st, text).line = LineFrom(Midway(st.line, st.afterCR), text).line
         /\ LineFrom(st, text).afterCR = LineFrom(Midway(st.line, st.afterCR), text).afterCR
  <1> DEFINE from == Midway(st.line, st.afterCR)
             Shifted(s) == /\ LineFrom(st, s).lines = st.lines \o LineFrom(from, s).lines
                           /\ LineFrom(st, s).line = LineFrom(from, s).line
                           /\ LineFrom(st, s).afterCR = LineFrom(from, s).afterCR
             T == {s \in Lines : Shifted(s)}
  <1>0. /\ st.lines \in Seq(Lines) /\ st.line \in Lines
        /\ from \in LineStates /\ from.lines = <<>> /\ from.line = st.line
        /\ from.afterCR = st.afterCR
    BY MidwayState DEF LineStates
  <1>. HIDE DEF from
  <1>1. <<>> \in T
    <2>1. LineFrom(st, <<>>) = st /\ LineFrom(from, <<>>) = from
      BY <1>0, LineLaws DEF LineFrom, FoldLaws
    <2>2. st.lines \o <<>> = st.lines /\ <<>> \in Lines
      BY <1>0 DEF Lines
    <2>3. Shifted(<<>>)
      BY <1>0, <2>1, <2>2
    <2>. HIDE DEF Shifted
    <2>. QED  BY <2>2, <2>3
  <1>2. ASSUME NEW s \in Seq(Letters), NEW x \in Letters, s \in T
        PROVE  Append(s, x) \in T
    <2> DEFINE a == LineFrom(st, s)
               b == LineFrom(from, s)
    <2>0. s \in Lines /\ Append(s, x) \in Lines
      BY DEF Lines
    <2>1. /\ a \in LineStates /\ b \in LineStates
          /\ LineFrom(st, Append(s, x)) = ScanLine(a, x)
          /\ LineFrom(from, Append(s, x)) = ScanLine(b, x)
      BY <1>0, <2>0, LineNext
    <2>2. a.lines = st.lines \o b.lines /\ a.line = b.line /\ a.afterCR = b.afterCR
      BY <1>2
    <2>. HIDE DEF a, b
    <2> DEFINE step == ScanLine(Midway(b.line, b.afterCR), x)
               more == step.lines
    <2>3. /\ ScanLine(a, x).lines = a.lines \o more
          /\ ScanLine(a, x).line = step.line
          /\ ScanLine(a, x).afterCR = step.afterCR
      <3> DEFINE also == ScanLine(Midway(a.line, a.afterCR), x)
      <3>1. /\ ScanLine(a, x).lines = a.lines \o also.lines
            /\ ScanLine(a, x).line = also.line
            /\ ScanLine(a, x).afterCR = also.afterCR
        BY <2>1, LineStep
      <3>2. also = step
        BY <2>2
      <3>. HIDE DEF also, step
      <3>. QED  BY <3>1, <3>2
    <2>4. /\ ScanLine(b, x).lines = b.lines \o more
          /\ ScanLine(b, x).line = step.line
          /\ ScanLine(b, x).afterCR = step.afterCR
      BY <2>1, LineStep
    <2>6. more \in Seq(Lines) /\ b.lines \in Seq(Lines)
      <3>1. step \in LineStates
        BY <2>1, LineStep
      <3>. HIDE DEF step
      <3>. QED  BY <2>1, <3>1 DEF LineStates
    <2>. HIDE DEF more, step
    <2>7. (st.lines \o b.lines) \o more = st.lines \o (b.lines \o more)
      <3> DEFINE u == st.lines
                 v == b.lines
      <3>1. u \in Seq(Lines) /\ v \in Seq(Lines)
        BY <1>0, <2>6
      <3>. HIDE DEF u, v
      <3>2. (u \o v) \o more = u \o (v \o more)
        BY <2>6, <3>1, Associative, SMTT(60)
      <3>. QED  BY <3>2 DEF u, v
    <2>8. Shifted(Append(s, x))
      BY <2>1, <2>2, <2>3, <2>4, <2>7
    <2>. HIDE DEF Shifted
    <2>. QED  BY <2>0, <2>8
  <1>. HIDE DEF T
  <1>3. text \in T
    BY <1>1, <1>2, SequenceInduction DEF Lines
  <1>. QED  BY <1>3 DEF T, from

Unbroken == Seq(Letters \ Breaks)

\* The open line is the end of the text and has nothing in it that ends a line;
\* what the scanner remembers is whether a CR has just done so.
OpenLineIs(text) ==
    LET st == LineScan(text)
    IN  /\ st \in LineStates
        /\ st.lines \in Seq(Unbroken) /\ st.line \in Unbroken
        /\ st.afterCR <=> text # <<>> /\ Last(text) = CR
        /\ st.line # <<>> => text # <<>> /\ Last(text) \notin Breaks /\ Last(st.line) = Last(text)
        /\ text # <<>> /\ st.line = <<>> => Last(text) \in Breaks
        /\ LineScan(st.line) = Midway(st.line, FALSE)

LEMMA OpenLine ==
  ASSUME NEW text \in Lines
  PROVE  OpenLineIs(text)
  <1> DEFINE T == {s \in Lines : OpenLineIs(s)}
  <1>0. CR # LF
    BY LinesAssumption
  <1>1. <<>> \in Lines /\ LineScan(<<>>) = Midway(<<>>, FALSE)
    <2>1. <<>> \in Lines
      BY DEF Lines
    <2>2. Midway(<<>>, FALSE) \in LineStates
      BY <2>1, MidwayState
    <2>. QED  BY <2>1, <2>2, LineFold, LineLaws DEF LineFrom, FoldLaws
  <1>2. <<>> \in T
    <2>1. /\ Midway(<<>>, FALSE) \in LineStates
          /\ Midway(<<>>, FALSE).lines = <<>> /\ Midway(<<>>, FALSE).line = <<>>
          /\ Midway(<<>>, FALSE).afterCR = FALSE
      BY <1>1, MidwayState
    <2>2. <<>> \in Seq(Unbroken) /\ <<>> \in Unbroken
      BY DEF Unbroken
    <2>3. OpenLineIs(<<>>)
      BY <1>1, <2>1, <2>2 DEF OpenLineIs
    <2>. QED  BY <1>1, <2>3
  <1>3. ASSUME NEW s \in Seq(Letters), NEW x \in Letters, s \in T
        PROVE  Append(s, x) \in T
    <2> DEFINE st  == LineScan(s)
               new == LineScan(Append(s, x))
    <2>0. s \in Lines /\ Append(s, x) \in Lines
      BY DEF Lines
    <2>1. /\ st \in LineStates
          /\ st.lines \in Seq(Unbroken) /\ st.line \in Unbroken
          /\ st.afterCR <=> s # <<>> /\ Last(s) = CR
          /\ st.line # <<>> => s # <<>> /\ Last(s) \notin Breaks /\ Last(st.line) = Last(s)
          /\ LineScan(st.line) = Midway(st.line, FALSE)
      BY <1>3 DEF OpenLineIs
    <2>2. new = ScanLine(st, x)
      <3>1. Midway(<<>>, FALSE) \in LineStates
        BY <1>1, MidwayState
      <3>2. /\ LineScan(s) = LineFrom(Midway(<<>>, FALSE), s)
            /\ LineScan(Append(s, x)) = LineFrom(Midway(<<>>, FALSE), Append(s, x))
        BY <2>0, LineFold
      <3>3. LineFrom(Midway(<<>>, FALSE), Append(s, x))
                = ScanLine(LineFrom(Midway(<<>>, FALSE), s), x)
        BY <2>0, <3>1, LineNext
      <3>. QED  BY <3>2, <3>3
    <2>3. Append(s, x) # <<>> /\ Last(Append(s, x)) = x
      <3>1. Append(s, x) # <<>>
        BY AppendLaws
      <3>2. Last(Append(s, x)) = x
        BY DEF Last
      <3>. QED  BY <3>1, <3>2
    <2>4. new \in LineStates
      BY <2>1, <2>2, LineStep
    <2>. HIDE DEF new, st
    <2>5. CASE x \in Breaks
      <3>1. new.line = <<>>
        <4>1. CASE x = LF /\ st.afterCR
          <5>1. new.line = st.line
            BY <2>1, <2>2, <4>1, ScanLineIs
          <5>2. Last(s) = CR /\ CR \in Breaks
            BY <2>1, <4>1 DEF Breaks
          <5>. QED  BY <2>1, <5>1, <5>2
        <4>2. CASE ~(x = LF /\ st.afterCR)
          BY <2>1, <2>2, <2>5, <4>2, ScanLineIs
        <4>. QED  BY <4>1, <4>2
      <3>2. new.lines \in Seq(Unbroken)
        <4>1. CASE x = LF /\ st.afterCR
          BY <2>1, <2>2, <4>1, ScanLineIs
        <4>2. CASE ~(x = LF /\ st.afterCR)
          <5>1. new.lines = Append(st.lines, st.line)
            BY <2>1, <2>2, <2>5, <4>2, ScanLineIs
          <5>. QED  BY <2>1, <5>1
        <4>. QED  BY <4>1, <4>2
      <3>3. new.afterCR <=> x = CR
        <4>1. CASE x = LF /\ st.afterCR
          <5>1. new.afterCR = FALSE
            BY <2>1, <2>2, <4>1, ScanLineIs
          <5>. QED  BY <1>0, <4>1, <5>1
        <4>2. CASE ~(x = LF /\ st.afterCR)
          <5>1. new = [lines |-> Append(st.lines, st.line), line |-> <<>>, afterCR |-> x = CR]
            BY <2>1, <2>2, <2>5, <4>2, ScanLineIs
          <5>. QED  BY <5>1
        <4>. QED  BY <4>1, <4>2
      <3>4. <<>> \in Unbroken
        BY DEF Unbroken
      <3>5. OpenLineIs(Append(s, x))
        BY <1>1, <2>3, <2>4, <2>5, <3>1, <3>2, <3>3, <3>4 DEF OpenLineIs, new
      <3>. QED  BY <2>0, <3>5
    <2>6. CASE x \notin Breaks
      <3>0. ~(x = LF /\ st.afterCR) /\ x # CR
        BY <2>6 DEF Breaks
      <3>1. new = [lines |-> st.lines, line |-> Append(st.line, x), afterCR |-> FALSE]
        BY <2>1, <2>2, <2>6, <3>0, ScanLineIs
      <3>2. Append(st.line, x) \in Unbroken /\ Append(st.line, x) # <<>>
        <4>1. x \in Letters \ Breaks
          BY <2>6
        <4>. QED  BY <2>1, <4>1, AppendLaws DEF Unbroken
      <3>3. Last(Append(st.line, x)) = x
        <4>1. st.line \in Seq(Letters)
          BY <2>1 DEF LineStates, Lines
        <4>. QED  BY <4>1 DEF Last
      <3>4. LineScan(Append(st.line, x)) = Midway(Append(st.line, x), FALSE)
        <4>1. st.line \in Lines /\ Append(st.line, x) \in Lines
          BY <2>1 DEF LineStates, Lines
        <4>2. Midway(<<>>, FALSE) \in LineStates
          BY <1>1, MidwayState
        <4>3. LineScan(Append(st.line, x)) = ScanLine(Midway(st.line, FALSE), x)
          <5>1. LineFrom(Midway(<<>>, FALSE), Append(st.line, x))
                    = ScanLine(LineFrom(Midway(<<>>, FALSE), st.line), x)
            BY <4>1, <4>2, LineNext
          <5>. QED  BY <2>1, <4>1, <5>1, LineFold
        <4>4. /\ Midway(st.line, FALSE) \in LineStates
              /\ Midway(st.line, FALSE).lines = <<>> /\ Midway(st.line, FALSE).line = st.line
              /\ Midway(st.line, FALSE).afterCR = FALSE
          BY <4>1, MidwayState
        <4>5. ScanLine(Midway(st.line, FALSE), x)
                  = [lines |-> <<>>, line |-> Append(st.line, x), afterCR |-> FALSE]
          BY <2>6, <4>4, ScanLineIs
        <4>. QED  BY <4>3, <4>5 DEF Midway
      <3>5. OpenLineIs(Append(s, x))
        <4>1. /\ new.lines = st.lines /\ new.line = Append(st.line, x) /\ new.afterCR = FALSE
          BY <3>1
        <4>2. new.afterCR <=> Append(s, x) # <<>> /\ Last(Append(s, x)) = CR
          BY <2>3, <3>0, <4>1
        <4>3. LineScan(new.line) = Midway(new.line, FALSE)
          BY <3>4, <4>1
        <4>. QED  BY <2>1, <2>3, <2>4, <2>6, <3>2, <3>3, <4>1, <4>2, <4>3 DEF OpenLineIs, new
      <3>. QED  BY <2>0, <3>5
    <2>. QED  BY <2>5, <2>6
  <1>. HIDE DEF T
  <1>4. text \in T
    BY <1>2, <1>3, SequenceInduction DEF Lines
  <1>. QED  BY <1>4 DEF T

\* Is a boundary between CR and LF?
BetweenCRLF(text, more) == text # <<>> /\ Last(text) = CR /\ Head(more) = LF

\* A chunk that begins with the open line is scanned as in the whole text, but
\* for a line too many when the boundary is between CR and LF.
LEMMA OpenLineThen ==
  ASSUME NEW text \in Lines, NEW more \in Fragments
  PROVE  \E rest \in LineStates :
             /\ LineScan(text \o more).lines = LineScan(text).lines \o rest.lines
             /\ LineScan(text \o more).line = rest.line
             /\ LineScan(LineScan(text).line \o more).line = rest.line
             /\ LineScan(LineScan(text).line \o more).lines
                    = IF BetweenCRLF(text, more) THEN <<<<>>>> \o rest.lines ELSE rest.lines
  <1> DEFINE st    == LineScan(text)
             start == Midway(<<>>, FALSE)
             whole == Midway(st.line, st.afterCR)
             again == Midway(st.line, FALSE)
             rest  == LineFrom(whole, more)
             h     == Head(more)
             t     == Tail(more)
  <1>1. /\ st \in LineStates /\ st.line \in Lines /\ st.afterCR \in BOOLEAN
        /\ st.afterCR <=> text # <<>> /\ Last(text) = CR
        /\ st.line # <<>> => Last(text) \notin Breaks
        /\ LineScan(st.line) = again
    <2>1. OpenLineIs(text)
      BY OpenLine
    <2>. QED  BY <2>1 DEF OpenLineIs, LineStates
  <1>2. /\ more \in Lines /\ h \in Letters /\ t \in Lines /\ more = <<h>> \o t
        /\ <<h>> \in Lines /\ <<h>> = Append(<<>>, h) /\ <<>> \in Lines
    BY DEF Fragments, Lines
  <1>3. /\ start \in LineStates
        /\ whole \in LineStates /\ whole.lines = <<>> /\ whole.line = st.line
        /\ whole.afterCR = st.afterCR
        /\ again \in LineStates /\ again.lines = <<>> /\ again.line = st.line
        /\ again.afterCR = FALSE
    BY <1>1, <1>2, MidwayState
  <1>. HIDE DEF h, t, start, whole, again
  <1>4. text \o more \in Lines /\ st.line \o more \in Lines
    <2>. HIDE DEF st
    <2>. QED  BY <1>1, <1>2 DEF Lines
  <1>5. /\ LineScan(text \o more).lines = st.lines \o rest.lines
        /\ LineScan(text \o more).line = rest.line
    <2>1. LineScan(text \o more) = LineFrom(st, more)
      <3>1. LineScan(text \o more) = LineFrom(start, text \o more) /\ st = LineFrom(start, text)
        BY <1>4, LineFold DEF start
      <3>2. LineFrom(start, text \o more) = LineFrom(LineFrom(start, text), more)
        BY <1>2, <1>3, LineThen
      <3>. QED  BY <3>1, <3>2
    <2>. QED  BY <1>1, <1>2, <2>1, LineShift DEF whole
  <1>6. LineScan(st.line \o more) = LineFrom(again, more)
    <2> DEFINE line == st.line
    <2>1. line \in Lines /\ line \o more \in Lines /\ LineScan(line) = again
      BY <1>1, <1>4
    <2>. HIDE DEF line
    <2>2. /\ LineScan(line \o more) = LineFrom(start, line \o more)
          /\ LineScan(line) = LineFrom(start, line)
      BY <2>1, LineFold DEF start
    <2>3. LineFrom(start, line \o more) = LineFrom(LineFrom(start, line), more)
      BY <1>2, <1>3, <2>1, LineThen
    <2>. QED  BY <2>1, <2>2, <2>3 DEF line
  <1>7. rest \in LineStates
    BY <1>2, <1>3, LineLaws DEF LineFrom, FoldLaws, Lines
  <1>. HIDE DEF st
  <1>8. /\ rest = LineFrom(ScanLine(whole, h), t)
        /\ LineFrom(again, more) = LineFrom(ScanLine(again, h), t)
    <2>1. \A s \in LineStates : LineFrom(s, <<h>>) = ScanLine(s, h)
      <3>. SUFFICES ASSUME NEW s \in LineStates PROVE LineFrom(s, <<h>>) = ScanLine(s, h)
        OBVIOUS
      <3>1. LineFrom(s, <<>>) = s /\ LineFrom(s, Append(<<>>, h)) = ScanLine(LineFrom(s, <<>>), h)
        BY <1>2, LineNext
      <3>. QED  BY <1>2, <3>1
    <2>2. \A s \in LineStates : LineFrom(s, <<h>> \o t) = LineFrom(LineFrom(s, <<h>>), t)
      BY <1>2, LineThen
    <2>. QED  BY <1>2, <1>3, <2>1, <2>2
  <1>. HIDE DEF rest
  <1>9. CASE BetweenCRLF(text, more)
    <2>1. st.afterCR /\ h = LF /\ st.line = <<>> /\ h # CR /\ h \in Breaks
      BY <1>1, <1>9, LinesAssumption DEF BetweenCRLF, Breaks, h
    <2>2. ScanLine(whole, h) = [lines |-> <<>>, line |-> <<>>, afterCR |-> FALSE]
      BY <1>2, <1>3, <2>1, ScanLineIs
    <2>3. ScanLine(again, h) = [lines |-> Append(<<>>, <<>>), line |-> <<>>, afterCR |-> FALSE]
      BY <1>2, <1>3, <2>1, ScanLineIs
    <2>4. /\ ScanLine(again, h) \in LineStates /\ ScanLine(again, h).line = <<>>
          /\ ScanLine(again, h).afterCR = FALSE /\ ScanLine(again, h).lines = Append(<<>>, <<>>)
      <3>1. ScanLine(again, h) \in LineStates
        BY <1>2, <1>3, LineStep
      <3>. QED  BY <2>3, <3>1
    <2>5. rest = LineFrom(start, t)
      BY <1>8, <2>2 DEF start, Midway
    <2>6. /\ LineFrom(ScanLine(again, h), t).lines = Append(<<>>, <<>>) \o rest.lines
          /\ LineFrom(ScanLine(again, h), t).line = rest.line
      BY <1>2, <2>4, <2>5, LineShift DEF start
    <2>7. Append(<<>>, <<>>) = <<<<>>>>
      OBVIOUS
    <2>. QED  BY <1>5, <1>6, <1>7, <1>8, <1>9, <2>6, <2>7 DEF st
  <1>10. CASE ~BetweenCRLF(text, more)
    <2>1. ~(h = LF /\ st.afterCR)
      BY <1>1, <1>10 DEF BetweenCRLF, h
    <2>2. ScanLine(whole, h) = ScanLine(again, h)
      BY <1>2, <1>3, <2>1, ScanLineIs, ZenonT(60)
    <2>. QED  BY <1>5, <1>6, <1>7, <1>8, <1>10, <2>2 DEF st
  <1>. QED  BY <1>9, <1>10

-----------------------------------------------------------------------------
(* Feeding the chunks.                                                     *)

FeedStates == [out : Seq(Lines), pending : Lines]
FeedF(d) == [p \in FeedStates \X Lines |-> FeedLines(p[1], p[2], d)]
NoneFed == [out |-> <<>>, pending |-> <<>>]

LEMMA FrontLast ==
  ASSUME NEW L, NEW s \in Seq(L), NEW e \in L
  PROVE  /\ Front(Append(s, e)) = s /\ Last(Append(s, e)) = e
         /\ Append(s, e) # <<>> /\ Append(s, e) \in Seq(L)
  <1>1. /\ Len(Append(s, e)) = Len(s) + 1 /\ Len(s) \in Nat
        /\ (Len(s) + 1) - 1 = Len(s) /\ Append(s, e)[Len(s) + 1] = e
    OBVIOUS
  <1>2. SubSeq(Append(s, e), 1, Len(s)) = s
    OBVIOUS
  <1>3. Append(s, e) # <<>> /\ Append(s, e) \in Seq(L)
    BY AppendLaws
  <1>. QED  BY <1>1, <1>2, <1>3 DEF Front, Last

LEMMA FrontLastType ==
  ASSUME NEW L, NEW s \in Seq(L), s # <<>>
  PROVE  Front(s) \in Seq(L) /\ Last(s) \in L
  <1>1. Len(s) \in Nat /\ Len(s) # 0
    OBVIOUS
  <1>2. Len(s) \in 1..Len(s) /\ Len(s) - 1 \in Nat /\ Len(s) - 1 <= Len(s)
    BY <1>1
  <1>3. \A i \in Nat : i <= Len(s) => SubSeq(s, 1, i) \in Seq(L)
    OBVIOUS
  <1>. QED  BY <1>2, <1>3 DEF Front, Last

LEMMA SplitLinesIs ==
  ASSUME NEW text \in Lines
  PROVE  /\ SplitLines(text) \in Seq(Lines)
         /\ LineScan(text).line # <<>> =>
               SplitLines(text) = Append(LineScan(text).lines, LineScan(text).line)
         /\ LineScan(text).line = <<>> => SplitLines(text) = LineScan(text).lines
         /\ text # <<>> => (Unfinished(SplitLines(text), text) <=> LineScan(text).line # <<>>)
  <1> DEFINE st == LineScan(text)
  <1>1. OpenLineIs(text)
    BY OpenLine
  <1>2. /\ st \in LineStates /\ st.lines \in Seq(Lines) /\ st.line \in Lines
        /\ st.lines \in Seq(Unbroken)
        /\ st.line # <<>> => text # <<>> /\ Last(st.line) = Last(text)
        /\ text # <<>> /\ st.line = <<>> => Last(text) \in Breaks
    BY <1>1 DEF OpenLineIs, LineStates
  <1>3. SplitLines(text) = IF st.line = <<>> THEN st.lines ELSE Append(st.lines, st.line)
    BY DEF SplitLines
  <1>. HIDE DEF st
  <1>4. CASE st.line # <<>>
    <2>1. /\ Append(st.lines, st.line) \in Seq(Lines) /\ Append(st.lines, st.line) # <<>>
          /\ Last(Append(st.lines, st.line)) = st.line
      BY <1>2, FrontLast
    <2>. QED  BY <1>2, <1>3, <1>4, <2>1 DEF Unfinished, st
  <1>5. CASE st.line = <<>>
    <2>1. SplitLines(text) = st.lines
      BY <1>3, <1>5
    <2>2. ASSUME st.lines # <<>>, Last(st.lines) # <<>>, text # <<>>
          PROVE  Last(Last(st.lines)) # Last(text)
      <3>1. Last(st.lines) \in Unbroken
        BY <1>2, <2>2, FrontLastType
      <3>2. Last(Last(st.lines)) \in Letters \ Breaks
        BY <2>2, <3>1, FrontLastType DEF Unbroken
      <3>. QED  BY <1>2, <1>5, <2>2, <3>2
    <2>3. ~Unfinished(st.lines, text)
      BY <2>2 DEF Unfinished
    <2>. QED  BY <1>2, <1>5, <2>1, <2>3 DEF st
  <1>. QED  BY <1>4, <1>5

LEMMA SplitIs ==
  ASSUME NEW d \in Lines, NEW text \in Lines
  PROVE  /\ Split(text, d) \in Seq(Lines)
         /\ Split(text, d) = Append(PartScan(text, d).parts, PartScan(text, d).part)
         /\ text # <<>> => (Unfinished(Split(text, d), text) <=> PartScan(text, d).part # <<>>)
  <1> DEFINE st == PartScan(text, d)
  <1>1. /\ st \in PartStates
        /\ st.part # <<>> => text # <<>> /\ Last(st.part) = Last(text)
    BY OpenPart DEF Lines
  <1>2. Split(text, d) = Append(st.parts, st.part)
    BY DEF Split
  <1>. HIDE DEF st
  <1>3. st.parts \in Seq(Lines) /\ st.part \in Lines
    BY <1>1 DEF PartStates
  <1>4. /\ Append(st.parts, st.part) \in Seq(Lines) /\ Append(st.parts, st.part) # <<>>
        /\ Last(Append(st.parts, st.part)) = st.part
    BY <1>3, FrontLast
  <1>5. text # <<>> => (Unfinished(Append(st.parts, st.part), text) <=> st.part # <<>>)
    BY <1>1, <1>4 DEF Unfinished
  <1>. QED  BY <1>2, <1>4, <1>5 DEF st

LEMMA FeedType ==
  ASSUME NEW d \in Lines, NEW st \in FeedStates, NEW more \in Lines
  PROVE  FeedLines(st, more, d) \in FeedStates
  <1> DEFINE chunk == st.pending \o more
             lines == LinesOf(chunk, d)
  <1>1. st.out \in Seq(Lines) /\ st.pending \in Lines
    BY DEF FeedStates
  <1>2. chunk \in Lines
    BY <1>1 DEF Lines
  <1>3. FeedLines(st, more, d)
            = IF Unfinished(lines, chunk)
              THEN [out |-> st.out \o Front(lines), pending |-> Last(lines)]
              ELSE [out |-> st.out \o lines, pending |-> <<>>]
    BY DEF FeedLines
  <1>. HIDE DEF chunk
  <1>4. lines \in Seq(Lines)
    BY <1>2, SplitLinesIs, SplitIs DEF LinesOf
  <1>. HIDE DEF lines
  <1>5. CASE Unfinished(lines, chunk)
    <2>1. Front(lines) \in Seq(Lines) /\ Last(lines) \in Lines
      BY <1>4, <1>5, FrontLastType DEF Unfinished
    <2>2. st.out \o Front(lines) \in Seq(Lines)
      BY <1>1, <2>1
    <2>. QED  BY <1>3, <1>5, <2>1, <2>2 DEF FeedStates
  <1>6. CASE ~Unfinished(lines, chunk)
    <2>1. st.out \o lines \in Seq(Lines) /\ <<>> \in Lines
      BY <1>1, <1>4 DEF Lines
    <2>. QED  BY <1>3, <1>6, <2>1 DEF FeedStates
  <1>. QED  BY <1>5, <1>6

LEMMA FeedLaws ==
  ASSUME NEW d \in Lines
  PROVE  FoldLaws(FeedStates, Lines, FeedF(d)) /\ NoneFed \in FeedStates
  <1>1. FeedF(d) \in [FeedStates \X Lines -> FeedStates]
    BY FeedType DEF FeedF
  <1>2. <<>> \in Seq(Lines) /\ <<>> \in Lines
    BY DEF Lines
  <1>. QED  BY <1>1, <1>2, FoldedLaws DEF NoneFed, FeedStates

LEMMA FedFold ==
  ASSUME NEW d \in Lines, NEW cs \in Seq(Lines)
  PROVE  Fed(cs, d) = Folded(FeedStates, FeedF(d), NoneFed, cs)
  <1> DEFINE Eq(f) == f = [s \in SUBSET DOMAIN cs |->
                              IF s = {} THEN NoneFed
                              ELSE FeedLines(f[s \ {Max(s)}], cs[Max(s)], d)]
             it == CHOOSE f : Eq(f)
  <1>1. FeedF(d) \in [FeedStates \X Lines -> FeedStates]
    BY FeedType DEF FeedF
  <1>2. NoneFed \in FeedStates
    BY FeedLaws
  <1>3. \A st \in FeedStates, c \in Lines : FeedF(d)[<<st, c>>] = FeedLines(st, c, d)
    BY DEF FeedF
  <1>4. PICK g : Solves(g, FeedStates, Lines, FeedF(d), NoneFed, cs)
    BY <1>1, <1>2, SolutionExists
  <1>5. Eq(g)
    BY <1>3, <1>4 DEF Solves
  <1>6. Eq(it)
    <2>. HIDE DEF Eq
    <2>. QED  BY <1>5
  <1>7. Fed(cs, d) = it[DOMAIN cs]
    BY DEF Fed, FoldLeft, MapThenFoldSet, NoneFed
  <1>. HIDE DEF it
  <1>8. Unrolls(it, FeedStates, Lines, FeedF(d), NoneFed, cs)
    BY <1>3, <1>6 DEF Unrolls
  <1>9. ComesTo(it, FeedStates, Lines, FeedF(d), NoneFed, cs)
    BY <1>1, <1>2, <1>8, UnrollsTo
  <1>. QED  BY <1>7, <1>9 DEF ComesTo

LEMMA FedNext ==
  ASSUME NEW d \in Lines, NEW cs \in Seq(Lines), NEW more \in Lines
  PROVE  /\ Fed(cs, d) \in FeedStates
         /\ Fed(<<>>, d) = NoneFed
         /\ Fed(Append(cs, more), d) = FeedLines(Fed(cs, d), more, d)
  <1>1. <<>> \in Seq(Lines) /\ Append(cs, more) \in Seq(Lines)
    OBVIOUS
  <1>2. Fed(cs, d) \in FeedStates /\ Fed(<<>>, d) = NoneFed
    BY <1>1, FedFold, FeedLaws, ZenonT(60) DEF FoldLaws
  <1>3. Folded(FeedStates, FeedF(d), NoneFed, Append(cs, more))
            = FeedF(d)[<<Folded(FeedStates, FeedF(d), NoneFed, cs), more>>]
    BY FeedLaws DEF FoldLaws, Appends
  <1>4. Fed(Append(cs, more), d) = FeedF(d)[<<Fed(cs, d), more>>]
    BY <1>1, <1>3, FedFold
  <1>. QED  BY <1>2, <1>4 DEF FeedF

\* What one more chunk does: without a delimiter ...
LEMMA FeedBreaks ==
  ASSUME NEW st \in FeedStates, NEW more \in Fragments
  PROVE  LET end == LineScan(st.pending \o more)
         IN  /\ end \in LineStates
             /\ FeedLines(st, more, <<>>)
                    = [out |-> st.out \o end.lines, pending |-> end.line]
  <1> DEFINE chunk == st.pending \o more
             end   == LineScan(chunk)
  <1>1. /\ st.out \in Seq(Lines) /\ st.pending \in Lines
        /\ more \in Seq(Letters) /\ more # <<>>
    BY DEF FeedStates, Fragments
  <1>2. chunk \in Lines /\ chunk # <<>>
    <2>1. Len(chunk) = Len(st.pending) + Len(more) /\ Len(more) > 0 /\ Len(st.pending) \in Nat
      BY <1>1 DEF Lines
    <2>2. chunk \in Seq(Letters) /\ Len(<<>>) = 0
      BY <1>1 DEF Lines
    <2>. QED  BY <2>1, <2>2 DEF Lines
  <1>3. FeedLines(st, more, <<>>)
            = IF Unfinished(SplitLines(chunk), chunk)
              THEN [out |-> st.out \o Front(SplitLines(chunk)),
                    pending |-> Last(SplitLines(chunk))]
              ELSE [out |-> st.out \o SplitLines(chunk), pending |-> <<>>]
    BY DEF FeedLines, LinesOf
  <1>4. OpenLineIs(chunk)
    BY <1>2, OpenLine
  <1>5. end \in LineStates /\ end.lines \in Seq(Lines) /\ end.line \in Lines
    BY <1>4 DEF OpenLineIs, LineStates
  <1>6. /\ end.line # <<>> => SplitLines(chunk) = Append(end.lines, end.line)
        /\ end.line = <<>> => SplitLines(chunk) = end.lines
        /\ Unfinished(SplitLines(chunk), chunk) <=> end.line # <<>>
    BY <1>2, SplitLinesIs
  <1>. HIDE DEF end, chunk
  <1>7. CASE end.line # <<>>
    <2>1. /\ Front(Append(end.lines, end.line)) = end.lines
          /\ Last(Append(end.lines, end.line)) = end.line
      BY <1>5, FrontLast
    <2>. QED  BY <1>3, <1>5, <1>6, <1>7, <2>1 DEF end, chunk
  <1>8. CASE end.line = <<>>
    BY <1>3, <1>5, <1>6, <1>8 DEF end, chunk
  <1>. QED  BY <1>7, <1>8

\* ... and with one.
LEMMA FeedParts ==
  ASSUME NEW d \in Lines, d # <<>>, NEW st \in FeedStates, NEW more \in Fragments
  PROVE  LET end == PartScan(st.pending \o more, d)
         IN  /\ end \in PartStates
             /\ FeedLines(st, more, d)
                    = [out |-> st.out \o (IF end.part = <<>> THEN Append(end.parts, <<>>)
                                                             ELSE end.parts),
                       pending |-> end.part]
  <1> DEFINE chunk == st.pending \o more
             end   == PartScan(chunk, d)
  <1>1. /\ st.out \in Seq(Lines) /\ st.pending \in Lines
        /\ more \in Seq(Letters) /\ more # <<>>
    BY DEF FeedStates, Fragments
  <1>2. chunk \in Lines /\ chunk # <<>>
    <2>1. Len(chunk) = Len(st.pending) + Len(more) /\ Len(more) > 0 /\ Len(st.pending) \in Nat
      BY <1>1 DEF Lines
    <2>2. chunk \in Seq(Letters) /\ Len(<<>>) = 0
      BY <1>1 DEF Lines
    <2>. QED  BY <2>1, <2>2 DEF Lines
  <1>3. FeedLines(st, more, d)
            = IF Unfinished(Split(chunk, d), chunk)
              THEN [out |-> st.out \o Front(Split(chunk, d)), pending |-> Last(Split(chunk, d))]
              ELSE [out |-> st.out \o Split(chunk, d), pending |-> <<>>]
    BY DEF FeedLines, LinesOf
  <1>4. end \in PartStates
    BY <1>2, OpenPart DEF Lines
  <1>5. end.parts \in Seq(Lines) /\ end.part \in Lines
    BY <1>4 DEF PartStates
  <1>6. /\ Split(chunk, d) = Append(end.parts, end.part)
        /\ Unfinished(Split(chunk, d), chunk) <=> end.part # <<>>
    BY <1>2, SplitIs
  <1>. HIDE DEF end, chunk
  <1>7. CASE end.part # <<>>
    <2>1. /\ Front(Append(end.parts, end.part)) = end.parts
          /\ Last(Append(end.parts, end.part)) = end.part
      BY <1>5, FrontLast
    <2>. QED  BY <1>3, <1>4, <1>6, <1>7, <2>1 DEF end, chunk
  <1>8. CASE end.part = <<>>
    BY <1>3, <1>4, <1>6, <1>8 DEF end, chunk
  <1>. QED  BY <1>7, <1>8

LEMMA OpenPartThen ==
  ASSUME NEW d \in Lines, NEW text \in Lines, NEW more \in Lines
  PROVE  LET rest == PartScan(PartScan(text, d).part \o more, d)
         IN  /\ rest \in PartStates
             /\ PartScan(text \o more, d).parts = PartScan(text, d).parts \o rest.parts
             /\ PartScan(text \o more, d).part = rest.part
  <1> DEFINE st    == PartScan(text, d)
             start == Within(<<>>)
             part  == st.part
  <1>0. <<>> \in Lines /\ d \in Seq(Letters)
    BY DEF Lines
  <1>1. st \in PartStates /\ part \in Lines /\ PartFrom(start, part, d) = Within(part)
    <2>1. st \in PartStates /\ PartFrom(start, part, d) = Within(part)
      BY <1>0, OpenPart
    <2>. QED  BY <2>1 DEF PartStates
  <1>2. start \in PartStates
    BY <1>0, WithinState
  <1>3. text \o more \in Lines /\ part \o more \in Lines
    <2>. HIDE DEF part
    <2>. QED  BY <1>1 DEF Lines
  <1>. HIDE DEF start
  <1>4. PartScan(text \o more, d) = PartFrom(st, more, d)
    <2>1. /\ PartScan(text \o more, d) = PartFrom(start, text \o more, d)
          /\ st = PartFrom(start, text, d)
      BY <1>0, <1>3, PartFold DEF start
    <2>2. PartFrom(start, text \o more, d) = PartFrom(PartFrom(start, text, d), more, d)
      BY <1>0, <1>2, PartThen
    <2>. QED  BY <2>1, <2>2
  <1>5. /\ PartFrom(st, more, d).parts = st.parts \o PartFrom(Within(part), more, d).parts
        /\ PartFrom(st, more, d).part = PartFrom(Within(part), more, d).part
    BY <1>0, <1>1, PartShift
  <1>. HIDE DEF st, part
  <1>6. PartScan(part \o more, d) = PartFrom(Within(part), more, d)
    <2>1. PartScan(part \o more, d) = PartFrom(start, part \o more, d)
      BY <1>0, <1>3, PartFold DEF start
    <2>2. PartFrom(start, part \o more, d) = PartFrom(PartFrom(start, part, d), more, d)
      BY <1>0, <1>1, <1>2, PartThen
    <2>. QED  BY <1>1, <2>1, <2>2
  <1>7. PartScan(part \o more, d) \in PartStates
    BY <1>0, <1>3, OpenPart
  <1>. QED  BY <1>4, <1>5, <1>6, <1>7 DEF st, part

\* The text of chunks ends as the last of them.
LEMMA TextEnds ==
  ASSUME NEW cs \in Seq(Fragments)
  PROVE  /\ FlattenSeq(cs) \in Lines
         /\ cs = <<>> => FlattenSeq(cs) = <<>>
         /\ cs # <<>> => FlattenSeq(cs) # <<>> /\ Last(FlattenSeq(cs)) = Last(cs[Len(cs)])
  <1> DEFINE Good(s) == s # <<>> =>
                  FlattenSeq(s) # <<>> /\ Last(FlattenSeq(s)) = Last(s[Len(s)])
             T == {s \in Seq(Fragments) : Good(s)}
  <1>0. \A s \in Seq(Fragments) : s \in Seq(Seq(Letters))
    BY DEF Fragments
  <1>1. <<>> \in T
    OBVIOUS
  <1>2. ASSUME NEW s \in Seq(Fragments), NEW c \in Fragments
        PROVE  Append(s, c) \in T
    <2>1. Append(s, c) \in Seq(Fragments)
      OBVIOUS
    <2>2. c \in Seq(Letters) /\ c # <<>>
      BY DEF Fragments
    <2>3. /\ FlattenSeq(s) \in Seq(Letters)
          /\ FlattenSeq(Append(s, c)) = FlattenSeq(s) \o c
      BY <1>0, <2>2, FlattenAppend
    <2>4. Append(s, c)[Len(Append(s, c))] = c
      OBVIOUS
    <2> DEFINE flat == FlattenSeq(s)
    <2>. HIDE DEF flat
    <2>5. flat \in Seq(Letters)
      BY <2>3 DEF flat
    <2>6. /\ Len(flat \o c) = Len(flat) + Len(c) /\ Len(c) \in Nat /\ Len(c) # 0
          /\ Len(flat) \in Nat /\ Len(<<>>) = 0
      BY <2>2, <2>5
    <2>7. (flat \o c)[Len(flat) + Len(c)] = c[Len(c)]
      BY <2>2, <2>5, <2>6
    <2>8. flat \o c # <<>> /\ Last(flat \o c) = Last(c)
      <3>1. flat \o c # <<>>
        BY <2>6
      <3>. QED  BY <2>6, <2>7, <3>1 DEF Last
    <2>9. Good(Append(s, c))
      BY <2>3, <2>4, <2>8 DEF flat
    <2>. HIDE DEF Good
    <2>. QED  BY <2>1, <2>9
  <1>. HIDE DEF T
  <1>3. cs \in T
    BY <1>1, <1>2, SequenceInduction
  <1>4. FlattenSeq(cs) \in Lines /\ FlattenSeq(<<>>) = <<>>
    BY <1>0, FlattenAppend DEF Lines
  <1>. QED  BY <1>3, <1>4 DEF T

-----------------------------------------------------------------------------
(* The lines of the chunks and those of the text.                          *)

LEMMA SplitsNext ==
  ASSUME NEW cs \in Seq(Fragments), NEW c \in Fragments
  PROVE  /\ Cardinality(Splits(cs, <<>>)) \in Nat
         /\ Cardinality(Splits(<<>>, <<>>)) = 0
         /\ Cardinality(Splits(Append(cs, c), <<>>))
                = IF BetweenCRLF(FlattenSeq(cs), c) THEN Cardinality(Splits(cs, <<>>)) + 1
                                                    ELSE Cardinality(Splits(cs, <<>>))
  <1> DEFINE n    == Len(cs)
             new  == Append(cs, c)
             Cut(s, i) == Last(s[i]) = CR /\ Head(s[i + 1]) = LF
             old  == {i \in 1..(n - 1) : Cut(cs, i)}
             then == {i \in 1..n : Cut(new, i)}
  <1>1. /\ n \in Nat /\ Len(new) = n + 1 /\ Len(new) - 1 = n
        /\ \A i \in 1..n : new[i] = cs[i]
        /\ new[n + 1] = c
    OBVIOUS
  <1>2. Splits(cs, <<>>) = old /\ Splits(new, <<>>) = then
    BY <1>1 DEF Splits
  <1>3. IsFiniteSet(old) /\ n \notin old
    <2>1. old \in SUBSET (1..(n - 1)) /\ n \notin 1..(n - 1)
      BY <1>1
    <2>2. IsFiniteSet(1..(n - 1))
      BY <1>1, FS_Interval
    <2>. QED  BY <2>1, <2>2, FS_Subset
  <1>4. Cardinality(old) \in Nat
    BY <1>3, FS_CardinalityType
  <1>5. ASSUME NEW i \in 1..(n - 1)
        PROVE  Cut(new, i) <=> Cut(cs, i)
    <2>1. i \in 1..n /\ i + 1 \in 1..n
      BY <1>1
    <2>. QED  BY <1>1, <2>1
  <1>6. n \in then <=> BetweenCRLF(FlattenSeq(cs), c)
    <2>1. CASE cs = <<>>
      <3>1. n = 0 /\ FlattenSeq(cs) = <<>>
        BY <2>1, TextEnds
      <3>. QED  BY <3>1 DEF BetweenCRLF
    <2>2. CASE cs # <<>>
      <3>1. n \in 1..n
        BY <1>1, <2>2
      <3>2. new[n] = cs[n] /\ new[n + 1] = c
        BY <1>1, <3>1
      <3>3. FlattenSeq(cs) # <<>> /\ Last(FlattenSeq(cs)) = Last(cs[n])
        BY <2>2, TextEnds
      <3>. QED  BY <3>1, <3>2, <3>3 DEF BetweenCRLF
    <2>. QED  BY <2>1, <2>2
  <1>7. \A i \in 1..n : i \in 1..(n - 1) \/ i = n
    <2>1. \A k \in Nat : \A i \in 1..k : i \in 1..(k - 1) \/ i = k
      OBVIOUS
    <2>. HIDE DEF n
    <2>. QED  BY <1>1, <2>1
  <1>8. \A i \in 1..(n - 1) : i \in 1..n
    BY <1>1
  <1>. HIDE DEF Cut, n, new
  <1>9. then = IF BetweenCRLF(FlattenSeq(cs), c) THEN old \cup {n} ELSE old
    BY <1>5, <1>6, <1>7, <1>8
  <1>10. Cardinality(Splits(<<>>, <<>>)) = 0
    <2>1. 1..(Len(<<>>) - 1) = {}
      OBVIOUS
    <2>2. Splits(<<>>, <<>>) = {}
      BY <2>1 DEF Splits
    <2>. QED  BY <2>2, FS_EmptySet
  <1>. HIDE DEF old, then
  <1>11. Cardinality(old \cup {n}) = Cardinality(old) + 1
    BY <1>3, FS_AddElement
  <1>. QED  BY <1>2, <1>4, <1>9, <1>10, <1>11 DEF new

LEMMA FedAtBreaks ==
  ASSUME NEW cs \in Seq(Fragments)
  PROVE  LET fed   == Fed(cs, <<>>)
             whole == LineScan(FlattenSeq(cs))
         IN  /\ fed \in FeedStates
             /\ fed.pending = whole.line
             /\ WrittenLines(fed.out) = WrittenLines(whole.lines)
             /\ Len(fed.out) = Len(whole.lines) + Cardinality(Splits(cs, <<>>))
  <1> DEFINE Good(s) == /\ Fed(s, <<>>) \in FeedStates
                        /\ Fed(s, <<>>).pending = LineScan(FlattenSeq(s)).line
                        /\ WrittenLines(Fed(s, <<>>).out) = WrittenLines(LineScan(FlattenSeq(s)).lines)
                        /\ Len(Fed(s, <<>>).out) = Len(LineScan(FlattenSeq(s)).lines)
                                                  + Cardinality(Splits(s, <<>>))
             T == {s \in Seq(Fragments) : Good(s)}
  <1>0. /\ <<>> \in Lines /\ <<>> \in Seq(Lines)
        /\ \A s \in Seq(Fragments) : s \in Seq(Lines)
        /\ \A s \in Seq(Fragments) : s \in Seq(Seq(Letters))
        /\ \A c \in Fragments : c \in Lines /\ c \in Seq(Letters)
    BY DEF Fragments, Lines
  <1>1. <<>> \in T
    <2>1. Fed(<<>>, <<>>) = NoneFed /\ NoneFed \in FeedStates
      BY <1>0, FedNext, FeedLaws
    <2>2. FlattenSeq(<<>>) = <<>>
      BY FlattenAppend
    <2>3. LineScan(<<>>) = Midway(<<>>, FALSE)
      <3>1. Midway(<<>>, FALSE) \in LineStates
        BY <1>0, MidwayState
      <3>. QED  BY <1>0, <3>1, LineFold, LineLaws DEF LineFrom, FoldLaws
    <2>4. /\ NoneFed.out = <<>> /\ NoneFed.pending = <<>>
          /\ Midway(<<>>, FALSE).lines = <<>> /\ Midway(<<>>, FALSE).line = <<>>
      BY DEF NoneFed, Midway
    <2>5. Cardinality(Splits(<<>>, <<>>)) = 0
      <3>1. 1..(Len(<<>>) - 1) = {}
        OBVIOUS
      <3>2. Splits(<<>>, <<>>) = {}
        BY <3>1 DEF Splits
      <3>. QED  BY <3>2, FS_EmptySet
    <2>6. Len(<<>>) = 0
      OBVIOUS
    <2>7. Good(<<>>)
      <3>1. Fed(<<>>, <<>>) \in FeedStates /\ Fed(<<>>, <<>>).out = <<>>
        BY <2>1, <2>4
      <3>2. Fed(<<>>, <<>>).pending = <<>>
        BY <2>1, <2>4
      <3>3. LineScan(FlattenSeq(<<>>)).lines = <<>> /\ LineScan(FlattenSeq(<<>>)).line = <<>>
        BY <2>2, <2>3, <2>4
      <3>4. Len(Fed(<<>>, <<>>).out) = 0 /\ Len(LineScan(FlattenSeq(<<>>)).lines) = 0
        BY <2>6, <3>1, <3>3
      <3>. QED  BY <2>5, <3>1, <3>2, <3>3, <3>4
    <2>. HIDE DEF Good
    <2>. QED  BY <2>7
  <1>2. ASSUME NEW s \in Seq(Fragments), NEW c \in Fragments, s \in T
        PROVE  Append(s, c) \in T
    <2> DEFINE fed   == Fed(s, <<>>)
               text  == FlattenSeq(s)
               whole == LineScan(text)
               end   == LineScan(whole.line \o c)
    <2>1. /\ fed \in FeedStates /\ fed.pending = whole.line
          /\ WrittenLines(fed.out) = WrittenLines(whole.lines)
          /\ Len(fed.out) = Len(whole.lines) + Cardinality(Splits(s, <<>>))
      BY <1>2
    <2>2. /\ Append(s, c) \in Seq(Fragments)
          /\ text \in Lines /\ FlattenSeq(Append(s, c)) = text \o c
      <3>1. Append(s, c) \in Seq(Fragments)
        OBVIOUS
      <3>. QED  BY <1>0, <3>1, FlattenAppend DEF Lines
    <2>3. Fed(Append(s, c), <<>>) = FeedLines(fed, c, <<>>)
      BY <1>0, FedNext
    <2>. HIDE DEF text, fed
    <2>4. /\ end \in LineStates
          /\ FeedLines(fed, c, <<>>) = [out |-> fed.out \o end.lines, pending |-> end.line]
      BY <2>1, FeedBreaks
    <2>5. PICK rest \in LineStates :
             /\ LineScan(text \o c).lines = whole.lines \o rest.lines
             /\ LineScan(text \o c).line = rest.line
             /\ end.line = rest.line
             /\ end.lines = IF BetweenCRLF(text, c) THEN <<<<>>>> \o rest.lines ELSE rest.lines
      BY <2>2, OpenLineThen
    <2>6. whole \in LineStates
      <3>1. OpenLineIs(text)
        BY <2>2, OpenLine
      <3>. QED  BY <3>1 DEF OpenLineIs
    <2>. HIDE DEF whole, end
    <2>7. /\ fed.out \in Seq(Lines) /\ whole.lines \in Seq(Lines) /\ rest.lines \in Seq(Lines)
          /\ end.lines \in Seq(Lines) /\ end.line \in Lines
      BY <2>1, <2>4, <2>5, <2>6 DEF FeedStates, LineStates
    <2>8. WrittenLines(end.lines) = WrittenLines(rest.lines)
      <3>1. <<<<>>>> \in Seq(Lines) /\ <<<<>>>> = Append(<<>>, <<>>)
        BY <1>0
      <3>2. WrittenLines(Append(<<>>, <<>>)) = WrittenLines(<<>>) /\ WrittenLines(<<>>) = <<>>
        BY <1>0, WrittenLaws
      <3>3. WrittenLines(<<<<>>>> \o rest.lines) = <<>> \o WrittenLines(rest.lines)
        BY <2>7, <3>1, <3>2, WrittenConcat, ZenonT(60)
      <3>4. WrittenLines(rest.lines) \in Seq(Lines)
        BY <2>7, WrittenLaws
      <3>5. <<>> \o WrittenLines(rest.lines) = WrittenLines(rest.lines)
        BY <3>4
      <3>. QED  BY <2>5, <3>3, <3>5
    <2>9. Len(end.lines) = Len(rest.lines) + (IF BetweenCRLF(text, c) THEN 1 ELSE 0)
      <3>1. <<<<>>>> \in Seq(Lines) /\ Len(<<<<>>>>) = 1
        BY <1>0
      <3>2. Len(<<<<>>>> \o rest.lines) = 1 + Len(rest.lines) /\ Len(rest.lines) \in Nat
        BY <2>7, <3>1
      <3>3. CASE BetweenCRLF(text, c)
        <4>1. end.lines = <<<<>>>> \o rest.lines
          BY <2>5, <3>3
        <4>. QED  BY <3>2, <3>3, <4>1
      <3>4. CASE ~BetweenCRLF(text, c)
        <4>1. end.lines = rest.lines
          BY <2>5, <3>4
        <4>. QED  BY <3>2, <3>4, <4>1
      <3>. QED  BY <3>3, <3>4
    <2>10. WrittenLines(fed.out \o end.lines) = WrittenLines(whole.lines \o rest.lines)
      <3>1. WrittenLines(fed.out \o end.lines) = WrittenLines(fed.out) \o WrittenLines(end.lines)
        BY <2>7, WrittenConcat
      <3>2. WrittenLines(whole.lines \o rest.lines) = WrittenLines(whole.lines) \o WrittenLines(rest.lines)
        BY <2>7, WrittenConcat
      <3>. QED  BY <2>1, <2>8, <3>1, <3>2
    <2>11. Len(fed.out \o end.lines)
              = Len(whole.lines \o rest.lines) + Cardinality(Splits(Append(s, c), <<>>))
      <3>1. /\ Len(fed.out \o end.lines) = Len(fed.out) + Len(end.lines)
            /\ Len(whole.lines \o rest.lines) = Len(whole.lines) + Len(rest.lines)
            /\ Len(fed.out) \in Nat /\ Len(whole.lines) \in Nat /\ Len(rest.lines) \in Nat
        BY <2>7
      <3>2. /\ Cardinality(Splits(s, <<>>)) \in Nat
            /\ Cardinality(Splits(Append(s, c), <<>>))
                = IF BetweenCRLF(text, c) THEN Cardinality(Splits(s, <<>>)) + 1
                                          ELSE Cardinality(Splits(s, <<>>))
        BY SplitsNext DEF text
      <3> DEFINE f == Len(fed.out)
                 w == Len(whole.lines)
                 e == Len(end.lines)
                 r == Len(rest.lines)
                 k == Cardinality(Splits(s, <<>>))
                 m == Cardinality(Splits(Append(s, c), <<>>))
      <3>3. /\ f = w + k /\ w \in Nat /\ r \in Nat /\ k \in Nat
            /\ BetweenCRLF(text, c) => e = r + 1 /\ m = k + 1
            /\ ~BetweenCRLF(text, c) => e = r + 0 /\ m = k
        BY <2>1, <2>9, <3>1, <3>2
      <3>. HIDE DEF f, w, e, r, k, m
      <3>4. f + e = (w + r) + m
        <4>1. CASE BetweenCRLF(text, c)
          BY <3>3, <4>1
        <4>2. CASE ~BetweenCRLF(text, c)
          BY <3>3, <4>2
        <4>. QED  BY <4>1, <4>2
      <3>. QED  BY <3>1, <3>4 DEF f, w, e, r, m
    <2>12. fed.out \o end.lines \in Seq(Lines)
      BY <2>7
    <2> DEFINE next == [out |-> fed.out \o end.lines, pending |-> end.line]
    <2>13. next \in FeedStates /\ next.out = fed.out \o end.lines /\ next.pending = end.line
      BY <2>7, <2>12 DEF FeedStates
    <2>14. Fed(Append(s, c), <<>>) = next
      BY <2>3, <2>4
    <2>. HIDE DEF next
    <2>15. Good(Append(s, c))
      BY <2>2, <2>5, <2>10, <2>11, <2>13, <2>14
    <2>. HIDE DEF Good
    <2>. QED  BY <2>2, <2>15
  <1>. HIDE DEF T
  <1>3. cs \in T
    BY <1>1, <1>2, SequenceInduction
  <1>. QED  BY <1>3 DEF T

LEMMA KeptAtBreaks ==
  ASSUME NEW cs \in Seq(Fragments)
  PROVE  LinesKept(cs, FlattenSeq(cs), <<>>)
  <1> DEFINE text  == FlattenSeq(cs)
             fed   == Fed(cs, <<>>)
             whole == LineScan(text)
             expected == IF cs = <<>> THEN <<>> ELSE SplitLines(text)
             lines == IterLines(cs, <<>>)
             cuts  == Cardinality(Splits(cs, <<>>))
  <1>1. /\ fed \in FeedStates /\ fed.pending = whole.line
        /\ WrittenLines(fed.out) = WrittenLines(whole.lines)
        /\ Len(fed.out) = Len(whole.lines) + cuts
    BY FedAtBreaks
  <1>2. cuts \in Nat
    <2>1. Splits(cs, <<>>) \in SUBSET (1..(Len(cs) - 1))
      BY DEF Splits
    <2>2. 1 \in Int /\ Len(cs) - 1 \in Int
      OBVIOUS
    <2>3. IsFiniteSet(1..(Len(cs) - 1))
      BY <2>2, FS_Interval
    <2>4. IsFiniteSet(Splits(cs, <<>>))
      BY <2>1, <2>3, FS_Subset
    <2>. QED  BY <2>4, FS_CardinalityType
  <1>3. text \in Lines /\ (cs = <<>> => text = <<>>)
    BY TextEnds
  <1>4. whole \in LineStates
    <2>1. OpenLineIs(text)
      BY <1>3, OpenLine
    <2>. QED  BY <2>1 DEF OpenLineIs
  <1>5. /\ SplitLines(text) = (IF whole.line = <<>> THEN whole.lines
                                                   ELSE Append(whole.lines, whole.line))
        /\ lines = (IF fed.pending = <<>> THEN fed.out ELSE Append(fed.out, fed.pending))
    BY DEF SplitLines, IterLines
  <1>6. expected = SplitLines(text)
    <2>1. CASE cs = <<>>
      <3>1. <<>> \in Lines /\ Midway(<<>>, FALSE) \in LineStates
        <4>1. <<>> \in Lines
          BY DEF Lines
        <4>. QED  BY <4>1, MidwayState
      <3>2. LineScan(<<>>) = Midway(<<>>, FALSE)
        BY <3>1, LineFold, LineLaws DEF LineFrom, FoldLaws
      <3>3. SplitLines(<<>>) = <<>>
        BY <3>2 DEF SplitLines, Midway
      <3>. QED  BY <1>3, <2>1, <3>3
    <2>2. CASE cs # <<>>
      BY <2>2
    <2>. QED  BY <2>1, <2>2
  <1>. HIDE DEF fed, whole, text, cuts
  <1>7. /\ fed.out \in Seq(Lines) /\ fed.pending \in Lines
        /\ whole.lines \in Seq(Lines) /\ whole.line \in Lines
    BY <1>1, <1>4 DEF FeedStates, LineStates
  <1>8. lines \in Seq(Lines) /\ expected \in Seq(Lines)
    BY <1>5, <1>6, <1>7, AppendLaws
  <1>9. WrittenLines(lines) = WrittenLines(expected) /\ Len(lines) = Len(expected) + cuts
    <2>. HIDE DEF lines, expected
    <2>1. CASE whole.line = <<>>
      BY <1>1, <1>5, <1>6, <2>1
    <2>2. CASE whole.line # <<>>
      <3>1. /\ lines = Append(fed.out, whole.line)
            /\ expected = Append(whole.lines, whole.line)
        BY <1>1, <1>5, <1>6, <2>2
      <3>2. WrittenLines(lines) = WrittenLines(expected)
        <4>1. WrittenLines(Append(fed.out, whole.line)) = Append(WrittenLines(fed.out), whole.line)
          BY <1>7, <2>2, WrittenLaws
        <4>2. WrittenLines(Append(whole.lines, whole.line)) = Append(WrittenLines(whole.lines), whole.line)
          BY <1>7, <2>2, WrittenLaws
        <4>. QED  BY <1>1, <3>1, <4>1, <4>2
      <3>3. /\ Len(Append(fed.out, whole.line)) = Len(fed.out) + 1
            /\ Len(Append(whole.lines, whole.line)) = Len(whole.lines) + 1
            /\ Len(whole.lines) \in Nat
        BY <1>7
      <3>. QED  BY <1>1, <1>2, <3>1, <3>2, <3>3
    <2>. QED  BY <2>1, <2>2
  <1>. HIDE DEF lines, expected
  <1>10. Written(lines) = Written(expected)
    BY <1>8, <1>9, WrittenIs
  <1>. QED  BY <1>9, <1>10 DEF LinesKept, LinesOf, lines, expected, text, cuts

\* The chunks after which no part is open.
PartEnds(cs, d) == {i \in 1..Len(cs) : PartScan(FlattenSeq(SubSeq(cs, 1, i)), d).part = <<>>}

LEMMA PartEndsNext ==
  ASSUME NEW d \in Lines, d # <<>>, NEW cs \in Seq(Fragments), NEW c \in Fragments
  PROVE  /\ Cardinality(PartEnds(cs, d)) \in Nat
         /\ Cardinality(PartEnds(<<>>, d)) = 0
         /\ Cardinality(PartEnds(Append(cs, c), d))
                = IF PartScan(FlattenSeq(Append(cs, c)), d).part = <<>>
                  THEN Cardinality(PartEnds(cs, d)) + 1 ELSE Cardinality(PartEnds(cs, d))
         /\ Cardinality(PartEnds(Append(cs, c), d))
                = IF PartScan(FlattenSeq(Append(cs, c)), d).part = <<>>
                  THEN Cardinality(Splits(Append(cs, c), d)) + 1
                  ELSE Cardinality(Splits(Append(cs, c), d))
  <1> DEFINE n    == Len(cs)
             new  == Append(cs, c)
             Ends(s, i) == PartScan(FlattenSeq(SubSeq(s, 1, i)), d).part = <<>>
             old  == {i \in 1..n : Ends(cs, i)}
             cuts == {i \in 1..n : Ends(new, i)}
             ends == {i \in 1..(n + 1) : Ends(new, i)}
  <1>1. n \in Nat /\ Len(new) = n + 1 /\ Len(new) - 1 = n
    OBVIOUS
  <1>2. PartEnds(cs, d) = old /\ PartEnds(new, d) = ends
    BY <1>1 DEF PartEnds
  <1>3. Splits(new, d) = cuts
    BY <1>1 DEF Splits
  <1>4. IsFiniteSet(old) /\ n + 1 \notin old
    <2>1. old \in SUBSET (1..n) /\ n + 1 \notin 1..n
      BY <1>1
    <2>2. IsFiniteSet(1..n)
      BY <1>1, FS_Interval
    <2>. QED  BY <2>1, <2>2, FS_Subset
  <1>5. Cardinality(old) \in Nat
    BY <1>4, FS_CardinalityType
  <1>6. ASSUME NEW i \in 1..n
        PROVE  Ends(new, i) <=> Ends(cs, i)
    <2>1. SubSeq(new, 1, i) = SubSeq(cs, 1, i)
      OBVIOUS
    <2>. QED  BY <2>1
  <1>7. SubSeq(new, 1, n + 1) = new
    <2>1. new \in Seq(Fragments)
      OBVIOUS
    <2>. HIDE DEF new
    <2>2. \A s \in Seq(Fragments) : SubSeq(s, 1, Len(s)) = s
      OBVIOUS
    <2>. QED  BY <1>1, <2>1, <2>2
  <1>8. Ends(new, n + 1) <=> PartScan(FlattenSeq(new), d).part = <<>>
    BY <1>7
  <1>9. \A i \in 1..(n + 1) : i \in 1..n \/ i = n + 1
    <2>. HIDE DEF n
    <2>. QED  BY <1>1
  <1>10. (\A i \in 1..n : i \in 1..(n + 1)) /\ n + 1 \in 1..(n + 1)
    <2>. HIDE DEF n
    <2>. QED  BY <1>1
  <1>. HIDE DEF Ends, n, new
  <1>11. ends = IF PartScan(FlattenSeq(new), d).part = <<>> THEN old \cup {n + 1} ELSE old
    BY <1>6, <1>8, <1>9, <1>10
  <1>12. cuts = old
    BY <1>6
  <1>13. Cardinality(PartEnds(<<>>, d)) = 0
    <2>1. 1..Len(<<>>) = {}
      OBVIOUS
    <2>2. PartEnds(<<>>, d) = {}
      BY <2>1 DEF PartEnds
    <2>. QED  BY <2>2, FS_EmptySet
  <1>. HIDE DEF old, cuts, ends
  <1>14. Cardinality(old \cup {n + 1}) = Cardinality(old) + 1
    BY <1>4, FS_AddElement
  <1>. QED  BY <1>2, <1>3, <1>5, <1>11, <1>12, <1>13, <1>14 DEF new

LEMMA FedAtDelimiter ==
  ASSUME NEW d \in Lines, d # <<>>, NEW cs \in Seq(Fragments)
  PROVE  LET fed   == Fed(cs, d)
             whole == PartScan(FlattenSeq(cs), d)
         IN  /\ fed \in FeedStates
             /\ fed.pending = whole.part
             /\ WrittenLines(fed.out) = WrittenLines(whole.parts)
             /\ Len(fed.out) = Len(whole.parts) + Cardinality(PartEnds(cs, d))
  <1> DEFINE Good(s) == /\ Fed(s, d) \in FeedStates
                        /\ Fed(s, d).pending = PartScan(FlattenSeq(s), d).part
                        /\ WrittenLines(Fed(s, d).out) = WrittenLines(PartScan(FlattenSeq(s), d).parts)
                        /\ Len(Fed(s, d).out) = Len(PartScan(FlattenSeq(s), d).parts)
                                                + Cardinality(PartEnds(s, d))
             T == {s \in Seq(Fragments) : Good(s)}
  <1>0. /\ <<>> \in Lines /\ <<>> \in Seq(Lines) /\ d \in Seq(Letters)
        /\ \A s \in Seq(Fragments) : s \in Seq(Lines)
        /\ \A s \in Seq(Fragments) : s \in Seq(Seq(Letters))
        /\ \A c \in Fragments : c \in Lines /\ c \in Seq(Letters)
    BY DEF Fragments, Lines
  <1>1. <<>> \in T
    <2>1. Fed(<<>>, d) = NoneFed /\ NoneFed \in FeedStates
      BY <1>0, FedNext, FeedLaws
    <2>2. FlattenSeq(<<>>) = <<>>
      BY FlattenAppend
    <2>3. PartScan(<<>>, d) = Within(<<>>)
      <3>1. Within(<<>>) \in PartStates
        BY <1>0, WithinState
      <3>. QED  BY <1>0, <3>1, PartFold, PartLaws DEF PartFrom, FoldLaws
    <2>4. /\ NoneFed.out = <<>> /\ NoneFed.pending = <<>>
          /\ Within(<<>>).parts = <<>> /\ Within(<<>>).part = <<>>
      BY DEF NoneFed, Within
    <2>5. Cardinality(PartEnds(<<>>, d)) = 0
      <3>1. 1..Len(<<>>) = {}
        OBVIOUS
      <3>2. PartEnds(<<>>, d) = {}
        BY <3>1 DEF PartEnds
      <3>. QED  BY <3>2, FS_EmptySet
    <2>6. Len(<<>>) = 0
      OBVIOUS
    <2>7. Good(<<>>)
      <3>1. Fed(<<>>, d) \in FeedStates /\ Fed(<<>>, d).out = <<>>
        BY <2>1, <2>4
      <3>2. Fed(<<>>, d).pending = <<>>
        BY <2>1, <2>4
      <3>3. PartScan(FlattenSeq(<<>>), d).parts = <<>> /\ PartScan(FlattenSeq(<<>>), d).part = <<>>
        BY <2>2, <2>3, <2>4
      <3>4. Len(Fed(<<>>, d).out) = 0 /\ Len(PartScan(FlattenSeq(<<>>), d).parts) = 0
        BY <2>6, <3>1, <3>3
      <3>. QED  BY <2>5, <3>1, <3>2, <3>3, <3>4
    <2>. HIDE DEF Good
    <2>. QED  BY <2>7
  <1>2. ASSUME NEW s \in Seq(Fragments), NEW c \in Fragments, s \in T
        PROVE  Append(s, c) \in T
    <2> DEFINE fed   == Fed(s, d)
               text  == FlattenSeq(s)
               whole == PartScan(text, d)
               end   == PartScan(whole.part \o c, d)
               more  == IF end.part = <<>> THEN Append(end.parts, <<>>) ELSE end.parts
    <2>1. /\ fed \in FeedStates /\ fed.pending = whole.part
          /\ WrittenLines(fed.out) = WrittenLines(whole.parts)
          /\ Len(fed.out) = Len(whole.parts) + Cardinality(PartEnds(s, d))
      BY <1>2
    <2>2. /\ Append(s, c) \in Seq(Fragments)
          /\ text \in Lines /\ FlattenSeq(Append(s, c)) = text \o c
      <3>1. Append(s, c) \in Seq(Fragments)
        OBVIOUS
      <3>. QED  BY <1>0, <3>1, FlattenAppend DEF Lines
    <2>3. Fed(Append(s, c), d) = FeedLines(fed, c, d)
      BY <1>0, FedNext
    <2>. HIDE DEF text, fed
    <2>4. /\ end \in PartStates
          /\ FeedLines(fed, c, d) = [out |-> fed.out \o more, pending |-> end.part]
      BY <2>1, FeedParts
    <2>5. /\ PartScan(text \o c, d).parts = whole.parts \o end.parts
          /\ PartScan(text \o c, d).part = end.part
      BY <1>0, <2>2, OpenPartThen
    <2>6. whole \in PartStates
      BY <1>0, <2>2, OpenPart
    <2>. HIDE DEF whole, end
    <2>7. /\ fed.out \in Seq(Lines) /\ whole.parts \in Seq(Lines) /\ end.parts \in Seq(Lines)
          /\ end.part \in Lines
      BY <2>1, <2>4, <2>6 DEF FeedStates, PartStates
    <2>8. /\ more \in Seq(Lines) /\ WrittenLines(more) = WrittenLines(end.parts)
          /\ end.part = <<>> => Len(more) = Len(end.parts) + 1
          /\ end.part # <<>> => Len(more) = Len(end.parts)
      <3>1. /\ Append(end.parts, <<>>) \in Seq(Lines)
            /\ Len(Append(end.parts, <<>>)) = Len(end.parts) + 1
        BY <1>0, <2>7
      <3>2. WrittenLines(Append(end.parts, <<>>)) = WrittenLines(end.parts)
        BY <1>0, <2>7, WrittenLaws
      <3>3. CASE end.part = <<>>
        BY <3>1, <3>2, <3>3
      <3>4. CASE end.part # <<>>
        BY <2>7, <3>4
      <3>. QED  BY <3>3, <3>4
    <2>. HIDE DEF more
    <2>9. WrittenLines(fed.out \o more) = WrittenLines(whole.parts \o end.parts)
      <3>1. WrittenLines(fed.out \o more) = WrittenLines(fed.out) \o WrittenLines(more)
        BY <2>7, <2>8, WrittenConcat
      <3>2. WrittenLines(whole.parts \o end.parts) = WrittenLines(whole.parts) \o WrittenLines(end.parts)
        BY <2>7, WrittenConcat
      <3>. QED  BY <2>1, <2>8, <3>1, <3>2
    <2>10. Len(fed.out \o more)
              = Len(whole.parts \o end.parts) + Cardinality(PartEnds(Append(s, c), d))
      <3>1. /\ Len(fed.out \o more) = Len(fed.out) + Len(more)
            /\ Len(whole.parts \o end.parts) = Len(whole.parts) + Len(end.parts)
            /\ Len(fed.out) \in Nat /\ Len(whole.parts) \in Nat /\ Len(end.parts) \in Nat
        BY <2>7, <2>8
      <3>2. /\ Cardinality(PartEnds(s, d)) \in Nat
            /\ Cardinality(PartEnds(Append(s, c), d))
                = IF end.part = <<>> THEN Cardinality(PartEnds(s, d)) + 1
                                     ELSE Cardinality(PartEnds(s, d))
        <4>1. PartScan(FlattenSeq(Append(s, c)), d).part = end.part
          BY <2>2, <2>5
        <4>. QED  BY <4>1, PartEndsNext
      <3> DEFINE f == Len(fed.out)
                 w == Len(whole.parts)
                 e == Len(more)
                 r == Len(end.parts)
                 k == Cardinality(PartEnds(s, d))
                 m == Cardinality(PartEnds(Append(s, c), d))
      <3>3. /\ f = w + k /\ w \in Nat /\ r \in Nat /\ k \in Nat
            /\ end.part = <<>> => e = r + 1 /\ m = k + 1
            /\ end.part # <<>> => e = r /\ m = k
        BY <2>1, <2>8, <3>1, <3>2
      <3>. HIDE DEF f, w, e, r, k, m
      <3>4. f + e = (w + r) + m
        <4>1. CASE end.part = <<>>
          BY <3>3, <4>1
        <4>2. CASE end.part # <<>>
          BY <3>3, <4>2
        <4>. QED  BY <4>1, <4>2
      <3>. QED  BY <3>1, <3>4 DEF f, w, e, r, m
    <2>11. fed.out \o more \in Seq(Lines)
      BY <2>7, <2>8
    <2> DEFINE next == [out |-> fed.out \o more, pending |-> end.part]
    <2>12. next \in FeedStates /\ next.out = fed.out \o more /\ next.pending = end.part
      BY <2>7, <2>11 DEF FeedStates
    <2>13. Fed(Append(s, c), d) = next
      BY <2>3, <2>4
    <2>. HIDE DEF next
    <2>14. Good(Append(s, c))
      BY <2>2, <2>5, <2>9, <2>10, <2>12, <2>13
    <2>. HIDE DEF Good
    <2>. QED  BY <2>2, <2>14
  <1>. HIDE DEF T
  <1>3. cs \in T
    BY <1>1, <1>2, SequenceInduction
  <1>. QED  BY <1>3 DEF T

\* A sequence that is not empty has something appended last.
LEMMA LastAppended ==
  ASSUME NEW E, NEW s \in Seq(E), s # <<>>
  PROVE  \E f \in Seq(E), e \in E : s = Append(f, e)
  <1> DEFINE T == {u \in Seq(E) : u # <<>> => \E f \in Seq(E), e \in E : u = Append(f, e)}
  <1>1. <<>> \in T
    OBVIOUS
  <1>2. ASSUME NEW u \in Seq(E), NEW e \in E, u \in T
        PROVE  Append(u, e) \in T
    <2>1. Append(u, e) \in Seq(E)
      OBVIOUS
    <2>2. \E f \in Seq(E), x \in E : Append(u, e) = Append(f, x)
      <3>. WITNESS u \in Seq(E), e \in E
      <3>. QED  OBVIOUS
    <2> DEFINE v == Append(u, e)
    <2>. HIDE DEF v
    <2>3. v \in T
      BY <2>1, <2>2 DEF v
    <2>. QED  BY <2>3 DEF v
  <1>. HIDE DEF T
  <1>3. s \in T
    BY <1>1, <1>2, SequenceInduction
  <1>. QED  BY <1>3 DEF T

LEMMA KeptAtDelimiter ==
  ASSUME NEW d \in Lines, d # <<>>, NEW cs \in Seq(Fragments)
  PROVE  LinesKept(cs, FlattenSeq(cs), d)
  <1> DEFINE text  == FlattenSeq(cs)
             fed   == Fed(cs, d)
             whole == PartScan(text, d)
             expected == IF cs = <<>> THEN <<>> ELSE Split(text, d)
             lines == IterLines(cs, d)
             cuts  == Cardinality(Splits(cs, d))
             ends  == Cardinality(PartEnds(cs, d))
  <1>0. <<>> \in Lines /\ <<>> \in Seq(Lines) /\ d \in Seq(Letters)
    BY DEF Lines
  <1>1. /\ fed \in FeedStates /\ fed.pending = whole.part
        /\ WrittenLines(fed.out) = WrittenLines(whole.parts)
        /\ Len(fed.out) = Len(whole.parts) + ends
    BY FedAtDelimiter
  <1>2. cuts \in Nat
    <2>1. Splits(cs, d) \in SUBSET (1..(Len(cs) - 1))
      BY DEF Splits
    <2>2. 1 \in Int /\ Len(cs) - 1 \in Int
      OBVIOUS
    <2>3. IsFiniteSet(1..(Len(cs) - 1))
      BY <2>2, FS_Interval
    <2>4. IsFiniteSet(Splits(cs, d))
      BY <2>1, <2>3, FS_Subset
    <2>. QED  BY <2>4, FS_CardinalityType
  <1>3. text \in Lines /\ whole \in PartStates
    <2>1. text \in Lines
      BY TextEnds
    <2>. HIDE DEF text
    <2>. QED  BY <1>0, <2>1, OpenPart
  <1>4. /\ Split(text, d) = Append(whole.parts, whole.part)
        /\ lines = IF fed.pending = <<>> THEN fed.out ELSE Append(fed.out, fed.pending)
    BY DEF Split, IterLines
  <1>5. LinesKept(cs, text, d) <=> Written(lines) = Written(expected)
                                  /\ Len(lines) = Len(expected) + cuts
    BY DEF LinesKept, LinesOf
  <1>6. CASE cs = <<>>
    <2>1. lines = <<>> /\ expected = <<>>
      <3>1. fed = NoneFed
        BY <1>0, <1>6, FedNext
      <3>. QED  BY <1>4, <1>6, <3>1 DEF NoneFed
    <2>2. cuts = 0
      <3>1. 1..(Len(<<>>) - 1) = {}
        OBVIOUS
      <3>2. Splits(cs, d) = {}
        BY <1>6, <3>1 DEF Splits
      <3>. QED  BY <3>2, FS_EmptySet
    <2>3. Len(<<>>) = 0
      OBVIOUS
    <2>. HIDE DEF lines, expected, cuts, text
    <2>. QED  BY <1>5, <2>1, <2>2, <2>3 DEF text
  <1>7. CASE cs # <<>>
    <2>1. ends = IF whole.part = <<>> THEN cuts + 1 ELSE cuts
      <3>1. PICK f \in Seq(Fragments), c \in Fragments : cs = Append(f, c)
        BY <1>7, LastAppended
      <3>. QED  BY <3>1, PartEndsNext
    <2>2. expected = Append(whole.parts, whole.part)
      BY <1>4, <1>7
    <2>. HIDE DEF lines, expected, cuts, ends, whole, fed
    <2>3. /\ fed.out \in Seq(Lines) /\ fed.pending \in Lines
          /\ whole.parts \in Seq(Lines) /\ whole.part \in Lines
      BY <1>1, <1>3 DEF FeedStates, PartStates
    <2>4. lines \in Seq(Lines) /\ expected \in Seq(Lines)
      BY <1>4, <2>2, <2>3, AppendLaws
    <2>5. Len(expected) = Len(whole.parts) + 1 /\ Len(whole.parts) \in Nat
      BY <2>2, <2>3
    <2>6. CASE whole.part = <<>>
      <3>1. lines = fed.out
        BY <1>1, <1>4, <2>6
      <3>2. WrittenLines(expected) = WrittenLines(whole.parts)
        BY <2>2, <2>3, <2>6, WrittenLaws
      <3>3. Len(lines) = Len(expected) + cuts
        <4>1. ends = cuts + 1
          BY <2>1, <2>6
        <4>2. Len(lines) = Len(whole.parts) + ends
          BY <1>1, <3>1
        <4> DEFINE p == Len(whole.parts)
        <4>3. p \in Nat /\ Len(expected) = p + 1 /\ Len(lines) = p + (cuts + 1)
          BY <2>5, <4>1, <4>2
        <4>. HIDE DEF p
        <4>. QED  BY <1>2, <4>3
      <3>4. Written(lines) = Written(expected)
        BY <1>1, <2>4, <3>1, <3>2, WrittenIs
      <3>. QED  BY <1>5, <3>3, <3>4
    <2>7. CASE whole.part # <<>>
      <3>1. lines = Append(fed.out, whole.part)
        BY <1>1, <1>4, <2>7
      <3>2. /\ WrittenLines(lines) = Append(WrittenLines(fed.out), whole.part)
            /\ WrittenLines(expected) = Append(WrittenLines(whole.parts), whole.part)
        BY <2>2, <2>3, <2>7, <3>1, WrittenLaws
      <3>3. Len(lines) = Len(fed.out) + 1
        BY <2>3, <3>1
      <3>4. Len(lines) = Len(expected) + cuts
        BY <1>1, <1>2, <2>1, <2>5, <2>7, <3>3
      <3>5. Written(lines) = Written(expected)
        BY <1>1, <2>4, <3>2, WrittenIs
      <3>. QED  BY <1>5, <3>4, <3>5
    <2>. QED  BY <2>6, <2>7
  <1>. QED  BY <1>6, <1>7

LEMMA ChunksKept ==
  ASSUME NEW cs \in Seq(Fragments), NEW d \in Lines
  PROVE  LinesKept(cs, FlattenSeq(cs), d)
  BY KeptAtBreaks, KeptAtDelimiter

\* What LinesWhole says of a body, whether or not a generator has come to its
\* end: the states only decide when it is asked.
LEMMA AlwaysInOrder == LinesInOrder
  <1> DEFINE got == InOrder(0, N)
  <1>. SUFFICES ASSUME NEW body \in Bodies, NEW d \in Delimiters
                PROVE  LET given == [i \in DOMAIN got |-> body[got[i]]]
                           bytes == FlattenSeq(given)
                       IN  /\ LinesKept(given, bytes, d)
                           /\ LinesKept(DecodeChunks(given), Text(bytes), d)
    BY DEF LinesInOrder
  <1> DEFINE given == [i \in DOMAIN got |-> body[got[i]]]
  <1>1. given \in Seq(Chunks)
    <2>1. N \in Nat
      BY BodyAssumption
    <2>2. DOMAIN got = 1..N /\ \A i \in 1..N : got[i] \in 1..N
      BY <2>1 DEF InOrder
    <2>3. \A i \in 1..N : body[got[i]] \in Chunks
      BY <2>2 DEF Bodies
    <2>4. given = [i \in 1..N |-> given[i]] /\ \A i \in 1..N : given[i] \in Chunks
      BY <2>2, <2>3
    <2>. HIDE DEF given
    <2>. QED  BY <2>1, <2>4
  <1>. HIDE DEF given
  <1>2. /\ given \in Seq(Seq(Bytes)) /\ given \in Seq(Fragments) /\ d \in Lines
    <2>1. Chunks \subseteq Seq(Bytes) \ {<<>>} /\ d \in Seq(Bytes)
      BY LinesAssumption
    <2>2. Seq(Bytes) \subseteq Seq(Letters)
      BY DEF Letters
    <2>3. Chunks \subseteq Fragments /\ d \in Lines /\ Chunks \subseteq Seq(Bytes)
      BY <2>1, <2>2 DEF Fragments, Lines
    <2>. QED  BY <1>1, <2>3
  <1>3. LinesKept(given, FlattenSeq(given), d)
    BY <1>2, ChunksKept
  <1>4. LinesKept(DecodeChunks(given), Text(FlattenSeq(given)), d)
    BY <1>2, ChunksDecoded, ChunksKept
  <1>. QED  BY <1>3, <1>4 DEF given

\* LinesWhole: iter_lines gives every line of the text, in order and unbroken
\* wherever the body is cut into chunks, and an empty line too many for each
\* boundary between CR and LF, or right behind a delimiter.  This holds for
\* bodies of any number of chunks, whatever is in them.
THEOREM LinesAreWhole == Spec => []LinesWhole
  <1>1. LinesWhole
    BY AlwaysInOrder DEF LinesWhole
  <1>. QED  BY <1>1, PTL
=============================================================================
