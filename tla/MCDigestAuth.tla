---------------------------- MODULE MCDigestAuth ----------------------------
(***************************************************************************)
(* Instances of DigestAuth for TLC: a file, a file that the program has    *)
(* read a part of, and a body of every other kind, in programs that        *)
(* prepare two of them.                                                    *)
(***************************************************************************)
EXTENDS DigestAuth

CONSTANTS again, file, offset, tape, pipe, generator, form, plain

MCRequests == {again, file, offset, tape, pipe, generator, form, plain}

MCPrograms ==
    {{offset, r} : r \in MCRequests \ {again, offset}}
    \cup {{tape, plain}, {again, pipe}, {again, tape}}

MCBody == [r \in MCRequests |->
    CASE r \in {again, file, offset} -> "file"
      [] r = tape -> "tape"
      [] r = pipe -> "pipe"
      [] r = generator -> "generator"
      [] r = form -> "form"
      [] r = plain -> "none"]

MCStart == [r \in MCRequests |-> IF r \in {offset, tape} THEN 3 ELSE 0]

\* One of the requests with a file is sent a second time.
MCMaxSends == [r \in MCRequests |-> IF r = again THEN 2 ELSE 1]
=============================================================================
