--------------------------- MODULE MCResponseBody ---------------------------
(***************************************************************************)
(* An instance of ResponseLines for TLC: a body of three chunks, each of   *)
(* one or two bytes, so that line ends, delimiters and characters fall on  *)
(* every side of a boundary.                                               *)
(***************************************************************************)
EXTENDS ResponseLines

CONSTANT x

MCBytes == {x, CR, LF, Lead, Trail}

MCChunks ==
    {<<x>>, <<CR>>, <<LF>>, <<CR, LF>>, <<Lead>>, <<Trail>>, <<Trail, CR>>}

MCDelimiters == {<<>>, <<LF>>, <<CR, LF>>, <<LF, LF>>}
=============================================================================
