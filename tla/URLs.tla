-------------------------------- MODULE URLs --------------------------------
(***************************************************************************)
(* URLs as the redirect code of requests/sessions.py looks at them: the    *)
(* scheme and the host.  Paths, queries, ports, fragments and the          *)
(* requoting of all of them are left out.                                  *)
(***************************************************************************)
CONSTANTS
    None,      \* Python's None: no value, no header, no key in a dict
    Hosts,     \* the hosts a chain of redirects may visit
    Schemes    \* the schemes that occur, those without an adapter too

ASSUME URLAssumption ==
    /\ None \notin Hosts
    /\ None \notin Schemes

URLs == [scheme : Schemes, host : Hosts]

\* A Location header; a missing part is None: '//host/' has no scheme and
\* '/path' has neither.
Locations == {l \in [scheme : Schemes \cup {None}, host : Hosts \cup {None}] :
                 l.host = None => l.scheme = None}

\* The URL a Location stands for, seen from the URL of the response.
Resolve(url, location) ==
    [scheme |-> IF location.scheme = None THEN url.scheme ELSE location.scheme,
     host   |-> IF location.host = None THEN url.host ELSE location.host]
=============================================================================
