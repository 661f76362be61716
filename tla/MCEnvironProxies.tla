-------------------------- MODULE MCEnvironProxies --------------------------
(***************************************************************************)
(* An instance of NoProxyHosts for TLC: the environment has a proxy p1     *)
(* for http and a NO_PROXY with a network that host a is in, the session   *)
(* has p2 for http and for all.  The dict open sets no proxy and has a     *)
(* list with an ending of host b's name, off switches http off and has a   *)
(* list of one empty entry.                                                *)
(***************************************************************************)
EXTENDS NoProxyHosts

CONSTANTS a, b, p1, p2, open, off, t1, t2, x, y, port

KeyTable(keys, proxy) == [k \in ProxyKeys |-> IF k \in keys THEN proxy ELSE None]

http == <<"http", None>>
all  == <<None, None>>

MCEnvProxies == KeyTable({http}, p1)
MCSessionProxies == KeyTable({http, all}, p2)

MCGiven == [d \in {open, off} |-> IF d = off THEN KeyTable({http}, Off) ELSE NoProxies]
MCLetters == {x, y, port, Colon}

\* Octets of two bits: {1} is 2, {0, 1} is 3.
MCNetloc ==
    [h \in {a, b} |-> IF h = a THEN <<{1}, {0, 1}, Colon, port>> ELSE <<x, y, x>>]

MCUpperNoProxy ==
    Matched({[text |-> <<{1}, {0}>>, bits |-> 2], [text |-> <<x, x>>, bits |-> NoSlash]})

MCNoProxyOf ==
    [d \in {open, off} |->
        Matched({[text |-> IF d = off THEN <<>> ELSE <<y, x>>, bits |-> NoSlash]})]
=============================================================================
