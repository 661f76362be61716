------------------------- MODULE MCSessionSettings -------------------------
(***************************************************************************)
(* An instance of SessionSettings for TLC.  The jars that are merged: an   *)
(* empty one, one with the two domains and one with a valueless cookie.    *)
(***************************************************************************)
EXTENDS SessionSettings

CONSTANTS v1, n1, n2, lower, Title

MCKeys ==
    {[name |-> n1, case |-> lower], [name |-> n1, case |-> Title],
     [name |-> n2, case |-> lower]}

MCOtherJars ==
    LET Filled(domains, value) ==
            [k \in Cookies |-> IF k.domain \in domains /\ k.path = Root
                               THEN value ELSE Missing]
    IN  {EmptyJar, Filled(Domains, v1), Filled({NoDomain}, None)}
=============================================================================
