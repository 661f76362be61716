--------------------------- MODULE MCAdapterMounts ---------------------------
(***************************************************************************)
(* An instance of AdapterMounts for TLC.  The letters: "h" stands for     *)
(* http:// and "ss", the longer one, for https://; "g" and "e" are letters *)
(* of hosts, "G" an upper-case one.                                        *)
(***************************************************************************)
EXTENDS AdapterMounts

CONSTANTS default, special

MCLowered ==
    [l \in {"h", "s", "g", "e", "G"} |-> IF l = "G" THEN "g" ELSE l]

http == <<"h">>
https == <<"s", "s">>

MCKeys ==
    {http, https, <<"h", "g">>, <<"h", "e">>, <<"h", "G">>, <<"h", "g", "e">>}

MCTargets ==
    {<<"h", "g">>, <<"h", "G", "e">>, <<"s", "s", "g">>, <<"h", "e", "g">>,
     <<"g">>}

MCDefaults == <<[prefix |-> https, adapter |-> default],
                [prefix |-> http, adapter |-> default]>>
=============================================================================
