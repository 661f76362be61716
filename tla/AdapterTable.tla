---------------------------- MODULE AdapterTable ----------------------------
(***************************************************************************)
(* What a session promises of its connection adapters: a request goes to   *)
(* the adapter that was mounted last for the longest mounted prefix of its *)
(* URL, whatever the order in which the prefixes were mounted.             *)
(***************************************************************************)
EXTENDS Naturals, SequencesExt

CONSTANTS
    Keys,      \* prefixes that may be mounted: sequences of letters
    Targets,   \* the URLs requests are sent to: sequences of letters
    Adapters,
    Lowered,   \* Lowered[l]: the letter l in lower case
    Missing,   \* no adapter: InvalidSchema
    Initially  \* what is mounted from the start

VARIABLES
    mounted,   \* mounted[p]: the adapter of prefix p
    used       \* the adapter of the last request

Lower(url) == [i \in DOMAIN url |-> Lowered[url[i]]]

Matching(url) ==
    {p \in Keys : mounted[p] # Missing /\ IsPrefix(p, Lower(url))}

Init ==
    /\ mounted = Initially
    /\ used = Missing

Mount(p, adapter) ==
    /\ mounted' = [mounted EXCEPT ![p] = adapter]
    /\ UNCHANGED used

Get(url) ==
    /\ IF Matching(url) = {} THEN used' = Missing
       ELSE \E p \in Matching(url) :
                /\ \A q \in Matching(url) : Len(q) <= Len(p)
                /\ used' = mounted[p]
    /\ UNCHANGED mounted

Next ==
    \/ \E p \in Keys, adapter \in Adapters : Mount(p, adapter)
    \/ \E url \in Targets : Get(url)

Spec == Init /\ [][Next]_<<mounted, used>>
=============================================================================
