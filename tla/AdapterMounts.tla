---------------------------- MODULE AdapterMounts ----------------------------
(***************************************************************************)
(* requests/sessions.py Session.adapters, an OrderedDict from URL prefixes *)
(* to adapters that mount keeps in descending order of length and          *)
(* get_adapter searches from the front.                                    *)
(*                                                                         *)
(* A definition named D_Variant is D as a plausible mistake would have it; *)
(* nothing uses it.                                                        *)
(***************************************************************************)
EXTENDS Naturals, SequenceOperators

CONSTANTS
    Keys,      \* prefixes that may be mounted: sequences of letters
    Targets,   \* the URLs requests are sent to: sequences of letters
    Adapters,
    Lowered,   \* Lowered[l]: the letter l in lower case
    Missing,   \* no adapter: InvalidSchema
    Defaults   \* what Session.__init__ mounts, in this order

ASSUME MountAssumption ==
    /\ Keys \subseteq Seq(DOMAIN Lowered)
    /\ Targets \subseteq Seq(DOMAIN Lowered)
    /\ Missing \notin Adapters
    /\ Defaults \in Seq([prefix : Keys, adapter : Adapters])

VARIABLES
    adapters,  \* the items of the OrderedDict, first to last
    used       \* what get_adapter returned last, or Missing

vars == <<adapters, used>>

Has(items, p) == \E i \in DOMAIN items : items[i].prefix = p

\* d[p] = adapter: in place if p is a key, else at the end.
Assign(items, p, adapter) ==
    IF Has(items, p)
    THEN [i \in DOMAIN items |->
             IF items[i].prefix = p THEN [items[i] EXCEPT !.adapter = adapter]
                                    ELSE items[i]]
    ELSE Append(items, [prefix |-> p, adapter |-> adapter])

\* Mutant: the comparison is the other way round.
Mounted_MovesLonger(items, p, adapter) ==
    LET set == Assign(items, p, adapter)
        longer == {item \in ToSet(set) : Len(item.prefix) > Len(p)}
    IN  Filter(set, ToSet(set) \ longer) \o Filter(set, longer)

\* mount: the shorter keys are popped and put back behind the others.
Mounted(items, p, adapter) ==
    LET set == Assign(items, p, adapter)
        shorter == {item \in ToSet(set) : Len(item.prefix) < Len(p)}
    IN  Filter(set, ToSet(set) \ shorter) \o Filter(set, shorter)

\* Session.__init__ mounts its two adapters one after the other.
Preset == FoldLeft(LAMBDA items, d : Mounted(items, d.prefix, d.adapter), <<>>, Defaults)

Init ==
    /\ adapters = Preset
    /\ used = Missing

Mount(p, adapter) ==
    /\ adapters' = Mounted(adapters, p, adapter)
    /\ UNCHANGED used

\* url.lower(): the prefixes are taken as they were mounted.
Lower(url) == [i \in DOMAIN url |-> Lowered[url[i]]]

\* get_adapter, the first thing Session.send asks for.
GetAdapter(url) ==
    LET hits == {i \in DOMAIN adapters : IsPrefix(adapters[i].prefix, Lower(url))}
    IN  /\ used' = IF hits = {} THEN Missing
                   ELSE adapters[CHOOSE i \in hits : \A j \in hits : i <= j].adapter
        /\ UNCHANGED adapters

Next ==
    \/ \E p \in Keys, adapter \in Adapters : Mount(p, adapter)
    \/ \E url \in Targets : GetAdapter(url)

Spec == Init /\ [][Next]_vars

-----------------------------------------------------------------------------
(* Properties.                                                             *)

AdapterOf(p) ==
    IF Has(adapters, p)
    THEN LET i == CHOOSE i \in DOMAIN adapters : adapters[i].prefix = p
         IN  adapters[i].adapter
    ELSE Missing

\* The defaults, the later ones over the earlier.
DefaultOf(p) ==
    LET given == {i \in DOMAIN Defaults : Defaults[i].prefix = p}
    IN  IF given = {} THEN Missing
        ELSE Defaults[CHOOSE i \in given : \A j \in given : j <= i].adapter

Table == INSTANCE AdapterTable
    WITH mounted <- [p \in Keys |-> AdapterOf(p)],
         Initially <- [p \in Keys |-> DefaultOf(p)]

\* The first match in the ordered dict is the longest match in the table:
\* mount and get_adapter implement AdapterTable.
LongestPrefixWins == Table!Spec
=============================================================================
