------------------------ MODULE CaseInsensitiveDict ------------------------
(***************************************************************************)
(* requests/structures.py: CaseInsensitiveDict, the type of every headers  *)
(* attribute.  A key is a name and the case it is spelled in; lower() of a *)
(* key is its name.  The OrderedDict _store, from the lower-case key to    *)
(* the pair of the cased key and the value, is a sequence of items in      *)
(* which no name occurs twice.                                             *)
(***************************************************************************)
EXTENDS PythonValues, Naturals, SequencesExt

CONSTANTS
    Names,       \* the keys in lower case
    Cases,       \* the ways to spell a name
    Keys,        \* the spelled names that are used
    Texts        \* the values

ASSUME DictAssumption ==
    /\ Keys \subseteq [name : Names, case : Cases]
    /\ None \notin Texts
    /\ Missing \notin Texts

Items == [key : Keys, value : Texts \cup {None}]

Holds(store, name) == \E i \in DOMAIN store : store[i].key.name = name

Position(store, name) == CHOOSE i \in DOMAIN store : store[i].key.name = name

\* Mutant: the lookup is made with the key as it is spelled.
SetItem_CaseSensitive(store, key, value) ==
    LET item == [key |-> key, value |-> value]
    IN  IF \E i \in DOMAIN store : store[i].key = key
        THEN [store EXCEPT ![Position(store, key.name)] = item]
        ELSE Append(store, item)

\* __setitem__: an item keeps its place and takes the new spelling.
SetItem(store, key, value) ==
    LET item == [key |-> key, value |-> value]
    IN  IF Holds(store, key.name)
        THEN [store EXCEPT ![Position(store, key.name)] = item]
        ELSE Append(store, item)

\* Mutant: the lookup does not lower the key.
GetItem_CaseSensitive(store, key) ==
    IF \E i \in DOMAIN store : store[i].key = key
    THEN store[Position(store, key.name)].value ELSE Missing

\* __getitem__
GetItem(store, key) ==
    IF Holds(store, key.name) THEN store[Position(store, key.name)].value
                              ELSE Missing

\* __delitem__ of a key that is there.
DelItem(store, key) == RemoveAt(store, Position(store, key.name))

\* update: __setitem__ for every item, in order.
Update(store, items) ==
    FoldLeft(LAMBDA s, item : SetItem(s, item.key, item.value), store, items)

\* __init__ (and copy): the items in order, so the last spelling wins.
FromItems(items) == Update(<<>>, items)
=============================================================================
