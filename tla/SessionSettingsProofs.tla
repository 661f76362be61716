------------------------ MODULE SessionSettingsProofs ------------------------
(***************************************************************************)
(* What holds of SessionSettings for any names, spellings, domains, paths  *)
(* and values.  That the headers are one map is a refinement of HeaderMap; *)
(* that the jar reads like a dict needs to know where in the jar the       *)
(* cookies of a name are (JarFollows).                                     *)
(***************************************************************************)
EXTENDS SessionSettings, SequenceFolds

USE DictAssumption, CookieAssumption, SettingsAssumption

-----------------------------------------------------------------------------
(* Lemmas about CaseInsensitiveDict.                                       *)

\* The store of a dict: no name occurs twice.
Store(items) ==
    /\ items \in Seq(Items)
    /\ \A i, j \in DOMAIN items : items[i].key.name = items[j].key.name => i = j

LEMMA PositionHolds ==
  ASSUME NEW items, NEW name, Holds(items, name)
  PROVE  Position(items, name) \in DOMAIN items /\ items[Position(items, name)].key.name = name
  BY DEF Holds, Position

LEMMA SetItemStores ==
  ASSUME NEW items, Store(items), NEW key \in Keys, NEW value \in Texts \cup {None}
  PROVE  /\ Store(SetItem(items, key, value))
         /\ \A k \in Keys : GetItem(SetItem(items, key, value), k)
                = IF k.name = key.name THEN value ELSE GetItem(items, k)
  <1> DEFINE item == [key |-> key, value |-> value]
             new  == SetItem(items, key, value)
  <1>1. item \in Items
    BY DEF Items
  <1>2. CASE Holds(items, key.name)
    <2> DEFINE p == Position(items, key.name)
    <2>1. p \in DOMAIN items /\ items[p].key.name = key.name
      BY <1>2, PositionHolds
    <2>2. new = [items EXCEPT ![p] = item]
      BY <1>2 DEF SetItem
    <2>. HIDE DEF new, p
    <2>3. /\ new \in Seq(Items) /\ DOMAIN new = DOMAIN items
          /\ \A i \in DOMAIN new : new[i] = IF i = p THEN item ELSE items[i]
      BY <1>1, <2>1, <2>2 DEF Store
    <2>4. \A i \in DOMAIN new : new[i].key.name = items[i].key.name
      BY <2>1, <2>3
    <2>5. Store(new)
      BY <2>3, <2>4 DEF Store
    <2>6. ASSUME NEW k \in Keys
          PROVE  GetItem(new, k) = IF k.name = key.name THEN value ELSE GetItem(items, k)
      <3>1. Holds(new, k.name) <=> Holds(items, k.name)
        BY <2>3, <2>4 DEF Holds
      <3>2. CASE Holds(items, k.name)
        <4>1. /\ Position(new, k.name) \in DOMAIN new
              /\ new[Position(new, k.name)].key.name = k.name
          BY <3>1, <3>2, PositionHolds
        <4>2. /\ Position(items, k.name) \in DOMAIN items
              /\ items[Position(items, k.name)].key.name = k.name
          BY <3>2, PositionHolds
        <4>3. Position(new, k.name) = Position(items, k.name)
          BY <2>3, <2>4, <4>1, <4>2 DEF Store
        <4>4. Position(items, k.name) = p <=> k.name = key.name
          BY <2>1, <4>2 DEF Store
        <4>. QED  BY <2>3, <3>1, <3>2, <4>1, <4>3, <4>4 DEF GetItem
      <3>3. CASE ~Holds(items, k.name)
        BY <1>2, <3>1, <3>3 DEF GetItem
      <3>. QED  BY <3>2, <3>3
    <2>. QED  BY <2>5, <2>6 DEF new
  <1>3. CASE ~Holds(items, key.name)
    <2>1. new = Append(items, item)
      BY <1>3 DEF SetItem
    <2>. HIDE DEF new
    <2>2. /\ new \in Seq(Items) /\ DOMAIN new = DOMAIN items \cup {Len(items) + 1}
          /\ \A i \in DOMAIN items : new[i] = items[i] /\ i # Len(items) + 1
          /\ new[Len(items) + 1] = item
      BY <1>1, <2>1 DEF Store
    <2>3. \A i \in DOMAIN items : items[i].key.name # key.name
      BY <1>3 DEF Holds
    <2>4. Store(new)
      BY <2>2, <2>3 DEF Store
    <2>5. ASSUME NEW k \in Keys
          PROVE  GetItem(new, k) = IF k.name = key.name THEN value ELSE GetItem(items, k)
      <3>1. CASE k.name = key.name
        <4>1. Holds(new, k.name)
          BY <2>2, <3>1 DEF Holds
        <4>2. Position(new, k.name) = Len(items) + 1
          BY <2>2, <2>3, <3>1, <4>1, PositionHolds
        <4>. QED  BY <2>2, <3>1, <4>1, <4>2 DEF GetItem
      <3>2. CASE k.name # key.name
        <4>1. Holds(new, k.name) <=> Holds(items, k.name)
          BY <2>2, <3>2 DEF Holds
        <4>2. CASE Holds(items, k.name)
          <5>1. /\ Position(new, k.name) \in DOMAIN new
                /\ new[Position(new, k.name)].key.name = k.name
            BY <4>1, <4>2, PositionHolds
          <5>2. /\ Position(items, k.name) \in DOMAIN items
                /\ items[Position(items, k.name)].key.name = k.name
            BY <4>2, PositionHolds
          <5>3. Position(new, k.name) = Position(items, k.name)
            BY <2>2, <2>4, <3>2, <5>1, <5>2 DEF Store
          <5>. QED  BY <2>2, <3>2, <4>1, <4>2, <5>2, <5>3 DEF GetItem
        <4>3. CASE ~Holds(items, k.name)
          BY <3>2, <4>1, <4>3 DEF GetItem
        <4>. QED  BY <4>2, <4>3
      <3>. QED  BY <3>1, <3>2
    <2>. QED  BY <2>4, <2>5 DEF new
  <1>. QED  BY <1>2, <1>3

\* The code deletes a key that is there.
LEMMA DelItemStores ==
  ASSUME NEW items, Store(items), NEW key \in Keys, Holds(items, key.name)
  PROVE  /\ Store(DelItem(items, key))
         /\ \A k \in Keys : GetItem(DelItem(items, key), k)
                = IF k.name = key.name THEN Missing ELSE GetItem(items, k)
  <1> DEFINE p   == Position(items, key.name)
             new == DelItem(items, key)
             From(i) == IF i < p THEN i ELSE i + 1
  <1>1. p \in 1..Len(items) /\ items[p].key.name = key.name
    BY PositionHolds DEF Store
  <1>2. new = SubSeq(items, 1, p - 1) \o SubSeq(items, p + 1, Len(items))
    BY DEF DelItem, RemoveAt
  <1>. HIDE DEF new, p
  <1>3. /\ new \in Seq(Items) /\ Len(new) = Len(items) - 1
        /\ \A i \in 1..Len(new) : new[i] = items[From(i)]
    <2> DEFINE front == SubSeq(items, 1, p - 1)
               back  == SubSeq(items, p + 1, Len(items))
    <2>1. items \in Seq(Items) /\ p \in Nat
      BY <1>1 DEF Store
    <2>2. /\ front \in Seq(Items) /\ Len(front) = p - 1
          /\ \A i \in 1..(p - 1) : front[i] = items[i]
      BY <1>1, <2>1
    <2>3. /\ back \in Seq(Items) /\ Len(back) = Len(items) - p
          /\ \A i \in 1..(Len(items) - p) : back[i] = items[p + i]
      BY <1>1, <2>1
    <2>. HIDE DEF front, back
    <2>4. new = front \o back
      BY <1>2 DEF front, back
    <2>5. new \in Seq(Items) /\ Len(new) = Len(items) - 1
      BY <1>1, <2>1, <2>2, <2>3, <2>4
    <2>6. ASSUME NEW i \in 1..Len(new) PROVE new[i] = items[From(i)]
      <3>1. CASE i < p
        BY <1>1, <2>1, <2>2, <2>3, <2>4, <2>5, <3>1
      <3>2. CASE ~(i < p)
        <4>1. i - Len(front) \in 1..Len(back) /\ new[i] = back[i - Len(front)]
          BY <1>1, <2>1, <2>2, <2>3, <2>4, <2>5, <3>2
        <4>2. p + (i - Len(front)) = i + 1
          BY <1>1, <2>1, <2>2
        <4>. QED  BY <2>3, <3>2, <4>1, <4>2
      <3>. QED  BY <3>1, <3>2
    <2>. QED  BY <2>5, <2>6
  <1>4. \A i \in DOMAIN new : From(i) \in DOMAIN items \ {p} /\ new[i] = items[From(i)]
    BY <1>1, <1>3 DEF Store
  <1>5. \A j \in DOMAIN items \ {p} : \E i \in DOMAIN new : new[i] = items[j]
    <2> SUFFICES ASSUME NEW j \in DOMAIN items \ {p}
                 PROVE  \E i \in DOMAIN new : From(i) = j
      BY <1>4
    <2>1. CASE j < p
      BY <1>1, <1>3, <2>1 DEF Store
    <2>2. CASE j > p
      <3>1. j - 1 \in DOMAIN new /\ From(j - 1) = j
        BY <1>1, <1>3, <2>2 DEF Store
      <3>. QED  BY <3>1
    <2>. QED  BY <1>1, <2>1, <2>2 DEF Store
  <1>6. Store(new)
    <2>1. \A i, j \in DOMAIN new : From(i) = From(j) => i = j
      BY <1>1, <1>3
    <2>. QED  BY <1>3, <1>4, <2>1 DEF Store
  <1>7. ASSUME NEW k \in Keys
        PROVE  GetItem(new, k) = IF k.name = key.name THEN Missing ELSE GetItem(items, k)
    <2>1. CASE k.name = key.name
      <3>1. ~Holds(new, k.name)
        BY <1>1, <1>4, <2>1 DEF Holds, Store
      <3>. QED  BY <2>1, <3>1 DEF GetItem
    <2>2. CASE k.name # key.name
      <3>1. Holds(new, k.name) <=> Holds(items, k.name)
        BY <1>1, <1>4, <1>5, <2>2 DEF Holds
      <3>2. CASE Holds(items, k.name)
        <4>1. /\ Position(new, k.name) \in DOMAIN new
              /\ new[Position(new, k.name)].key.name = k.name
          BY <3>1, <3>2, PositionHolds
        <4>2. /\ Position(items, k.name) \in DOMAIN items
              /\ items[Position(items, k.name)].key.name = k.name
          BY <3>2, PositionHolds
        <4>3. From(Position(new, k.name)) = Position(items, k.name)
          BY <1>4, <4>1, <4>2 DEF Store
        <4>. QED  BY <1>4, <2>2, <3>1, <3>2, <4>1, <4>3 DEF GetItem
      <3>3. CASE ~Holds(items, k.name)
        BY <2>2, <3>1, <3>3 DEF GetItem
      <3>. QED  BY <3>2, <3>3
    <2>. QED  BY <2>1, <2>2
  <1>. QED  BY <1>6, <1>7 DEF new

-----------------------------------------------------------------------------
(* Lemmas about CookieDict.                                                *)

LEMMA AssignType ==
  ASSUME NEW j \in Jars, NEW name \in CookieNames, NEW value \in CookieTexts \cup {None},
         NEW domain \in Domains \cup {None}, NEW path \in Paths \cup {None}
  PROVE  Assign(j, name, value, domain, path) \in Jars
  <1>1. CookieOf(name, domain, path) \in Cookies
    BY DEF CookieOf, Cookies
  <1>. QED  BY <1>1 DEF Assign, SetCookie, RemoveByName, Jars

LEMMA RemoveType ==
  ASSUME NEW j \in Jars, NEW name, NEW domain, NEW path
  PROVE  RemoveByName(j, name, domain, path) \in Jars
  BY DEF RemoveByName, Jars

LEMMA FromDictType ==
  ASSUME NEW j \in Jars, NEW dict \in CookieDicts, NEW overwrite \in BOOLEAN
  PROVE  FromDict(dict, j, overwrite) \in Jars
  <1>1. \A c \in Cookies : c.name \in CookieNames
    BY DEF Cookies
  <1>. QED  BY <1>1 DEF FromDict, Jars, CookieDicts

LEMMA MergeJarType ==
  ASSUME NEW j \in Jars, NEW other \in Jars
  PROVE  MergeJar(j, other) \in Jars
  BY DEF MergeJar, Jars

\* A lookup finds a value other than None, or reports.
LEMMA LookupType ==
  ASSUME NEW j \in Jars, NEW name, NEW domain, NEW path
  PROVE  Lookup(j, name, domain, path) \subseteq CookieTexts \cup {Missing, Conflict}
  <1>1. \A c \in Matching(j, name, domain, path) : j[c] \in CookieTexts \cup {None}
    BY DEF Matching, Jars
  <1>. QED  BY <1>1 DEF Lookup

-----------------------------------------------------------------------------
(* Types.                                                                  *)

LEMMA EmptyJarType == EmptyJar \in Jars
  BY DEF EmptyJar, Jars

LEMMA InitTypes == Init => TypeOK
  <1> SUFFICES ASSUME Init PROVE TypeOK
    OBVIOUS
  <1>1. headers \in Seq(Items) /\ NamesOnce
    BY DEF Init, NamesOnce
  <1>. QED  BY <1>1, EmptyJarType DEF Init, TypeOK, Results

\* The calls that change the headers.
LEMMA HeaderTypes ==
  ASSUME TypeOK, NEW key \in Keys, DelHeader(key) \/ \E value \in Texts \cup {None} : SetHeader(key, value)
  PROVE  TypeOK'
  <1>1. Store(headers)
    BY DEF TypeOK, NamesOnce, Store
  <1>2. Store(headers')
    <2>1. CASE DelHeader(key)
      BY <1>1, <2>1, DelItemStores DEF DelHeader, GetItem
    <2>2. ASSUME NEW value \in Texts \cup {None}, SetHeader(key, value) PROVE Store(headers')
      BY <1>1, <2>2, SetItemStores DEF SetHeader
    <2>. QED  BY <2>1, <2>2
  <1>3. UNCHANGED cookieVars
    BY DEF DelHeader, SetHeader
  <1>. QED  BY <1>2, <1>3 DEF TypeOK, NamesOnce, Store, cookieVars

\* The calls that write the jar.
LEMMA WriteTypes ==
  ASSUME TypeOK, NEW newJar \in Jars, Writes(newJar),
         plain' \in [CookieNames -> CookieTexts \cup {Missing}], foreign' \subseteq CookieNames
  PROVE  TypeOK'
  BY DEF TypeOK, Writes, NamesOnce, Results

LEMMA StepTypes == TypeOK /\ [Next]_vars => TypeOK'
  <1> SUFFICES ASSUME TypeOK, [Next]_vars PROVE TypeOK'
    OBVIOUS
  <1>0. /\ jar \in Jars /\ foreign \subseteq CookieNames
        /\ plain \in [CookieNames -> CookieTexts \cup {Missing}]
    BY DEF TypeOK
  <1>1. ASSUME NEW key \in Keys,
               DelHeader(key) \/ \E value \in Texts \cup {None} : SetHeader(key, value)
        PROVE  TypeOK'
    BY <1>1, HeaderTypes
  <1>2. ASSUME NEW name \in CookieNames, NEW value \in CookieTexts \cup {None},
               SetCookieItem(name, value)
        PROVE  TypeOK'
    <2>1. Assign(jar, name, value, None, None) \in Jars
      BY <1>0, AssignType
    <2>. QED  BY <1>0, <1>2, <2>1, WriteTypes DEF SetCookieItem
  <1>3. ASSUME NEW name \in CookieNames, NEW value \in CookieTexts \cup {None},
               NEW domain \in Domains \cup {None}, NEW path \in Paths \cup {None},
               SetCookieFor(name, value, domain, path)
        PROVE  TypeOK'
    <2>1. Assign(jar, name, value, domain, path) \in Jars
      BY <1>0, AssignType
    <2>. QED  BY <1>0, <1>3, <2>1, WriteTypes DEF SetCookieFor
  <1>4. ASSUME NEW name \in CookieNames, DelCookieItem(name) PROVE TypeOK'
    BY <1>0, <1>4, RemoveType, WriteTypes DEF DelCookieItem
  <1>5. ASSUME NEW domain \in Domains, NEW path \in Paths, NEW name \in CookieNames,
               NEW value \in CookieTexts \cup {None}, ServerSets(domain, path, name, value)
        PROVE  TypeOK'
    <2>1. SetCookie(jar, [domain |-> domain, path |-> path, name |-> name], value) \in Jars
      BY <1>0 DEF SetCookie, Jars, Cookies
    <2>. QED  BY <1>0, <1>5, <2>1, WriteTypes DEF ServerSets
  <1>6. ASSUME NEW other \in OtherJars, UpdateFromJar(other) PROVE TypeOK'
    BY <1>0, <1>6, MergeJarType, WriteTypes DEF UpdateFromJar
  <1>7. ASSUME NEW dict \in CookieDicts, UpdateFromDict(dict) PROVE TypeOK'
    <2> DEFINE new == [c \in Cookies |-> IF dict[c.name] = Missing THEN jar[c]
                                 ELSE Assign(jar, c.name, dict[c.name], None, None)[c]]
    <2>1. ASSUME NEW c \in Cookies, dict[c.name] # Missing
          PROVE  Assign(jar, c.name, dict[c.name], None, None) \in Jars
      <3>1. c.name \in CookieNames /\ dict[c.name] \in CookieTexts \cup {None}
        BY <2>1 DEF Cookies, CookieDicts
      <3>. QED  BY <1>0, <3>1, AssignType
    <2>2. new \in Jars
      BY <1>0, <2>1 DEF Jars
    <2>3. plain' \in [CookieNames -> CookieTexts \cup {Missing}]
      BY <1>0, <1>7 DEF UpdateFromDict, CookieDicts
    <2>4. foreign' \subseteq CookieNames
      BY <1>0, <1>7 DEF UpdateFromDict
    <2>5. Writes(new)
      BY <1>7 DEF UpdateFromDict
    <2>. QED  BY <2>2, <2>3, <2>4, <2>5, WriteTypes
  <1>8. ASSUME NEW dict \in CookieDicts, NEW overwrite \in BOOLEAN, AddDict(dict, overwrite)
        PROVE  TypeOK'
    <2>1. plain' \in [CookieNames -> CookieTexts \cup {Missing}]
      BY <1>0, <1>8 DEF AddDict, CookieDicts
    <2>. QED  BY <1>0, <1>8, <2>1, FromDictType, WriteTypes DEF AddDict
  <1>9. ASSUME NEW name \in CookieNames, NEW domain \in Domains \cup {None},
               NEW path \in Paths \cup {None}, Get(name, domain, path)
        PROVE  TypeOK'
    BY <1>0, <1>9, LookupType DEF Get, TypeOK, NamesOnce, Results
  <1>10. ASSUME NEW name \in CookieNames, GetCookieItem(name) \/ ContainsName(name) PROVE TypeOK'
    BY <1>0, <1>10, LookupType DEF GetCookieItem, ContainsName, TypeOK, NamesOnce, Results
  <1>11. ASSUME NEW name \in CookieNames, Pop(name) PROVE TypeOK'
    <2>1. got' \in Results
      BY <1>0, <1>11, LookupType DEF Pop, Results
    <2>2. jar' \in Jars
      BY <1>0, <1>11, RemoveType DEF Pop
    <2>. QED  BY <1>0, <1>11, <2>1, <2>2 DEF Pop, TypeOK, NamesOnce
  <1>12. ASSUME NEW name \in CookieNames, NEW value \in CookieTexts, SetDefault(name, value)
         PROVE  TypeOK'
    <2>1. got' \in Results
      BY <1>0, <1>12, LookupType DEF SetDefault, Results
    <2>2. jar' \in Jars
      BY <1>0, <1>12, AssignType DEF SetDefault
    <2>. QED  BY <1>0, <1>12, <2>1, <2>2 DEF SetDefault, TypeOK, NamesOnce
  <1>13. CASE PopItem
    BY <1>13 DEF PopItem, TypeOK, NamesOnce, Results
  <1>14. CASE UNCHANGED vars
    BY <1>14 DEF vars, TypeOK, NamesOnce
  <1>. QED
    BY <1>1, <1>2, <1>3, <1>4, <1>5, <1>6, <1>7, <1>8, <1>9, <1>10, <1>11, <1>12, <1>13,
       <1>14 DEF Next

\* The headers never hold a name twice, and the jar keeps its shape, for any
\* spellings, domains, paths and values (CaseInsensitiveDict,
\* RequestsCookieJar).
THEOREM TypeCorrect == Spec => []TypeOK
  BY InitTypes, StepTypes, PTL DEF Spec

-----------------------------------------------------------------------------
(* The headers are one map.                                                *)

LEMMA StepMaps ==
  ASSUME TypeOK, [Next]_vars
  PROVE  [HeaderMapping!Next]_([key \in Keys |-> GetItem(headers, key)])
  <1> DEFINE map == [key \in Keys |-> GetItem(headers, key)]
  <1>1. Store(headers)
    BY DEF TypeOK, NamesOnce, Store
  <1>2. ASSUME NEW key \in Keys, NEW value \in Texts \cup {None}, SetHeader(key, value)
        PROVE  HeaderMapping!Set(key, value)
    <2>1. \A k \in Keys : GetItem(headers', k) = IF k.name = key.name THEN value
                                                                     ELSE GetItem(headers, k)
      BY <1>1, <1>2, SetItemStores DEF SetHeader
    <2>. QED  BY <2>1 DEF HeaderMapping!Set
  <1>3. ASSUME NEW key \in Keys, DelHeader(key)
        PROVE  HeaderMapping!Remove(key)
    <2>1. Holds(headers, key.name) /\ map[key] # Missing
      BY <1>3 DEF DelHeader, GetItem
    <2>2. \A k \in Keys : GetItem(headers', k) = IF k.name = key.name THEN Missing
                                                                     ELSE GetItem(headers, k)
      BY <1>1, <1>3, <2>1, DelItemStores DEF DelHeader
    <2>. QED  BY <2>1, <2>2 DEF HeaderMapping!Remove
  <1>4. ASSUME headers' = headers PROVE map' = map
    BY <1>4
  <1>5. HeaderMapping!Next \/ headers' = headers
    BY <1>2, <1>3 DEF Next, vars, HeaderMapping!Next, SetCookieItem, SetCookieFor, DelCookieItem,
       ServerSets, UpdateFromJar, UpdateFromDict, AddDict, Writes, Get, GetCookieItem,
       ContainsName, Pop, PopItem, SetDefault
  <1>. QED  BY <1>4, <1>5

\* Whatever the spelling of the keys that are set, removed or looked up, the
\* ordered dict of CaseInsensitiveDict implements a map that ignores case.
THEOREM MapImplemented == Spec => HeadersAreAMap
  <1>1. Init => HeaderMapping!Init
    BY DEF Init, HeaderMapping!Init, GetItem, Holds
  <1>. QED  BY <1>1, TypeCorrect, StepMaps, PTL DEF Spec, HeadersAreAMap, HeaderMapping!Spec

-----------------------------------------------------------------------------
(* The jar read like a dict.                                               *)

\* A name that plain follows has no cookie but the one without a domain.
JarFollows ==
    \A name \in CookieNames \ foreign :
        /\ plain[name] \notin {None, Empty}
        /\ \A c \in Cookies : c.name = name =>
              jar[c] = IF c = CookieOf(name, None, None) THEN plain[name] ELSE Missing

LEMMA ShortCookie ==
  ASSUME NEW name \in CookieNames
  PROVE  CookieOf(name, None, None) \in Cookies /\ CookieOf(name, None, None).name = name
  BY DEF CookieOf, Cookies

\* What a lookup of such a name finds.
LEMMA FollowsLookup ==
  ASSUME TypeOK, JarFollows, NEW name \in CookieNames \ foreign
  PROVE  /\ Lookup(jar, name, None, None) = {plain[name]}
         /\ GetDict(jar, name) = {plain[name]}
  <1> DEFINE short == CookieOf(name, None, None)
             hits  == Matching(jar, name, None, None)
  <1>1. short \in Cookies /\ short.name = name
    BY ShortCookie
  <1>2. /\ plain[name] \notin {None, Empty}
        /\ \A c \in Cookies : c.name = name =>
              jar[c] = IF c = short THEN plain[name] ELSE Missing
    BY DEF JarFollows
  <1>. HIDE DEF short
  <1>3. CASE plain[name] = Missing
    <2>1. hits = {}
      BY <1>2, <1>3 DEF Matching
    <2>. QED  BY <1>3, <2>1 DEF Lookup, GetDict
  <1>4. CASE plain[name] # Missing
    <2>1. hits = {short} /\ jar[short] = plain[name]
      BY <1>1, <1>2, <1>4 DEF Matching
    <2>. HIDE DEF hits
    <2>2. Lookup(jar, name, None, None) = {plain[name]}
      <3>1. {c \in hits : jar[c] # None} = {short}
        BY <1>2, <2>1
      <3>. QED  BY <1>2, <2>1, <3>1 DEF Lookup, hits
    <2>3. GetDict(jar, name) = {plain[name]}
      BY <2>1 DEF GetDict, hits
    <2>. QED  BY <2>2, <2>3
  <1>. QED  BY <1>3, <1>4

LEMMA RemovedAll ==
  ASSUME NEW j \in Jars, NEW name, NEW c \in Cookies
  PROVE  RemoveByName(j, name, None, None)[c] = IF c.name = name THEN Missing ELSE j[c]
  BY DEF RemoveByName, Matching, Jars

LEMMA AssignedShort ==
  ASSUME NEW j \in Jars, NEW name \in CookieNames, NEW value \in CookieTexts \cup {None},
         NEW c \in Cookies
  PROVE  Assign(j, name, value, None, None)[c]
            = IF value = None THEN IF c.name = name THEN Missing ELSE j[c]
              ELSE IF c = CookieOf(name, None, None) THEN value ELSE j[c]
  BY RemovedAll, ShortCookie DEF Assign, SetCookie, Jars

LEMMA FollowsStep == TypeOK /\ JarFollows /\ [Next]_vars => JarFollows'
  <1> SUFFICES ASSUME TypeOK, JarFollows, [Next]_vars PROVE JarFollows'
    OBVIOUS
  <1>0. /\ jar \in Jars /\ foreign \subseteq CookieNames
        /\ plain \in [CookieNames -> CookieTexts \cup {Missing}]
    BY DEF TypeOK
  <1> DEFINE Follows(name) ==
                /\ plain[name] \notin {None, Empty}
                /\ \A c \in Cookies : c.name = name =>
                      jar[c] = IF c = CookieOf(name, None, None) THEN plain[name] ELSE Missing
  \* A name that is followed afterwards, and was before or has just been removed.
  <1> SUFFICES ASSUME NEW n \in CookieNames \ foreign' PROVE Follows(n)'
    BY DEF JarFollows
  <1>1. n \notin foreign => Follows(n)
    BY DEF JarFollows
  <1>2. CASE UNCHANGED <<jar, plain, foreign>>
    BY <1>1, <1>2
  <1>3. ASSUME NEW name \in CookieNames, NEW value \in CookieTexts \cup {None},
               SetCookieItem(name, value)
        PROVE  Follows(n)'
    <2>1. /\ jar' = Assign(jar, name, value, None, None)
          /\ plain' = [plain EXCEPT ![name] = IF value \in {None, Empty} THEN Missing ELSE value]
          /\ foreign' = IF value = None THEN foreign \ {name}
                        ELSE IF value = Empty THEN foreign \cup {name} ELSE foreign
      BY <1>3 DEF SetCookieItem, Writes
    <2>2. \A c \in Cookies : jar'[c] = IF value = None
                THEN IF c.name = name THEN Missing ELSE jar[c]
                ELSE IF c = CookieOf(name, None, None) THEN value ELSE jar[c]
      BY <1>0, <2>1, AssignedShort
    <2>3. CASE n = name
      BY <1>0, <1>1, <2>1, <2>2, <2>3
    <2>4. CASE n # name
      BY <1>0, <1>1, <2>1, <2>2, <2>4, ShortCookie
    <2>. QED  BY <2>3, <2>4
  <1>4. ASSUME NEW name \in CookieNames, DelCookieItem(name) PROVE Follows(n)'
    BY <1>0, <1>1, <1>4, RemovedAll DEF DelCookieItem, Writes
  <1>5. ASSUME NEW name \in CookieNames, NEW value, NEW domain, NEW path \in Paths \cup {None},
               SetCookieFor(name, value, domain, path)
        PROVE  Follows(n)'
    <2>1. /\ jar' = Assign(jar, name, value, domain, path) /\ plain' = plain
          /\ foreign' = foreign \cup {name}
      BY <1>5 DEF SetCookieFor, Writes
    <2>2. \A c \in Cookies : c.name = n => jar'[c] = jar[c]
      BY <1>0, <2>1 DEF Assign, SetCookie, RemoveByName, Matching, CookieOf, Jars
    <2>. QED  BY <1>1, <2>1, <2>2
  <1>6. ASSUME NEW domain, NEW path, NEW name, NEW value, ServerSets(domain, path, name, value)
        PROVE  Follows(n)'
    <2>1. /\ foreign' = foreign \cup {name} /\ plain' = plain
          /\ jar' = [jar EXCEPT ![[domain |-> domain, path |-> path, name |-> name]] = value]
      BY <1>6 DEF ServerSets, Writes, SetCookie
    <2>2. \A c \in Cookies : c.name = n => jar'[c] = jar[c]
      BY <1>0, <2>1 DEF Jars
    <2>. QED  BY <1>1, <2>1, <2>2
  <1>7. ASSUME NEW other \in OtherJars, UpdateFromJar(other) PROVE Follows(n)'
    <2>1. ~HasName(other, n) /\ n \notin foreign /\ plain' = plain /\ jar' = MergeJar(jar, other)
      BY <1>7 DEF UpdateFromJar, Writes
    <2>2. \A c \in Cookies : c.name = n => jar'[c] = jar[c]
      BY <2>1 DEF MergeJar, HasName
    <2>. QED  BY <1>1, <2>1, <2>2
  <1>8. ASSUME NEW dict \in CookieDicts, UpdateFromDict(dict) PROVE Follows(n)'
    <2>1. /\ plain'[n] = IF dict[n] = Missing THEN plain[n]
                         ELSE IF dict[n] \in {None, Empty} THEN Missing ELSE dict[n]
          /\ (n \notin foreign \/ dict[n] = None) /\ dict[n] # Empty
      BY <1>8 DEF UpdateFromDict
    <2>2. ASSUME NEW c \in Cookies, c.name = n
          PROVE  jar'[c] = IF dict[n] = Missing THEN jar[c]
                           ELSE IF dict[n] = None THEN Missing
                           ELSE IF c = CookieOf(n, None, None) THEN dict[n] ELSE jar[c]
      <3>1. jar'[c] = IF dict[n] = Missing THEN jar[c]
                      ELSE Assign(jar, n, dict[n], None, None)[c]
        BY <1>8, <2>2 DEF UpdateFromDict, Writes
      <3>2. dict[n] \in CookieTexts \cup {None, Missing}
        BY DEF CookieDicts
      <3>. QED  BY <1>0, <2>2, <3>1, <3>2, AssignedShort
    <2>. QED  BY <1>1, <2>1, <2>2
  <1>9. ASSUME NEW dict \in CookieDicts, NEW overwrite \in BOOLEAN, AddDict(dict, overwrite)
        PROVE  Follows(n)'
    <2>1. /\ n \notin foreign /\ dict[n] \notin {None, Empty}
          /\ plain'[n] = IF dict[n] # Missing /\ (overwrite \/ plain[n] = Missing)
                         THEN dict[n] ELSE plain[n]
          /\ jar' = FromDict(dict, jar, overwrite)
      BY <1>9 DEF AddDict, Writes
    <2>2. HasName(jar, n) <=> plain[n] # Missing
      BY <1>1, <2>1, ShortCookie DEF HasName
    <2>3. \A c \in Cookies : c.name = n =>
             jar'[c] = IF c = CookieOf(n, None, None) /\ dict[n] # Missing
                          /\ (overwrite \/ plain[n] = Missing)
                       THEN dict[n] ELSE jar[c]
      BY <2>1, <2>2 DEF FromDict
    <2>. QED  BY <1>1, <2>1, <2>3
  <1>10. ASSUME NEW name \in CookieNames, Pop(name) PROVE Follows(n)'
    BY <1>0, <1>1, <1>10, RemovedAll DEF Pop
  <1>11. ASSUME NEW name \in CookieNames, NEW value \in CookieTexts, SetDefault(name, value)
         PROVE  Follows(n)'
    <2>1. CASE UNCHANGED <<jar, plain, foreign>>
      BY <1>2, <2>1
    <2>2. CASE /\ value \notin {None, Empty}
               /\ jar' = Assign(jar, name, value, None, None)
               /\ plain' = [plain EXCEPT ![name] = value] /\ foreign' = foreign
      <3>1. \A c \in Cookies :
               jar'[c] = IF c = CookieOf(name, None, None) THEN value ELSE jar[c]
        BY <1>0, <2>2, AssignedShort
      <3>2. CASE n = name
        BY <1>0, <1>1, <2>2, <3>1, <3>2
      <3>3. CASE n # name
        BY <1>0, <1>1, <2>2, <3>1, <3>3, ShortCookie
      <3>. QED  BY <3>2, <3>3
    <2>. QED  BY <1>11, <2>1, <2>2 DEF SetDefault
  <1>. QED
    BY <1>2, <1>3, <1>4, <1>5, <1>6, <1>7, <1>8, <1>9, <1>10, <1>11
    DEF Next, vars, SetHeader, DelHeader, cookieVars, Get, GetCookieItem, ContainsName, PopItem

\* A name that was only written through the dict interface is read like one of
\* a plain dict, whatever happens to other names (RequestsCookieJar).
THEOREM ReadsLikeADict == Spec => []DictLike
  <1>1. Init => JarFollows
    BY ShortCookie DEF Init, JarFollows, EmptyJar
  <1>2. TypeOK /\ JarFollows => DictLike
    BY FollowsLookup DEF DictLike
  <1>. QED  BY <1>1, <1>2, TypeCorrect, FollowsStep, PTL DEF Spec

-----------------------------------------------------------------------------
(* Calls that raise, and what a request sends.                             *)

\* A call on the jar that raises KeyError or CookieConflictError changes
\* nothing (pop, setdefault).
THEOREM RaisingIsSafe == Spec => RaisingChangesNothing
  <1>1. TypeOK /\ [Next]_vars => [got' \in {Missing, Conflict} => jar' = jar]_vars
    <2> SUFFICES ASSUME TypeOK, Next, got' \in {Missing, Conflict} PROVE jar' = jar
      OBVIOUS
    <2>1. \A newJar : ~Writes(newJar)
      BY DEF Writes
    <2>2. ASSUME NEW name \in CookieNames, NEW value \in CookieTexts, SetDefault(name, value)
          PROVE  jar' = jar
      BY <2>2 DEF SetDefault
    <2>. QED
      BY <2>1, <2>2 DEF Next, SetHeader, DelHeader, cookieVars, SetCookieItem, SetCookieFor,
         DelCookieItem, ServerSets, UpdateFromJar, UpdateFromDict, AddDict, Get,
         GetCookieItem, ContainsName, Pop, PopItem
  <1>. QED  BY <1>1, TypeCorrect, PTL DEF Spec, RaisingChangesNothing

-----------------------------------------------------------------------------
(* What merge_setting makes of two mappings.                               *)

Stores == {s \in Seq(Items) : Store(s)}

\* update sets the items one after the other.
LEMMA UpdateFold ==
  ASSUME NEW store \in Stores, NEW items \in Seq(Items)
  PROVE  \E h : /\ h \in [0..Len(items) -> Stores]
                /\ h[0] = store
                /\ \A n \in 1..Len(items) :
                      h[n] = SetItem(h[n - 1], items[n].key, items[n].value)
                /\ Update(store, items) = h[Len(items)]
  <1> DEFINE F == [p \in Stores \X Items |-> SetItem(p[1], p[2].key, p[2].value)]
             Eq(f) == f = [s \in SUBSET DOMAIN items |->
                              IF s = {} THEN store
                              ELSE SetItem(f[s \ {Max(s)}], items[Max(s)].key,
                                           items[Max(s)].value)]
             it == CHOOSE f : Eq(f)
  <1>1. ASSUME NEW s \in Stores, NEW item \in Items
        PROVE  SetItem(s, item.key, item.value) \in Stores
    <2>1. item.key \in Keys /\ item.value \in Texts \cup {None} /\ Store(s)
      BY DEF Items, Stores
    <2>2. Store(SetItem(s, item.key, item.value))
      BY <2>1, SetItemStores
    <2>. QED  BY <2>2 DEF Stores, Store
  <1>2. F \in [Stores \X Items -> Stores]
    BY <1>1
  <1>3. \A s \in Stores, item \in Items : F[<<s, item>>] = SetItem(s, item.key, item.value)
    OBVIOUS
  <1>. HIDE DEF F
  <1>4. PICK g : Solves(g, Stores, Items, F, store, items)
    BY <1>2, SolutionExists
  <1>5. Eq(g)
    BY <1>3, <1>4 DEF Solves
  <1>6. Eq(it)
    <2>. HIDE DEF Eq
    <2>. QED  BY <1>5
  <1>7. Update(store, items) = it[DOMAIN items]
    BY DEF Update, FoldLeft, MapThenFoldSet
  <1>. HIDE DEF it
  <1>8. Unrolls(it, Stores, Items, F, store, items)
    BY <1>3, <1>6, ZenonT(60) DEF Unrolls
  <1>. HIDE DEF Eq
  <1>9. PICK h : Folds(h, Stores, F, store, items) /\ Yields(it, items, h)
    BY <1>2, <1>8, FoldSteps
  <1>10. ASSUME NEW n \in 1..Len(items)
         PROVE  h[n] = SetItem(h[n - 1], items[n].key, items[n].value)
    <2>1. n - 1 \in 0..Len(items) /\ items[n] \in Items
      OBVIOUS
    <2>. QED  BY <1>3, <1>9, <2>1 DEF Folds
  <1>. QED  BY <1>7, <1>9, <1>10 DEF Folds, Yields

\* The last of the first n items that has the name.
IsLast(items, n, i, name) ==
    /\ i \in 1..n /\ items[i].key.name = name
    /\ \A j \in 1..n : items[j].key.name = name => j <= i

\* s reads like store after the first n items were set.
ReadsAfter(s, store, items, n) ==
    \A k \in Keys :
        /\ \A i \in 1..n : IsLast(items, n, i, k.name) => GetItem(s, k) = items[i].value
        /\ (\A i \in 1..n : items[i].key.name # k.name) => GetItem(s, k) = GetItem(store, k)

LEMMA UpdateReads ==
  ASSUME NEW store \in Stores, NEW items \in Seq(Items)
  PROVE  /\ Update(store, items) \in Stores
         /\ ReadsAfter(Update(store, items), store, items, Len(items))
  <1>1. PICK h : /\ h \in [0..Len(items) -> Stores]
                 /\ h[0] = store
                 /\ \A n \in 1..Len(items) :
                       h[n] = SetItem(h[n - 1], items[n].key, items[n].value)
                 /\ Update(store, items) = h[Len(items)]
    BY UpdateFold
  <1> DEFINE T == {n \in Nat : ReadsAfter(h[n], store, items, n)}
  <1>2. 0 \in T
    <2>1. 1..0 = {}
      OBVIOUS
    <2>2. ReadsAfter(h[0], store, items, 0)
      BY <1>1, <2>1 DEF ReadsAfter
    <2>. QED  BY <2>2
  <1>3. ASSUME NEW n \in 0..(Len(items) - 1), n \in T
        PROVE  n + 1 \in T
    <2> DEFINE item == items[n + 1]
    <2>1. /\ n \in Nat /\ n + 1 \in 1..Len(items) /\ (n + 1) - 1 = n /\ item \in Items
          /\ \A i \in 1..(n + 1) : i \in 1..n \/ i = n + 1
          /\ \A i \in 1..n : i \in 1..(n + 1) /\ i < n + 1 /\ ~(n + 1 <= i)
          /\ n + 1 \in 1..(n + 1)
      OBVIOUS
    <2>2. /\ item.key \in Keys /\ item.value \in Texts \cup {None}
          /\ Store(h[n])
      BY <1>1, <2>1 DEF Items, Stores
    <2>3. h[n + 1] = SetItem(h[n], item.key, item.value)
      BY <1>1, <2>1
    <2>4. \A k \in Keys : GetItem(h[n + 1], k)
              = IF k.name = item.key.name THEN item.value ELSE GetItem(h[n], k)
      BY <2>2, <2>3, SetItemStores
    <2>5. ReadsAfter(h[n], store, items, n)
      BY <1>3
    <2>6. ASSUME NEW k \in Keys, NEW i \in 1..(n + 1), IsLast(items, n + 1, i, k.name)
          PROVE  GetItem(h[n + 1], k) = items[i].value
      <3>1. CASE i = n + 1
        BY <2>4, <2>6, <3>1 DEF IsLast
      <3>2. CASE i \in 1..n
        <4>1. item.key.name # k.name
          BY <2>1, <2>6, <3>2 DEF IsLast
        <4>2. IsLast(items, n, i, k.name)
          BY <2>1, <2>6, <3>2 DEF IsLast
        <4>. QED  BY <2>4, <2>5, <3>2, <4>1, <4>2 DEF ReadsAfter
      <3>. QED  BY <2>1, <3>1, <3>2
    <2>7. ASSUME NEW k \in Keys, \A i \in 1..(n + 1) : items[i].key.name # k.name
          PROVE  GetItem(h[n + 1], k) = GetItem(store, k)
      BY <2>1, <2>4, <2>5, <2>7 DEF ReadsAfter
    <2>8. ReadsAfter(h[n + 1], store, items, n + 1)
      BY <2>6, <2>7 DEF ReadsAfter
    <2>. QED  BY <2>1, <2>8
  <1>4. Len(items) \in Nat /\ Len(items) \in 0..Len(items)
    OBVIOUS
  <1>. HIDE DEF T
  <1>5. Len(items) \in T
    BY <1>2, <1>3, <1>4, BoundedInduction
  <1>. QED  BY <1>1, <1>4, <1>5 DEF T

\* A dict made of the items of a dict reads like it.
LEMMA CopyReads ==
  ASSUME NEW items \in Stores
  PROVE  /\ FromItems(items) \in Stores
         /\ \A k \in Keys : GetItem(FromItems(items), k) = GetItem(items, k)
  <1>1. <<>> \in Stores /\ items \in Seq(Items) /\ Store(items)
    BY DEF Stores, Store
  <1>2. /\ FromItems(items) \in Stores
        /\ ReadsAfter(FromItems(items), <<>>, items, Len(items))
    BY <1>1, UpdateReads DEF FromItems
  <1>3. ASSUME NEW k \in Keys
        PROVE  GetItem(FromItems(items), k) = GetItem(items, k)
    <2>1. CASE Holds(items, k.name)
      <3> DEFINE p == Position(items, k.name)
      <3>1. p \in DOMAIN items /\ items[p].key.name = k.name
        BY <2>1, PositionHolds
      <3>2. p \in 1..Len(items) /\ DOMAIN items = 1..Len(items)
        BY <1>1, <3>1
      <3>. HIDE DEF p
      <3>3. IsLast(items, Len(items), p, k.name)
        BY <1>1, <3>1, <3>2 DEF IsLast, Store
      <3>4. GetItem(FromItems(items), k) = items[p].value
        BY <1>2, <3>2, <3>3 DEF ReadsAfter
      <3>. QED  BY <2>1, <3>4 DEF GetItem, p
    <2>2. CASE ~Holds(items, k.name)
      <3>1. \A i \in 1..Len(items) : items[i].key.name # k.name
        BY <1>1, <2>2 DEF Holds
      <3>2. GetItem(FromItems(items), k) = GetItem(<<>>, k)
        BY <1>2, <3>1 DEF ReadsAfter
      <3>3. ~Holds(<<>>, k.name)
        BY DEF Holds
      <3>. QED  BY <2>2, <3>2, <3>3 DEF GetItem
    <2>. QED  BY <2>1, <2>2
  <1>. QED  BY <1>2, <1>3

\* The values that the items have for a name.
Given(items, name) == {i \in DOMAIN items : items[i].key.name = name}

LEMMA LastOfGiven ==
  ASSUME NEW items \in Seq(Items), NEW name, Given(items, name) # {}
  PROVE  LET i == CHOOSE i \in Given(items, name) : \A j \in Given(items, name) : j <= i
         IN  IsLast(items, Len(items), i, name)
  <1> DEFINE G == Given(items, name)
  <1>1. G \in SUBSET DOMAIN items /\ DOMAIN items = 1..Len(items)
    BY DEF Given
  <1>. HIDE DEF G
  <1>2. G # {}
    BY DEF G
  <1>3. \E i \in G : \A j \in G : j <= i
    <2>1. \E k \in G : \A j \in G : k >= j
      BY <1>1, <1>2, MaxExists
    <2>. QED  BY <1>1, <2>1
  <1> DEFINE i == CHOOSE i \in G : \A j \in G : j <= i
  <1>4. i \in G /\ \A j \in G : j <= i
    BY <1>3
  <1>. HIDE DEF i
  <1>5. IsLast(items, Len(items), i, name)
    BY <1>1, <1>4 DEF G, Given, IsLast
  <1>. QED  BY <1>5 DEF i, G

\* What is sent for a name: MergeSetting over any request and session items.
LEMMA MergedReads ==
  ASSUME NEW given \in Seq(Items), NEW items \in Stores, NEW key \in Keys
  PROVE  LET merged == MergeSetting(given, items)
             all    == Update(FromItems(items), given)
         IN  /\ merged \in Seq(Items)
             /\ {merged[i].value : i \in Given(merged, key.name)}
                    = {GetItem(all, key)} \ {None, Missing}
  <1> DEFINE all    == Update(FromItems(items), given)
             merged == Filter(all, Sent)
  <1>1. all \in Stores
    BY CopyReads, UpdateReads
  <1>2. all \in Seq(Items) /\ Store(all)
    BY <1>1 DEF Stores
  <1>. HIDE DEF all
  <1>3. merged \in Seq(Items) /\ \E at : Selects(at, merged, all, Len(all), Sent)
    BY <1>2, FilterSelects
  <1>. HIDE DEF merged
  <1>4. PICK at : Selects(at, merged, all, Len(all), Sent)
    BY <1>3
  <1>5. /\ DOMAIN merged = 1..Len(merged) /\ DOMAIN all = 1..Len(all)
        /\ \A j \in 1..Len(merged) : merged[j] = all[at[j]] /\ merged[j] \in Sent
                                       /\ at[j] \in DOMAIN all
    <2>1. DOMAIN merged = 1..Len(merged) /\ DOMAIN all = 1..Len(all)
      BY <1>2, <1>3
    <2>2. at \in [1..Len(merged) -> 1..Len(all)]
      BY <1>4 DEF Selects
    <2>3. \A j \in 1..Len(merged) : merged[j] = all[at[j]] /\ merged[j] \in Sent
      BY <1>4 DEF Selects
    <2>. QED  BY <2>1, <2>2, <2>3
  <1>6. \A i \in DOMAIN all : all[i] \in Sent <=> all[i].value # None
    BY <1>2 DEF Sent
  <1>7. {merged[i].value : i \in Given(merged, key.name)} = {GetItem(all, key)} \ {None, Missing}
    <2>1. CASE Holds(all, key.name)
      <3> DEFINE p == Position(all, key.name)
      <3>1. p \in DOMAIN all /\ all[p].key.name = key.name
        BY <2>1, PositionHolds
      <3>2. GetItem(all, key) = all[p].value
        BY <2>1 DEF GetItem
      <3>. HIDE DEF p
      <3>3. all[p].value # Missing
        <4>1. all[p] \in Items
          BY <1>2, <3>1
        <4>2. all[p].value \in Texts \cup {None}
          BY <4>1 DEF Items
        <4>. QED  BY <4>2, ValueAssumption
      <3>4. \A j \in Given(merged, key.name) : merged[j] = all[p] /\ all[p].value # None
        BY <1>2, <1>5, <1>6, <3>1 DEF Given, Store
      <3>5. CASE all[p].value = None
        BY <3>2, <3>4, <3>5
      <3>6. CASE all[p].value # None
        <4>1. \E j \in 1..Len(merged) : at[j] = p
          BY <1>4, <1>5, <1>6, <3>1, <3>6 DEF Selects
        <4>2. \E j \in Given(merged, key.name) : TRUE
          BY <1>5, <3>1, <4>1 DEF Given
        <4>. QED  BY <3>2, <3>3, <3>4, <3>6, <4>2
      <3>. QED  BY <3>5, <3>6
    <2>2. CASE ~Holds(all, key.name)
      <3>1. Given(merged, key.name) = {}
        BY <1>5, <2>2 DEF Given, Holds
      <3>. QED  BY <2>2, <3>1 DEF GetItem
    <2>. QED  BY <2>1, <2>2
  <1>. QED  BY <1>3, <1>7 DEF MergeSetting, merged, all

\* The value that is sent for a name, as HeadersMerged states it.
LEMMA MergedFollows ==
  ASSUME NEW given \in Seq(Items), NEW items \in Stores, NEW name \in Names
  PROVE  LET merged == MergeSetting(given, items)
             last(s) == s[CHOOSE i \in Given(s, name) : \A j \in Given(s, name) : j <= i]
             value == IF Given(given, name) # {} THEN last(given).value
                      ELSE IF Given(items, name) # {} THEN last(items).value
                      ELSE None
         IN  {merged[i].value : i \in Given(merged, name)} = {value} \ {None}
  <1> DEFINE merged == MergeSetting(given, items)
             pos(s) == CHOOSE i \in Given(s, name) : \A j \in Given(s, name) : j <= i
             last(s) == s[pos(s)]
             value == IF Given(given, name) # {} THEN last(given).value
                      ELSE IF Given(items, name) # {} THEN last(items).value
                      ELSE None
  <1>. SUFFICES {merged[i].value : i \in Given(merged, name)} = {value} \ {None}
    OBVIOUS
  <1>1. items \in Seq(Items) /\ Store(items)
    BY DEF Stores
  <1>2. \A s \in Seq(Items) : Given(s, name) # {} => IsLast(s, Len(s), pos(s), name)
    BY LastOfGiven
  <1>3. merged \in Seq(Items)
    <2>1. FromItems(items) \in Stores
      BY CopyReads
    <2>2. Update(FromItems(items), given) \in Seq(Items)
      BY <2>1, UpdateReads DEF Stores
    <2>. QED  BY <2>2, FilterSelects DEF MergeSetting
  <1>. HIDE DEF pos, merged
  <1>4. CASE \E key \in Keys : key.name = name
    <2>1. PICK key \in Keys : key.name = name
      BY <1>4
    <2> DEFINE all == Update(FromItems(items), given)
    <2>2. {merged[i].value : i \in Given(merged, name)} = {GetItem(all, key)} \ {None, Missing}
      BY <2>1, MergedReads DEF merged
    <2>3. /\ FromItems(items) \in Stores
          /\ GetItem(FromItems(items), key) = GetItem(items, key)
      BY CopyReads
    <2>4. ReadsAfter(all, FromItems(items), given, Len(given))
      BY <2>3, UpdateReads
    <2>. HIDE DEF all
    <2>5. CASE Given(given, name) # {}
      <3>1. IsLast(given, Len(given), pos(given), name)
        BY <1>2, <2>5
      <3>2. pos(given) \in 1..Len(given)
        BY <3>1 DEF IsLast
      <3>3. GetItem(all, key) = given[pos(given)].value
        BY <2>1, <2>4, <3>1, <3>2 DEF ReadsAfter
      <3>4. given[pos(given)].value # Missing
        <4>1. given[pos(given)] \in Items
          BY <3>2
        <4>2. given[pos(given)].value \in Texts \cup {None}
          BY <4>1 DEF Items
        <4>. QED  BY <4>2, ValueAssumption
      <3>. QED  BY <2>2, <2>5, <3>3, <3>4
    <2>6. CASE Given(given, name) = {}
      <3>1. \A i \in 1..Len(given) : given[i].key.name # key.name
        BY <2>1, <2>6 DEF Given
      <3>2. GetItem(all, key) = GetItem(items, key)
        BY <2>3, <2>4, <3>1 DEF ReadsAfter
      <3>3. CASE Given(items, name) # {}
        <4>1. pos(items) \in 1..Len(items) /\ items[pos(items)].key.name = name
          BY <1>1, <1>2, <3>3 DEF IsLast
        <4>2. Holds(items, name)
          BY <1>1, <4>1 DEF Holds
        <4>3. Position(items, name) = pos(items)
          BY <1>1, <4>1, <4>2, PositionHolds DEF Store
        <4>4. GetItem(items, key) = items[pos(items)].value
          BY <2>1, <4>2, <4>3 DEF GetItem
        <4>5. items[pos(items)].value # Missing
          <5>1. items[pos(items)] \in Items
            BY <1>1, <4>1
          <5>2. items[pos(items)].value \in Texts \cup {None}
            BY <5>1 DEF Items
          <5>. QED  BY <5>2, ValueAssumption
        <4>. QED  BY <2>2, <2>6, <3>2, <3>3, <4>4, <4>5
      <3>4. CASE Given(items, name) = {}
        <4>1. ~Holds(items, name)
          BY <3>4 DEF Holds, Given
        <4>2. GetItem(items, key) = Missing
          BY <2>1, <4>1 DEF GetItem
        <4>. QED  BY <2>2, <2>6, <3>2, <3>4, <4>2
      <3>. QED  BY <3>3, <3>4
    <2>. QED  BY <2>5, <2>6
  <1>5. CASE ~\E key \in Keys : key.name = name
    <2>1. \A s \in Seq(Items) : Given(s, name) = {}
      <3>. SUFFICES ASSUME NEW s \in Seq(Items), NEW i \in DOMAIN s
                    PROVE  s[i].key.name # name
        BY DEF Given
      <3>1. s[i].key \in Keys
        <4>1. s[i] \in Items
          OBVIOUS
        <4>. QED  BY <4>1 DEF Items
      <3>. QED  BY <1>5, <3>1
    <2>2. Given(given, name) = {} /\ Given(items, name) = {} /\ Given(merged, name) = {}
      BY <1>1, <1>3, <2>1
    <2>. QED  BY <2>2
  <1>. QED  BY <1>4, <1>5

\* merge_setting for the headers, whatever the settings are that the session
\* was given before: the request's last spelling of a name decides, else the
\* session's, and None takes the header away.
THEOREM HeadersAreMerged == Spec => []HeadersMerged
<1>1. TypeOK => HeadersMerged
  <2>. SUFFICES ASSUME TypeOK, NEW given \in RequestHeaders, NEW name \in Names
                PROVE  LET merged == MergeSetting(given, headers)
                           of(items) == {i \in DOMAIN items : items[i].key.name = name}
                           last(items) == items[CHOOSE i \in of(items) :
                                                    \A j \in of(items) : j <= i]
                           value == IF of(given) # {} THEN last(given).value
                                    ELSE IF of(headers) # {} THEN last(headers).value
                                    ELSE None
                       IN  {merged[i].value : i \in of(merged)} = {value} \ {None}
    BY DEF HeadersMerged
  <2>1. headers \in Stores
    BY DEF TypeOK, NamesOnce, Stores, Store
  <2>2. given \in Seq(Items)
    <3>1. \A i \in Items : <<i>> \in Seq(Items)
      OBVIOUS
    <3>2. ASSUME NEW s \in Items \X Items
          PROVE  s \in Seq(Items)
      <4>1. PICK a \in Items, b \in Items : s = <<a, b>>
        OBVIOUS
      <4>2. <<a, b>> \in Seq(Items)
        OBVIOUS
      <4>. QED  BY <4>1, <4>2, Zenon
    <3>3. <<>> \in Seq(Items)
      OBVIOUS
    <3>. QED  BY <3>1, <3>2, <3>3 DEF RequestHeaders
  <2>. QED  BY <2>1, <2>2, MergedFollows DEF Given
<1>. QED  BY <1>1, TypeCorrect, PTL
=============================================================================
