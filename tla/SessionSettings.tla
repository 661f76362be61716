--------------------------- MODULE SessionSettings ---------------------------
(***************************************************************************)
(* The settings a Session keeps between requests and a caller changes      *)
(* through their dict interfaces (requests/sessions.py Session.headers and *)
(* Session.cookies), and what merge_setting and prepare_request make of    *)
(* them together with the arguments of a request.                          *)
(*                                                                         *)
(* plain and foreign are history: what a plain dict would hold if it had   *)
(* been written like the jar, and the names for which the comparison is    *)
(* off because a cookie was set for a domain or a path, by a server, or    *)
(* with an empty value.                                                    *)
(*                                                                         *)
(* A definition named D_Variant is D as a plausible mistake would have it; *)
(* nothing uses it.                                                        *)
(***************************************************************************)
EXTENDS CaseInsensitiveDict, CookieDict, SequenceOperators

CONSTANT OtherJars   \* the jars a caller merges into the session's

ASSUME SettingsAssumption ==
    /\ OtherJars \subseteq Jars
    /\ {Missing, Conflict} \cap {"done", "yes", "no"} = {}

VARIABLES
    headers,   \* the items of Session.headers, first to last
    jar,       \* Session.cookies
    got,       \* what the last call on the jar returned or raised
    plain,     \* history: a plain dict under the same calls
    foreign    \* history: the names that plain does not follow

cookieVars == <<jar, got, plain, foreign>>
vars == <<headers, jar, got, plain, foreign>>

Results == CookieTexts \cup {None, Missing, Conflict, "done", "yes", "no"}

Init ==
    /\ headers = <<>>
    /\ jar = EmptyJar
    /\ got = "done"
    /\ plain = [n \in CookieNames |-> Missing]
    /\ foreign = {}

-----------------------------------------------------------------------------
(* Session.headers.                                                        *)

SetHeader(key, value) ==
    /\ headers' = SetItem(headers, key, value)
    /\ UNCHANGED cookieVars

DelHeader(key) ==
    /\ GetItem(headers, key) # Missing
    /\ headers' = DelItem(headers, key)
    /\ UNCHANGED cookieVars

-----------------------------------------------------------------------------
(* Session.cookies: the calls that write.                                  *)

Writes(newJar) == jar' = newJar /\ got' = "done" /\ UNCHANGED headers

\* __setitem__ is set without a domain or a path; None removes the name.
SetCookieItem(name, value) ==
    /\ Writes(Assign(jar, name, value, None, None))
    /\ plain' = [plain EXCEPT ![name] = IF value \in {None, Empty} THEN Missing
                                                                  ELSE value]
    /\ foreign' = IF value = None THEN foreign \ {name}
                  ELSE IF value = Empty THEN foreign \cup {name}
                  ELSE foreign

\* set with a domain or a path.
SetCookieFor(name, value, domain, path) ==
    /\ domain # None \/ path # None
    /\ Writes(Assign(jar, name, value, domain, path))
    /\ foreign' = foreign \cup {name}
    /\ UNCHANGED plain

\* Mutant: only the cookie without a domain is removed.
DelCookieItem_DefaultOnly(name) ==
    /\ Writes(RemoveByName(jar, name, NoDomain, Root))
    /\ plain' = [plain EXCEPT ![name] = Missing]
    /\ foreign' = foreign \ {name}

\* __delitem__ removes the name from every domain and path, and raises nothing.
DelCookieItem(name) ==
    /\ Writes(RemoveByName(jar, name, None, None))
    /\ plain' = [plain EXCEPT ![name] = Missing]
    /\ foreign' = foreign \ {name}

\* Session.send keeps the cookies of a response.
ServerSets(domain, path, name, value) ==
    /\ domain # NoDomain
    /\ Writes(SetCookie(jar, [domain |-> domain, path |-> path, name |-> name],
                        value))
    /\ foreign' = foreign \cup {name}
    /\ UNCHANGED plain

UpdateFromJar(other) ==
    /\ Writes(MergeJar(jar, other))
    /\ foreign' = foreign \cup {n \in CookieNames : HasName(other, n)}
    /\ UNCHANGED plain

\* update with a dict (of MutableMapping): __setitem__ for every key.
UpdateFromDict(dict) ==
    /\ Writes([c \in Cookies |-> IF dict[c.name] = Missing THEN jar[c]
                                 ELSE Assign(jar, c.name, dict[c.name], None, None)[c]])
    /\ plain' = [n \in CookieNames |->
                    IF dict[n] = Missing THEN plain[n]
                    ELSE IF dict[n] \in {None, Empty} THEN Missing ELSE dict[n]]
    /\ foreign' = {n \in foreign : dict[n] # None} \cup {n \in CookieNames : dict[n] = Empty}

\* add_dict_to_cookiejar, which overwrites, and merge_cookies with a dict,
\* which does not.
AddDict(dict, overwrite) ==
    /\ Writes(FromDict(dict, jar, overwrite))
    /\ foreign' = foreign \cup {n \in CookieNames : dict[n] \in {None, Empty}}
    /\ plain' = [n \in CookieNames |->
                    IF /\ dict[n] \notin {Missing, None, Empty}
                       /\ overwrite \/ plain[n] = Missing
                    THEN dict[n] ELSE plain[n]]

-----------------------------------------------------------------------------
(* Session.cookies: the calls that look something up first.                *)

\* get returns the default, None, where [] raises KeyError.
Get(name, domain, path) ==
    /\ \E found \in Lookup(jar, name, domain, path) :
           got' = IF found = Missing THEN None ELSE found
    /\ UNCHANGED <<headers, jar, plain, foreign>>

GetCookieItem(name) ==
    /\ got' \in Lookup(jar, name, None, None)
    /\ UNCHANGED <<headers, jar, plain, foreign>>

\* __contains__: a conflict means yes.
ContainsName(name) ==
    /\ \E found \in Lookup(jar, name, None, None) :
           got' = IF found = Missing THEN "no" ELSE "yes"
    /\ UNCHANGED <<headers, jar, plain, foreign>>

\* Mutant: the cookies are removed before the value is looked up.
Pop_RemovesFirst(name) ==
    /\ got' \in Lookup(jar, name, None, None)
    /\ jar' = RemoveByName(jar, name, None, None)
    /\ plain' = [plain EXCEPT ![name] = Missing]
    /\ foreign' = foreign \ {name}
    /\ UNCHANGED headers

\* pop (of MutableMapping): __getitem__, which may raise, then __delitem__.
Pop(name) ==
    /\ got' \in Lookup(jar, name, None, None)
    /\ IF got' \in {Missing, Conflict} THEN UNCHANGED <<jar, plain, foreign>>
       ELSE /\ jar' = RemoveByName(jar, name, None, None)
            /\ plain' = [plain EXCEPT ![name] = Missing]
            /\ foreign' = foreign \ {name}
    /\ UNCHANGED headers

\* popitem (of MutableMapping) looks up the Cookie that iteration yields as
\* if it were a name.
PopItem == got' = Missing /\ UNCHANGED <<headers, jar, plain, foreign>>

\* setdefault (of MutableMapping): __getitem__, on KeyError __setitem__.
SetDefault(name, value) ==
    /\ value \notin {None, Empty}
    /\ \E found \in Lookup(jar, name, None, None) :
          IF found = Missing
          THEN /\ got' = value
               /\ jar' = Assign(jar, name, value, None, None)
               /\ plain' = [plain EXCEPT ![name] = value]
          ELSE got' = found /\ UNCHANGED <<jar, plain>>
    /\ UNCHANGED <<headers, foreign>>

Next ==
    \/ \E key \in Keys : \/ \E value \in Texts \cup {None} : SetHeader(key, value)
                         \/ DelHeader(key)
    \/ \E name \in CookieNames :
          \/ DelCookieItem(name) \/ GetCookieItem(name)
          \/ ContainsName(name) \/ Pop(name)
          \/ \E value \in CookieTexts \cup {None} : SetCookieItem(name, value)
          \/ \E value \in CookieTexts : SetDefault(name, value)
          \/ \E domain \in Domains \cup {None}, path \in Paths \cup {None} :
                \/ Get(name, domain, path)
                \/ \E value \in CookieTexts \cup {None} :
                      SetCookieFor(name, value, domain, path)
          \/ \E domain \in Domains, path \in Paths, value \in CookieTexts \cup {None} :
                ServerSets(domain, path, name, value)
    \/ \E other \in OtherJars : UpdateFromJar(other)
    \/ \E dict \in CookieDicts : \/ UpdateFromDict(dict)
                               \/ \E overwrite \in BOOLEAN : AddDict(dict, overwrite)
    \/ PopItem

Spec == Init /\ [][Next]_vars

-----------------------------------------------------------------------------
(* What prepare_request makes of the settings.                             *)

Sent == {item \in Items : item.value # None}

\* Mutant: the keys set to None are only taken from the request's items.
MergeSetting_KeepsSessionNone(requestItems, sessionItems) ==
    Update(FromItems(sessionItems), Filter(requestItems, Sent))

\* merge_setting of two mappings, with dict_class=CaseInsensitiveDict.
MergeSetting(requestItems, sessionItems) ==
    Filter(Update(FromItems(sessionItems), requestItems), Sent)
-----------------------------------------------------------------------------
(* Properties.                                                             *)

\* One item for each name, however it was spelled (CaseInsensitiveDict).
NamesOnce ==
    \A i, j \in DOMAIN headers :
        headers[i].key.name = headers[j].key.name => i = j

\* Type invariant: the dict, with no name twice, and the jar keep their shape.
TypeOK ==
    /\ headers \in Seq(Items) /\ NamesOnce
    /\ jar \in Jars
    /\ got \in Results
    /\ plain \in [CookieNames -> CookieTexts \cup {Missing}]
    /\ foreign \subseteq CookieNames

HeaderMapping == INSTANCE HeaderMap
    WITH Values <- Texts \cup {None},
         map <- [key \in Keys |-> GetItem(headers, key)]

\* Whatever the spelling of the key that is set, removed or looked up, the
\* headers are one map: CaseInsensitiveDict implements HeaderMap.
HeadersAreAMap == HeaderMapping!Spec

\* The headers a caller may give with a request: no key twice.
RequestHeaders ==
    {<<>>} \cup {<<i>> : i \in Items}
           \cup {s \in Items \X Items : s[1].key # s[2].key}

\* What is sent for a name: the request's last spelling of it decides, else
\* the session; None takes the header away in any spelling (merge_setting).
HeadersMerged ==
    \A given \in RequestHeaders, name \in Names :
        LET merged == MergeSetting(given, headers)
            of(items) == {i \in DOMAIN items : items[i].key.name = name}
            last(items) == items[CHOOSE i \in of(items) : \A j \in of(items) : j <= i]
            value == IF of(given) # {} THEN last(given).value
                     ELSE IF of(headers) # {} THEN last(headers).value
                     ELSE None
        IN  {merged[i].value : i \in of(merged)} = {value} \ {None}

\* A name that was only written through the dict interface is read like one
\* of a plain dict, as long as no value is empty (RequestsCookieJar is a
\* MutableMapping).
DictLike ==
    \A name \in CookieNames \ foreign :
        /\ Lookup(jar, name, None, None) = {plain[name]}
        /\ GetDict(jar, name) = {plain[name]}

\* A call on the jar that raises has changed nothing: pop does not lose a
\* cookie it could not choose.
RaisingChangesNothing ==
    [][got' \in {Missing, Conflict} => jar' = jar]_vars
=============================================================================
