----------------------------- MODULE CookieDict -----------------------------
(***************************************************************************)
(* requests/cookies.py: the dict interface of RequestsCookieJar, and the   *)
(* helpers that fill a jar.  A jar is a function from cookies, identified  *)
(* as cookielib does by domain, path and name, to their values.  A cookie  *)
(* may have the value None ('Set-Cookie: a', or a None in a cookies dict). *)
(*                                                                         *)
(* The order in which a jar iterates over its cookies depends on how it    *)
(* was filled and on the Python version; where it decides what the caller  *)
(* gets, an operator returns the set of the possible results.              *)
(***************************************************************************)
EXTENDS PythonValues

CONSTANTS
    Conflict,     \* as a result, CookieConflictError
    CookieNames,
    Domains,
    Paths,
    NoDomain,     \* the empty domain: sent to every host
    Root,         \* the path '/'
    CookieTexts,
    Empty         \* the empty string

ASSUME CookieAssumption ==
    /\ NoDomain \in Domains /\ Root \in Paths /\ Empty \in CookieTexts
    /\ None \notin Domains \cup Paths \cup CookieTexts
    /\ {Missing, Conflict} \cap (CookieTexts \cup {None}) = {}
    /\ Missing # Conflict

Cookies == [domain : Domains, path : Paths, name : CookieNames]

Jars == [Cookies -> CookieTexts \cup {None, Missing}]

EmptyJar == [c \in Cookies |-> Missing]

\* A cookies dict a caller passes: one value, or no key.
CookieDicts == [CookieNames -> CookieTexts \cup {None, Missing}]

\* What remove_cookie_by_name and _find_no_duplicates look for.
Matching(jar, name, domain, path) ==
    {c \in Cookies : /\ jar[c] # Missing
                     /\ c.name = name
                     /\ domain \in {None, c.domain}
                     /\ path \in {None, c.path}}

\* remove_cookie_by_name
RemoveByName(jar, name, domain, path) ==
    [c \in Cookies |-> IF c \in Matching(jar, name, domain, path) THEN Missing
                                                                ELSE jar[c]]

\* create_cookie: the cookie that a name and the keyword arguments stand for.
CookieOf(name, domain, path) ==
    [domain |-> IF domain = None THEN NoDomain ELSE domain,
     path   |-> IF path = None THEN Root ELSE path,
     name   |-> name]

SetCookie(jar, cookie, value) == [jar EXCEPT ![cookie] = value]

\* RequestsCookieJar.set: None takes the cookies away.
Assign(jar, name, value, domain, path) ==
    IF value = None THEN RemoveByName(jar, name, domain, path)
                    ELSE SetCookie(jar, CookieOf(name, domain, path), value)

\* _find_no_duplicates: the search goes on after a match whose value is None,
\* and an empty value counts as a match but is not returned.
Lookup(jar, name, domain, path) ==
    LET hits   == Matching(jar, name, domain, path)
        valued == {c \in hits : jar[c] # None}
    IN  IF valued = {} THEN {Missing}
        ELSE IF \E c, d \in valued : c # d THEN {Conflict}
        ELSE {IF jar[c] = Empty THEN Missing ELSE jar[c] : c \in valued}
             \cup (IF hits # valued THEN {Conflict} ELSE {})

\* update, and merge_cookies, with another jar, which wins.
MergeJar(jar, other) ==
    [c \in Cookies |-> IF other[c] # Missing THEN other[c] ELSE jar[c]]

HasName(jar, name) == \E c \in Cookies : c.name = name /\ jar[c] # Missing

\* cookiejar_from_dict: a cookie without a domain for every key, unless the
\* jar has the name anywhere and overwrite is off.
FromDict(dict, jar, overwrite) ==
    [c \in Cookies |->
        IF /\ c = CookieOf(c.name, None, None)
           /\ dict[c.name] # Missing
           /\ overwrite \/ ~HasName(jar, c.name)
        THEN dict[c.name] ELSE jar[c]]

\* get_dict without arguments: of cookies with one name the last one counts.
GetDict(jar, name) ==
    LET hits == Matching(jar, name, None, None)
    IN  IF hits = {} THEN {Missing} ELSE {jar[c] : c \in hits}
=============================================================================
