----------------------------- MODULE CookieJars -----------------------------
(***************************************************************************)
(* requests/cookies.py: the cookie jar that a Session and every            *)
(* PreparedRequest carry.  One cookie name is followed through the jar, so *)
(* a jar says which value that name has for each domain.  The domain None  *)
(* is the empty domain of a cookie made from a dict by create_cookie: such *)
(* a cookie is sent to every host.                                         *)
(***************************************************************************)
EXTENDS URLs

CONSTANTS
    CookieValues,  \* the values the followed cookie may take
    Expired        \* a Set-Cookie line whose Max-Age is over

ASSUME CookieAssumption ==
    /\ None \notin CookieValues
    /\ Expired \notin CookieValues
    /\ Expired # None

Domains == Hosts \cup {None}

Jars == [Domains -> CookieValues \cup {None}]

EmptyJar == [d \in Domains |-> None]

\* cookiejar_from_dict: the cookies a caller gives as a dict have no domain.
CookieJarFromDict(value) == [EmptyJar EXCEPT ![None] = value]

\* merge_cookies: set_cookie for every cookie of the second jar, which wins.
MergeCookies(jar, added) ==
    [d \in Domains |-> IF added[d] # None THEN added[d] ELSE jar[d]]

\* Mutants: the expired cookie itself is stored; the expiry is overlooked.
ExtractCookies_StoresExpired(jar, host, setCookie) ==
    IF setCookie = None THEN jar ELSE [jar EXCEPT ![host] = setCookie]

ExtractCookies_KeepsExpired(jar, host, setCookie) ==
    IF setCookie \in {None, Expired} THEN jar ELSE [jar EXCEPT ![host] = setCookie]

\* extract_cookies_to_jar: the Set-Cookie header of a response from host.
\* A response without an original message (or without the header) adds nothing;
\* an expired cookie removes the one that is there.
ExtractCookies(jar, host, setCookie) ==
    IF setCookie = None THEN jar
    ELSE [jar EXCEPT ![host] = IF setCookie = Expired THEN None ELSE setCookie]

\* get_cookie_header: what cookielib selects for a request to host.
CookieHeader(jar, host) ==
    {<<d, jar[d]>> : d \in {e \in {None, host} : jar[e] # None}}

CookieHeaders == SUBSET (Domains \X CookieValues)
=============================================================================
