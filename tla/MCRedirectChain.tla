-------------------------- MODULE MCRedirectChain --------------------------
(***************************************************************************)
(* Instances of RedirectChain for TLC: two hosts, of which b has a .netrc  *)
(* login and is in no_proxy, and a server that mixes redirects of every    *)
(* kind.                                                                   *)
(***************************************************************************)
EXTENDS RedirectChain, FiniteSets

CONSTANTS a, b, c1, c2, p1, p2

OneKey(key, proxy) == [k \in ProxyKeys |-> IF k = key THEN proxy ELSE None]

MCEnvProxies == [k \in ProxyKeys |->
    IF k = <<"http", None>> THEN p2 ELSE IF k = <<None, None>> THEN p1 ELSE None]

MCNoProxies == NoProxies

HTTP(host) == [scheme |-> "http", host |-> host]

PlainCall ==
    [method |-> "GET", url |-> HTTP(a), auth |-> FALSE, cookie |-> None,
     body |-> None, stream |-> FALSE, follow |-> TRUE,
     proxies |-> NoProxies, noProxy |-> None]

MCJars == {EmptyJar, [EmptyJar EXCEPT ![a] = c1]}

(***************************************************************************)
(* Logins, cookies and proxies.                                            *)
(***************************************************************************)
SettingsCalls ==
    {[PlainCall EXCEPT !.auth = auth, !.cookie = cookie] :
        auth \in BOOLEAN, cookie \in {None, c1}}
    \cup
    {[PlainCall EXCEPT !.stream = stream, !.follow = follow] :
        stream \in BOOLEAN, follow \in BOOLEAN}
    \cup
    {[PlainCall EXCEPT !.proxies = table, !.noProxy = noProxy] :
        table \in {OneKey(<<"https", None>>, p2), OneKey(<<None, b>>, p1)},
        noProxy \in {None, {a}}}
    \cup {[PlainCall EXCEPT !.proxies = OneKey(<<"http", None>>, Off)]}

Reply(status, scheme, host) ==
    [status |-> status, location |-> [scheme |-> scheme, host |-> host],
     cookie |-> None, fate |-> "whole"]

Final == [status |-> 200, location |-> None, cookie |-> None, fate |-> "whole"]

SettingsReplies ==
    {[Final EXCEPT !.fate = fate] : fate \in Fates}
    \cup
    {[Final EXCEPT !.status = 302],
     Reply(302, "gopher", a),
     Reply(307, None, None),
     Reply(303, None, b),
     [Reply(301, "https", b) EXCEPT !.cookie = c2],
     [Reply(302, "http", a) EXCEPT !.cookie = c2],
     [Reply(308, "http", a) EXCEPT !.cookie = c1, !.fate = "cut"],
     [Reply(302, "https", a) EXCEPT !.cookie = Expired, !.fate = "undecodable"],
     [Reply(302, "http", b) EXCEPT !.fate = "stalled"]}

(***************************************************************************)
(* Bodies: every kind, with every method that matters to rebuild_method.   *)
(***************************************************************************)
BodyCalls ==
    {[PlainCall EXCEPT !.method = method, !.body = body, !.auth = auth] :
        method \in Methods, body \in Bodies \cup {None}, auth \in BOOLEAN}
    \ SettingsCalls

BodyReplies ==
    {Final} \cup {Reply(status, "http", a) : status \in RedirectStatuses}
            \cup {Reply(status, "http", b) : status \in {301, 302, 307}}

MCCalls == SettingsCalls \cup BodyCalls

MCReplies ==
    [c \in MCCalls |-> IF c \in SettingsCalls THEN SettingsReplies ELSE BodyReplies]
=============================================================================
