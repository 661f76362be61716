------------------------ MODULE RedirectChainProofs ------------------------
(***************************************************************************)
(* Proofs about RedirectChain for every set of hosts, calls and replies    *)
(* and every max_redirects, in three parts: types, the redirect limit and  *)
(* where logins go; the responses, their connections, the history of the   *)
(* one that is returned and the request that Response.next gives; and the  *)
(* requests, their bodies, headers, cookies and proxies.  At the end, that *)
(* no call goes on for ever.                                               *)
(***************************************************************************)
EXTENDS RedirectChain, TLAPS

-----------------------------------------------------------------------------
(* What the operators on jars, proxies and requests return.                *)

\* cookiejar_from_dict, merge_cookies and extract_cookies_to_jar make jars.
LEMMA CookieJarFromDictType ==
    ASSUME NEW v \in CookieValues \cup {None}
    PROVE  CookieJarFromDict(v) \in Jars
BY DEF CookieJarFromDict, EmptyJar, Jars, Domains

LEMMA MergeCookiesType ==
    ASSUME NEW j \in Jars, NEW k \in Jars
    PROVE  MergeCookies(j, k) \in Jars
BY DEF MergeCookies, Jars

LEMMA ExtractCookiesType ==
    ASSUME NEW j \in Jars, NEW h \in Hosts,
           NEW c \in CookieValues \cup {None, Expired}
    PROVE  ExtractCookies(j, h, c) \in Jars
BY DEF ExtractCookies, Jars, Domains

\* get_cookie_header selects cookies of the jar.
LEMMA CookieHeaderType ==
    ASSUME NEW j \in Jars, NEW h \in Hosts
    PROVE  CookieHeader(j, h) \in CookieHeaders
<1>1. \A d \in {e \in {None, h} : j[e] # None} :
          d \in Domains /\ j[d] \in CookieValues
  BY DEF Jars, Domains
<1>2. CookieHeader(j, h) \subseteq Domains \X CookieValues
  BY <1>1 DEF CookieHeader
<1> QED BY <1>2 DEF CookieHeaders

\* The environment merges into a table, and a redirect rewrites it to a table.
LEMMA MergeEnvironmentSettingsType ==
    ASSUME NEW h \in Hosts, NEW t \in GivenTables, NEW np
    PROVE  MergeEnvironmentSettings(h, t, np) \in ProxyTables
<1>1. \A x, y \in GivenTables : SetDefaults(x, y) \in GivenTables
  BY DEF SetDefaults, GivenTables
<1>2. GetEnvironProxies(h, np) \in GivenTables
  BY ProxyAssumption DEF GetEnvironProxies, NoProxies, ProxyTables, GivenTables
<1>3. \A x \in GivenTables : MergeSetting(x) \in ProxyTables
  BY <1>1, ProxyAssumption DEF MergeSetting, ProxyTables, GivenTables
<1> QED BY <1>1, <1>2, <1>3, ProxyAssumption DEF MergeEnvironmentSettings

LEMMA RebuildProxiesType ==
    ASSUME NEW u \in URLs, NEW t \in ProxyTables, NEW np
    PROVE  RebuildProxies(u, t, np) \in ProxyTables
<1>1. <<u.scheme, None>> \in ProxyKeys /\ <<None, None>> \in ProxyKeys
  BY DEF URLs, ProxyKeys
<1>2. GetOrAll(EnvProxies, u.scheme) \in Proxies \cup {None}
  BY <1>1, ProxyAssumption DEF GetOrAll, ProxyTables
<1>3. t[<<u.scheme, None>>] \in Proxies \cup {None}
  BY <1>1 DEF ProxyTables
<1> QED BY <1>1, <1>2, <1>3 DEF RebuildProxies, ProxyTables

LEMMA ProxyAuthorizationType ==
    ASSUME NEW u, NEW t
    PROVE  ProxyAuthorization(u, t) \in AuthProxies \cup {None}
BY DEF ProxyAuthorization

LEMMA SelectProxyType ==
    ASSUME NEW u \in URLs, NEW t \in ProxyTables
    PROVE  SelectProxy(u, t) \in Proxies \cup {None}
<1> DEFINE keys == << <<u.scheme, u.host>>, <<u.scheme, None>>,
                      <<None, u.host>>, <<None, None>> >>
           found == {i \in 1..4 : t[keys[i]] # None}
           first == CHOOSE i \in found : \A j \in found : i <= j
<1>1. \A i \in 1..4 : keys[i] \in ProxyKeys
  BY DEF URLs, ProxyKeys
<1>2. CASE found = {}
  BY <1>2 DEF SelectProxy
<1>3. CASE found # {}
  <2>1. \E i \in found : \A j \in found : i <= j
    <3>1. found \subseteq 1..4
      OBVIOUS
    <3>2. CASE 1 \in found  BY <3>1, <3>2
    <3>3. CASE 1 \notin found /\ 2 \in found  BY <3>1, <3>3
    <3>4. CASE 1 \notin found /\ 2 \notin found /\ 3 \in found  BY <3>1, <3>4
    <3>5. CASE 1 \notin found /\ 2 \notin found /\ 3 \notin found
      BY <1>3, <3>1, <3>5
    <3> QED BY <3>1, <3>2, <3>3, <3>4, <3>5
  <2>2. first \in 1..4
    BY <2>1
  <2>3. t[keys[first]] \in Proxies \cup {None}
    BY <1>1, <2>2 DEF ProxyTables
  <2>4. SelectProxy(u, t) = t[keys[first]]
    BY <1>3 DEF SelectProxy
  <2> QED BY <2>3, <2>4
<1> QED BY <1>2, <1>3

\* A Location is resolved to a URL.
LEMMA ResolveType ==
    ASSUME NEW u \in URLs, NEW l \in Locations
    PROVE  Resolve(u, l) \in URLs
BY DEF Resolve, Locations, URLs

\* get_netrc_auth finds a login for the host it is asked about, or none.
LEMMA NetrcAuthType ==
    ASSUME NEW u \in URLs
    PROVE  /\ NetrcAuth(u) \in Credentials \cup {None}
           /\ NetrcAuth(u) # None =>
                  NetrcAuth(u) = [by |-> "netrc", host |-> u.host]
BY DEF NetrcAuth, Credentials, URLs

\* prepare_content_length changes the length of a request and nothing else.
LEMMA PrepareContentLengthType ==
    ASSUME NEW p \in Requests
    PROVE  \E x \in Lengths : PrepareContentLength(p) = [p EXCEPT !.length = x]
<1>1. p.length \in Lengths /\ p = [p EXCEPT !.length = p.length]
  BY DEF Requests
<1> QED BY <1>1 DEF PrepareContentLength, Lengths

\* prepare_auth sets the login that is given and touches only the length beside.
LEMMA PrepareAuthType ==
    ASSUME NEW p \in Requests, NEW auth \in Credentials \cup {None}
    PROVE  /\ PrepareAuth(p, auth) \in Requests
           /\ PrepareAuth(p, auth).auth = IF auth = None THEN p.auth ELSE auth
           /\ PrepareAuth(p, auth).url = p.url
           /\ PrepareAuth(p, auth).body = p.body
           /\ PrepareAuth(p, auth).method = p.method
<1>1. CASE auth = None
  BY <1>1 DEF PrepareAuth
<1>2. CASE auth # None
  <2> DEFINE q == [p EXCEPT !.auth = auth]
  <2>1. q \in Requests /\ q.auth = auth /\ q.url = p.url /\ q.body = p.body
            /\ q.method = p.method
    BY DEF Requests
  <2>2. PICK x \in Lengths : PrepareContentLength(q) = [q EXCEPT !.length = x]
    BY <2>1, PrepareContentLengthType
  <2>3. PrepareAuth(p, auth) = [q EXCEPT !.length = x]
    BY <1>2, <2>2 DEF PrepareAuth
  <2>4. [q EXCEPT !.length = x] \in Requests
    BY <2>1 DEF Requests
  <2> HIDE DEF q
  <2> QED BY <1>2, <2>1, <2>3, <2>4 DEF Requests
<1> QED BY <1>1, <1>2

\* prepare_body gives the request the body it is given.
LEMMA PrepareBodyType ==
    ASSUME NEW p \in Requests, NEW body \in Bodies \cup {None}
    PROVE  /\ PrepareBody(p, body) \in Requests
           /\ PrepareBody(p, body).auth = p.auth
           /\ PrepareBody(p, body).url = p.url
           /\ PrepareBody(p, body).body = body
           /\ PrepareBody(p, body).method = p.method
<1>1. CASE body \in Streams
  <2> DEFINE pos == CASE body \in {"file", "tape"} -> "offset"
                      [] body = "pipe" -> "unknown"
                      [] OTHER -> None
             len == IF body \in Sized THEN "body" ELSE None
  <2>1. pos \in Positions /\ len \in Lengths /\ (body \notin Sized) \in BOOLEAN
    BY <1>1 DEF Positions, Lengths, Streams
  <2>2. PrepareBody(p, body) =
            [p EXCEPT !.body = body, !.position = pos, !.length = len,
                      !.chunked = body \notin Sized]
    BY <1>1 DEF PrepareBody
  <2> HIDE DEF pos, len
  <2> QED BY <2>1, <2>2 DEF Requests
<1>2. CASE body \notin Streams
  <2> DEFINE q == [p EXCEPT !.body = body, !.ctype = (body = "form")]
  <2>1. q \in Requests /\ q.auth = p.auth /\ q.url = p.url /\ q.body = body
            /\ q.method = p.method
    BY DEF Requests
  <2>2. PICK x \in Lengths : PrepareContentLength(q) = [q EXCEPT !.length = x]
    BY <2>1, PrepareContentLengthType
  <2>3. PrepareBody(p, body) = [q EXCEPT !.length = x]
    BY <1>2, <2>2 DEF PrepareBody
  <2> HIDE DEF q
  <2> QED BY <2>1, <2>3 DEF Requests
<1> QED BY <1>1, <1>2

\* prepare_cookies changes the jar and the Cookie header.
LEMMA PrepareCookiesType ==
    ASSUME NEW p \in Requests, NEW j \in Jars
    PROVE  /\ PrepareCookies(p, j) \in Requests
           /\ PrepareCookies(p, j).auth = p.auth
           /\ PrepareCookies(p, j).url = p.url
           /\ PrepareCookies(p, j).body = p.body
           /\ PrepareCookies(p, j).method = p.method
<1>1. p.url.host \in Hosts
  BY DEF Requests, URLs
<1>2. CookieHeader(j, p.url.host) \in CookieHeaders
  BY <1>1, CookieHeaderType
<1> QED BY <1>2 DEF PrepareCookies, Requests

\* prepare_request: the first request of a call; the login the caller gives is
\* for the host the caller names.
LEMMA PrepareRequestType ==
    ASSUME NEW c \in CallSpace, NEW j \in Jars
    PROVE  /\ PrepareRequest(c, j) \in Requests
           /\ PrepareRequest(c, j).url = c.url
           /\ PrepareRequest(c, j).body = c.body
           /\ PrepareRequest(c, j).method = c.method
           /\ PrepareRequest(c, j).auth # None =>
                  PrepareRequest(c, j).auth.host = c.url.host
<1> DEFINE blank == [method |-> c.method, url |-> c.url, auth |-> None,
                     jar |-> EmptyJar, cookies |-> {}, proxyAuth |-> None,
                     body |-> None, position |-> None, length |-> None,
                     chunked |-> FALSE, ctype |-> FALSE]
           merged == MergeCookies(MergeCookies(EmptyJar, j),
                                  CookieJarFromDict(c.cookie))
           auth == IF c.auth THEN [by |-> "caller", host |-> c.url.host]
                             ELSE NetrcAuth(c.url)
           p1 == PrepareCookies(blank, merged)
           p2 == PrepareBody(p1, c.body)
<1>1. EmptyJar \in Jars
  BY DEF EmptyJar, Jars
<1>2. c.cookie \in CookieValues \cup {None} /\ c.url \in URLs
          /\ c.url.host \in Hosts /\ c.body \in Bodies \cup {None}
          /\ c.method \in Methods
  BY DEF CallSpace, URLs
<1>3. merged \in Jars
  BY <1>1, <1>2, MergeCookiesType, CookieJarFromDictType
<1>4. blank \in Requests
  BY <1>1, <1>2 DEF Requests, CookieHeaders, Positions, Lengths
<1>5. auth \in Credentials \cup {None} /\ (auth # None => auth.host = c.url.host)
  BY <1>2, NetrcAuthType DEF Credentials
<1>6. p1 \in Requests /\ p1.url = c.url /\ p1.auth = None /\ p1.method = c.method
  BY <1>3, <1>4, PrepareCookiesType
<1>7. p2 \in Requests /\ p2.url = c.url /\ p2.auth = None /\ p2.method = c.method
          /\ p2.body = c.body
  BY <1>2, <1>6, PrepareBodyType
<1>8. PrepareRequest(c, j) = PrepareAuth(p2, auth)
  BY DEF PrepareRequest
<1> HIDE DEF p2, auth
<1> QED BY <1>5, <1>7, <1>8, PrepareAuthType

\* rebuild_auth: a login stays on its host, a new one is from .netrc.
LEMMA RebuildAuthType ==
    ASSUME NEW p \in Requests, NEW old \in URLs
    PROVE  /\ RebuildAuth(p, old) \in Requests
           /\ RebuildAuth(p, old).url = p.url
           /\ RebuildAuth(p, old).body = p.body
           /\ RebuildAuth(p, old).method = p.method
           /\ RebuildAuth(p, old).auth \in
                  {NetrcAuth(p.url), IF p.url.host = old.host THEN p.auth ELSE None}
<1> DEFINE q == [p EXCEPT !.auth = IF p.url.host = old.host THEN @ ELSE None]
<1>1. q \in Requests /\ q.url = p.url /\ q.body = p.body /\ q.method = p.method
          /\ q.auth = IF p.url.host = old.host THEN p.auth ELSE None
  BY DEF Requests
<1>2. NetrcAuth(p.url) \in Credentials \cup {None}
  BY NetrcAuthType DEF Requests
<1>3. RebuildAuth(p, old) = PrepareAuth(q, NetrcAuth(p.url))
  BY DEF RebuildAuth
<1> HIDE DEF q
<1> QED BY <1>1, <1>2, <1>3, PrepareAuthType

\* purging leaves the login, the URL and the method alone.
LEMMA PurgeBodyType ==
    ASSUME NEW p \in Requests, NEW status \in Statuses
    PROVE  /\ PurgeBody(p, status) \in Requests
           /\ PurgeBody(p, status).auth = p.auth
           /\ PurgeBody(p, status).url = p.url
           /\ PurgeBody(p, status).method = p.method
           /\ PurgeBody(p, status).body = IF KeepsBody(status) THEN p.body ELSE None
BY DEF PurgeBody, Requests, Lengths

\* One pass of resolve_redirects makes a request to the URL of the Location,
\* with the method and the body the status asks for, and with a login that is
\* the old one on the same host or .netrc's for the new host.
LEMMA RedirectedRequestType ==
    ASSUME NEW r \in Requests, NEW resp \in Responses, resp.location \in Locations,
           NEW j \in Jars, NEW t \in ProxyTables, NEW np
    PROVE  LET f == RedirectedRequest(r, resp, j, t, np)
           IN  /\ f \in Requests
               /\ f.url = Resolve(r.url, resp.location)
               /\ f.method = RebuildMethod(r.method, resp.status)
               /\ f.body = IF KeepsBody(resp.status) THEN r.body ELSE None
               /\ f.auth \in {NetrcAuth(f.url),
                               IF f.url.host = r.url.host THEN r.auth ELSE None}
<1> DEFINE url == Resolve(r.url, resp.location)
           moved == [r EXCEPT !.url = url, !.method = RebuildMethod(@, resp.status)]
           purged == PurgeBody(moved, resp.status)
           plain == [purged EXCEPT !.cookies = {}]
           merged == MergeCookies(
                         ExtractCookies(r.jar, r.url.host, resp.cookie), j)
           prepared == PrepareCookies(plain, merged)
           pa == ProxyAuthorization(url, RebuildProxies(url, t, np))
           fresh == [prepared EXCEPT !.proxyAuth = pa]
<1>1. r.url \in URLs /\ r.url.host \in Hosts /\ r.jar \in Jars /\ r.method \in Methods
  BY DEF Requests, URLs
<1>2. resp.status \in Statuses /\ resp.cookie \in CookieValues \cup {None, Expired}
  BY DEF Responses
<1>3. url \in URLs
  BY <1>1, ResolveType
<1>4. RebuildMethod(r.method, resp.status) \in Methods
  BY <1>1 DEF RebuildMethod, Methods
<1>5. moved \in Requests /\ moved.url = url /\ moved.auth = r.auth
          /\ moved.body = r.body /\ moved.method = RebuildMethod(r.method, resp.status)
  BY <1>3, <1>4 DEF Requests
<1>6. purged \in Requests /\ purged.url = url /\ purged.auth = r.auth
          /\ purged.body = (IF KeepsBody(resp.status) THEN r.body ELSE None)
          /\ purged.method = moved.method
  <2> HIDE DEF moved, url
  <2> QED BY <1>2, <1>5, PurgeBodyType
<1>7. plain \in Requests /\ plain.url = purged.url /\ plain.auth = purged.auth
          /\ plain.body = purged.body /\ plain.method = purged.method
  <2>1. {} \in CookieHeaders
    BY DEF CookieHeaders
  <2> HIDE DEF purged
  <2> QED BY <1>6, <2>1 DEF Requests
<1>8. merged \in Jars
  BY <1>1, <1>2, ExtractCookiesType, MergeCookiesType
<1>9. prepared \in Requests /\ prepared.url = plain.url
          /\ prepared.auth = plain.auth /\ prepared.body = plain.body
          /\ prepared.method = plain.method
  <2> HIDE DEF plain, merged
  <2> QED BY <1>7, <1>8, PrepareCookiesType
<1>10. pa \in AuthProxies \cup {None}
  BY ProxyAuthorizationType
<1>11. fresh \in Requests /\ fresh.url = prepared.url
          /\ fresh.auth = prepared.auth /\ fresh.body = prepared.body
          /\ fresh.method = prepared.method
  <2> HIDE DEF prepared, pa
  <2> QED BY <1>9, <1>10 DEF Requests
<1>12. RedirectedRequest(r, resp, j, t, np) = RebuildAuth(fresh, r.url)
  BY DEF RedirectedRequest
<1> HIDE DEF fresh, prepared, plain, purged, moved
<1>13. fresh.url = url /\ fresh.auth = r.auth
           /\ fresh.body = (IF KeepsBody(resp.status) THEN r.body ELSE None)
           /\ fresh.method = RebuildMethod(r.method, resp.status)
  BY <1>5, <1>6, <1>7, <1>9, <1>11
<1> QED BY <1>1, <1>11, <1>12, <1>13, RebuildAuthType

-----------------------------------------------------------------------------
(* The type invariant and the redirect limit.                              *)

(***************************************************************************)
(* Neither is inductive alone: that Response exists, and that the limit is *)
(* met by exactly max_redirects + 1 requests, needs what ties the program  *)
(* counter to the three sequences.                                         *)
(***************************************************************************)
InStep ==
    /\ pc # "done" =>
          /\ outcome = "running"
          /\ Len(resps) = Len(sent)
          /\ Len(hist) <= MaxRedirects
          /\ Len(sent) = Len(hist) + (IF pc = "send" THEN 0 ELSE 1)
    /\ pc \notin {"send", "done"} => sent[Len(sent)].req = req

LimitInv == TypeOK /\ InStep /\ RedirectLimit

\* What the loop body may use once a response redirects.
LEMMA RedirectedFacts ==
    ASSUME TypeOK, InStep, Redirected
    PROVE  /\ latest \in 1..Len(resps) /\ latest = Len(hist) + 1
           /\ Response \in Responses
           /\ Response.location \in Locations
           /\ HistoryHere \in Seq(Nat)
           /\ Len(HistoryHere) = IF pc = "follow" THEN Len(hist) ELSE 0
           /\ Following \in Requests
           /\ Following.url = Resolve(req.url, Response.location)
           /\ Following.method = RebuildMethod(req.method, Response.status)
           /\ Following.body = IF KeepsBody(Response.status) THEN req.body ELSE None
           /\ Following.auth \in {NetrcAuth(Following.url),
                     IF Following.url.host = req.url.host THEN req.auth ELSE None}
<1>1. latest \in 1..Len(resps) /\ latest = Len(hist) + 1
  BY DEF TypeOK, InStep, Redirected, latest
<1>2. Response \in Responses
  BY <1>1 DEF TypeOK, Response
<1>3. Response.location \in Locations
  BY <1>2 DEF Redirected, RedirectTarget, Responses
<1>4. Append(hist, latest) \in Seq(Nat) /\ Len(Append(hist, latest)) = Len(hist) + 1
  BY <1>1 DEF TypeOK
<1>5. Tail(Append(hist, latest)) \in Seq(Nat)
          /\ Len(Tail(Append(hist, latest))) = Len(hist)
  BY <1>4, SMTT(60) DEF TypeOK
<1>6. HistoryHere \in Seq(Nat) /\ Len(HistoryHere) = IF pc = "follow" THEN Len(hist) ELSE 0
  BY <1>5 DEF HistoryHere
<1>7. req \in Requests /\ jar \in Jars /\ proxies \in ProxyTables
  BY DEF TypeOK
<1> QED BY <1>1, <1>2, <1>3, <1>6, <1>7, RedirectedRequestType DEF Following

\* The loop leaves as many responses as it found, with the same redirects.
LEMMA KeepResponseFacts ==
    ASSUME TypeOK, InStep, Redirected, NEW nx \in Requests \cup {None},
           NEW rs, rs \in {[resps EXCEPT ![latest] = Drained(@)],
                           [resps EXCEPT ![latest] = [Drained(@) EXCEPT !.next = nx]]}
    PROVE  /\ rs \in Seq(Responses)
           /\ Len(rs) = Len(resps)
           /\ \A i \in 1..Len(rs) : /\ rs[i].status = resps[i].status
                                   /\ rs[i].location = resps[i].location
<1>1. latest \in 1..Len(resps) /\ Response \in Responses /\ HistoryHere \in Seq(Nat)
  BY RedirectedFacts
<1> DEFINE d == Drained(Response)
<1>2. d \in Responses /\ d.status = Response.status /\ d.location = Response.location
  BY <1>1 DEF Drained, Responses
<1>3. [d EXCEPT !.next = nx] \in Responses
          /\ [d EXCEPT !.next = nx].status = Response.status
          /\ [d EXCEPT !.next = nx].location = Response.location
  <2> HIDE DEF d
  <2> QED BY <1>2 DEF Responses
<1>4. resps \in Seq(Responses)
  BY DEF TypeOK
<1>5. PICK e \in {d, [d EXCEPT !.next = nx]} : rs = [resps EXCEPT ![latest] = e]
  <2> HIDE DEF d
  <2>1. Drained(resps[latest]) = d
    BY DEF Response, d
  <2> QED BY <2>1
<1> HIDE DEF d
<1>6. e \in Responses /\ e.status = Response.status /\ e.location = Response.location
  BY <1>2, <1>3
<1> QED BY <1>1, <1>4, <1>5, <1>6 DEF Response

\* A request goes out as it is, and the log of transmissions grows by one.
LEMMA TransmitFacts ==
    ASSUME TypeOK, Transmit
    PROVE  /\ sent' \in Seq(Transmissions)
           /\ Len(sent') = Len(sent) + 1
           /\ sent'[Len(sent')].req = req
           /\ \A i \in 1..Len(sent) : sent'[i] = sent[i]
           /\ unread' \in BOOLEAN
<1> DEFINE t == [req |-> req, via |-> SelectProxy(req.url, proxies),
                 whole |-> req.body \in Streams => unread]
<1>1. req.url \in URLs /\ proxies \in ProxyTables /\ req \in Requests
  BY DEF TypeOK, Requests
<1>2. SelectProxy(req.url, proxies) \in Proxies \cup {None}
  BY <1>1, SelectProxyType
<1>3. t \in Transmissions /\ t.req = req
  BY <1>1, <1>2 DEF Transmissions
<1>4. sent' = Append(sent, t) /\ unread' \in BOOLEAN
  BY DEF Transmit
<1> HIDE DEF t
<1> QED BY <1>3, <1>4 DEF TypeOK

LEMMA LimitInit == Init => LimitInv
<1> SUFFICES ASSUME Init PROVE LimitInv
  OBVIOUS
<1>1. call \in CallSpace /\ jar \in Jars
  BY ChainAssumption DEF Init
<1>2. req \in Requests
  BY <1>1, PrepareRequestType DEF Init
<1>3. proxies \in ProxyTables
  <2>1. call.url.host \in Hosts /\ call.proxies \in GivenTables
    BY <1>1 DEF CallSpace, URLs
  <2> QED BY <2>1, MergeEnvironmentSettingsType DEF Init
<1>4. TypeOK
  BY <1>1, <1>2, <1>3 DEF Init, TypeOK
<1>5. InStep /\ RedirectLimit
  BY ChainAssumption DEF Init, InStep, RedirectLimit
<1> QED BY <1>4, <1>5 DEF LimitInv

LEMMA LimitStep == LimitInv /\ [Next]_vars => LimitInv'
<1> SUFFICES ASSUME LimitInv, [Next]_vars PROVE LimitInv'
  OBVIOUS
<1> USE DEF LimitInv
<1>0. MaxRedirects \in Nat
  BY ChainAssumption
<1>1. CASE NoAdapter
  <2>1. TypeOK'
    BY <1>1 DEF NoAdapter, Stop, TypeOK
  <2>2. InStep' /\ RedirectLimit'
    BY <1>1 DEF NoAdapter, Stop, InStep, RedirectLimit, TypeOK
  <2> QED BY <2>1, <2>2
<1>2. CASE TransportFails
  <2>1. Transmit
    BY <1>2 DEF TransportFails
  <2>2. TypeOK'
    BY <1>2, <2>1, TransmitFacts DEF TransportFails, Stop, TypeOK
  <2>3. InStep' /\ RedirectLimit'
    BY <1>0, <1>2, <2>1, TransmitFacts
    DEF TransportFails, Stop, InStep, RedirectLimit, TypeOK
  <2> QED BY <2>2, <2>3
<1>3. CASE \E reply \in Replies[call] : Receive(reply)
  <2>1. PICK reply \in Replies[call] : Receive(reply)
    BY <1>3
  <2>2. reply \in ReplySpace
    BY ChainAssumption DEF TypeOK
  <2>3. Transmit
    BY <2>1 DEF Receive
  <2> DEFINE r == [status |-> reply.status, location |-> reply.location,
                   cookie |-> reply.cookie, fate |-> reply.fate,
                   content |-> "unread", open |-> TRUE, history |-> <<>>,
                   next |-> None]
  <2>4. r \in Responses
    BY <2>2 DEF ReplySpace, Responses
  <2>5. resps' = Append(resps, r)
    BY <2>1 DEF Receive
  <2>6. jar' \in Jars
    <3>1. req.url.host \in Hosts /\ jar \in Jars
      BY DEF TypeOK, Requests, URLs
    <3>2. reply.cookie \in CookieValues \cup {None, Expired}
      BY <2>2 DEF ReplySpace
    <3> QED BY <2>1, <3>1, <3>2, ExtractCookiesType DEF Receive
  <2> HIDE DEF r
  <2>7. resps' \in Seq(Responses) /\ Len(resps') = Len(resps) + 1
    BY <2>4, <2>5 DEF TypeOK
  <2>8. TypeOK'
    BY <2>1, <2>3, <2>6, <2>7, TransmitFacts DEF Receive, TypeOK
  <2>9. InStep' /\ RedirectLimit'
    BY <1>0, <2>1, <2>3, <2>7, TransmitFacts
    DEF Receive, InStep, RedirectLimit, TypeOK
  <2> QED BY <2>8, <2>9
<1>4. CASE ReadStalls \/ RawReadFails \/ TooManyRedirects \/ UnrewindableBody
  <2>1. Redirected /\ KeepResponse /\ pc' = "done"
          /\ UNCHANGED <<call, req, proxies, jar, unread, sent>>
          /\ outcome' \in {"ConnectionError", "RawReadError", "TooManyRedirects",
                             "UnrewindableBodyError"}
          /\ (outcome' = "TooManyRedirects" => LimitReached)
    BY <1>4 DEF ReadStalls, RawReadFails, TooManyRedirects, UnrewindableBody, Stop
  <2>2. hist' \in Seq(Nat)
    BY <2>1, RedirectedFacts DEF KeepResponse, TypeOK
  <2>3. /\ resps' \in Seq(Responses)
        /\ Len(resps') = Len(resps)
        /\ \A i \in 1..Len(resps') : /\ resps'[i].status = resps[i].status
                                     /\ resps'[i].location = resps[i].location
    BY <2>1, KeepResponseFacts DEF KeepResponse
  <2>4. TypeOK'
    BY <2>1, <2>2, <2>3 DEF TypeOK
  <2>5. InStep'
    BY <2>1 DEF InStep
  <2>6. Len(sent) <= MaxRedirects + 1
    BY DEF RedirectLimit
  <2>7. LimitReached => Len(sent) = MaxRedirects + 1
    BY <1>0, <2>1, RedirectedFacts DEF LimitReached, InStep, Redirected, TypeOK
  <2>8. RedirectTarget(Response)' # None
    <3>1. latest' = latest /\ latest \in 1..Len(resps')
      BY <2>1, <2>3, RedirectedFacts DEF latest
    <3>2. Response'.status = Response.status /\ Response'.location = Response.location
      BY <2>3, <3>1 DEF Response
    <3> QED BY <2>1, <3>2 DEF Redirected, RedirectTarget
  <2> QED BY <2>1, <2>4, <2>5, <2>6, <2>7, <2>8 DEF RedirectLimit
<1>5. CASE StoreNext
  <2>1. Redirected
    BY <1>5 DEF StoreNext, MayFollow
  <2>2. resps' \in Seq(Responses) /\ Len(resps') = Len(resps)
    BY <1>5, <2>1, RedirectedFacts, KeepResponseFacts DEF StoreNext
  <2>3. unread' \in BOOLEAN
    BY <1>5 DEF StoreNext, Rewind
  <2>4. TypeOK'
    BY <1>5, <2>2, <2>3 DEF StoreNext, TypeOK
  <2>5. InStep' /\ RedirectLimit'
    BY <1>5, <2>2 DEF StoreNext, InStep, RedirectLimit, TypeOK
  <2> QED BY <2>4, <2>5
<1>6. CASE NoNext
  <2>1. TypeOK'
    BY <1>6 DEF NoNext, TypeOK
  <2>2. InStep' /\ RedirectLimit'
    BY <1>6 DEF NoNext, InStep, RedirectLimit, TypeOK
  <2> QED BY <2>1, <2>2
<1>7. CASE Follow
  <2>1. Redirected /\ KeepResponse /\ pc = "follow" /\ ~LimitReached
    BY <1>7 DEF Follow, MayFollow
  <2>2. hist' \in Seq(Nat) /\ Len(hist') = Len(hist) + 1
    BY <2>1, RedirectedFacts DEF KeepResponse, TypeOK
  <2>3. resps' \in Seq(Responses) /\ Len(resps') = Len(resps)
    BY <2>1, KeepResponseFacts DEF KeepResponse
  <2>4. req' \in Requests
    BY <1>7, <2>1, RedirectedFacts DEF Follow
  <2>5. proxies' \in ProxyTables
    <3>1. Following.url \in URLs /\ proxies \in ProxyTables
      BY <2>1, RedirectedFacts DEF Requests, TypeOK
    <3> QED BY <1>7, <3>1, RebuildProxiesType DEF Follow
  <2>6. unread' \in BOOLEAN
    BY <1>7 DEF Follow, Rewind
  <2>7. TypeOK'
    BY <1>7, <2>2, <2>3, <2>4, <2>5, <2>6 DEF Follow, TypeOK
  <2>8. Len(hist) < MaxRedirects
    BY <1>0, <2>1, RedirectedFacts DEF LimitReached, TypeOK
  <2>9. InStep' /\ RedirectLimit'
    BY <1>0, <1>7, <2>2, <2>3, <2>8 DEF Follow, InStep, RedirectLimit, TypeOK
  <2> QED BY <2>7, <2>9
<1>8. CASE Assemble \/ Return \/ ContentFails
  <2>1. latest \in 1..Len(resps) /\ Response \in Responses
    BY <1>8 DEF Assemble, Return, ContentFails, TypeOK, InStep, latest, Response
  <2>2. resps' \in Seq(Responses) /\ Len(resps') = Len(resps)
    <3>1. /\ [Response EXCEPT !.history = hist] \in Responses
          /\ \A c \in {"read", "lost"}, o \in BOOLEAN :
                 [Response EXCEPT !.content = c, !.open = o] \in Responses
      BY <2>1 DEF Responses, TypeOK
    <3>2. resps \in Seq(Responses)
      BY DEF TypeOK
    <3> DEFINE Listed == [resps EXCEPT ![latest].history = hist]
               Content(c, o) == [resps EXCEPT ![latest].content = c,
                                              ![latest].open = o]
               out == Response.fate = "undecodable"
    <3>3. resps' \in {resps, Listed, Content("read", FALSE), Content("lost", out)}
      BY <1>8 DEF Assemble, Return, ContentFails
    <3>4. Listed = [resps EXCEPT ![latest] = [Response EXCEPT !.history = hist]]
      BY DEF Response
    <3>5. \A c, o : Content(c, o) = [resps EXCEPT ![latest] =
                                  [Response EXCEPT !.content = c, !.open = o]]
      BY <2>1, <3>2 DEF Response
    <3>6. Listed \in Seq(Responses) /\ Len(Listed) = Len(resps)
      <4> DEFINE e == [Response EXCEPT !.history = hist]
      <4>1. e \in Responses
        BY <3>1
      <4>2. Listed = [resps EXCEPT ![latest] = e]
        BY <3>4
      <4> HIDE DEF e, Listed
      <4> QED BY <2>1, <3>2, <4>1, <4>2
    <3>7. \A c \in {"read", "lost"}, o \in BOOLEAN :
              Content(c, o) \in Seq(Responses) /\ Len(Content(c, o)) = Len(resps)
      <4> TAKE c \in {"read", "lost"}, o \in BOOLEAN
      <4> DEFINE e == [Response EXCEPT !.content = c, !.open = o]
      <4>1. e \in Responses
        BY <3>1
      <4>2. Content(c, o) = [resps EXCEPT ![latest] = e]
        BY <3>5
      <4> HIDE DEF e, Content
      <4> QED BY <2>1, <3>2, <4>1, <4>2
    <3>8. out \in BOOLEAN
      OBVIOUS
    <3> HIDE DEF Listed, Content, out
    <3> QED BY <3>2, <3>3, <3>6, <3>7, <3>8
  <2>3. jar' \in Jars
    <3>1. req.url.host \in Hosts /\ jar \in Jars
      BY DEF TypeOK, Requests, URLs
    <3>2. Response.cookie \in CookieValues \cup {None, Expired}
      BY <2>1 DEF Responses
    <3> QED BY <1>8, <3>1, <3>2, ExtractCookiesType DEF Assemble, Return, ContentFails
  <2>4. TypeOK'
    BY <1>8, <2>2, <2>3 DEF Assemble, Return, ContentFails, Stop, TypeOK
  <2>5. InStep' /\ RedirectLimit'
    BY <1>8, <2>2
    DEF Assemble, Return, ContentFails, Stop, InStep, RedirectLimit, TypeOK
  <2> QED BY <2>4, <2>5
<1>9. CASE UNCHANGED vars
  <2>1. TypeOK' /\ InStep' /\ RedirectLimit'
    BY <1>9 DEF vars, TypeOK, InStep, RedirectLimit, Response, latest
  <2> QED BY <2>1
<1> QED
  BY <1>1, <1>2, <1>3, <1>4, <1>5, <1>6, <1>7, <1>8, <1>9 DEF Next, Returned

LEMMA LimitAlways == Spec => []LimitInv
BY LimitInit, LimitStep, PTL DEF Spec

\* Every variable keeps its shape.
THEOREM TypeCorrect == Spec => []TypeOK
<1>1. LimitInv => TypeOK
  BY DEF LimitInv
<1> QED BY <1>1, LimitAlways, PTL

\* max_redirects bounds the requests of a call, and TooManyRedirects means that
\* the bound was met and the last response redirects still.
THEOREM LimitHolds == Spec => []RedirectLimit
<1>1. LimitInv => RedirectLimit
  BY DEF LimitInv
<1> QED BY <1>1, LimitAlways, PTL

-----------------------------------------------------------------------------
(* Logins.                                                                 *)

(***************************************************************************)
(* CredentialsStayHome speaks of requests that were sent.  It is kept      *)
(* because the request about to be sent already has the property.          *)
(***************************************************************************)
LoginReady ==
    pc = "send" /\ req.auth # None =>
        /\ req.auth.host = req.url.host
        /\ req.auth.by = "caller" =>
              /\ req.url.host = call.url.host
              /\ \A j \in 1..Len(sent) : sent[j].req.url.host = call.url.host

LoginInv == CredentialsStayHome /\ LoginReady

LEMMA LoginInit == Init => LoginInv
<1> SUFFICES ASSUME Init PROVE LoginInv
  OBVIOUS
<1>1. call \in CallSpace /\ jar \in Jars
  BY ChainAssumption DEF Init
<1>2. req.url = call.url /\ (req.auth # None => req.auth.host = call.url.host)
  BY <1>1, PrepareRequestType DEF Init
<1> QED BY <1>2 DEF Init, LoginInv, CredentialsStayHome, LoginReady

\* Sending the request that is ready keeps the property.
LEMMA LoginTransmit ==
    ASSUME TypeOK, LoginInv, pc = "send", Transmit, UNCHANGED call
    PROVE  CredentialsStayHome'
<1>1. /\ sent \in Seq(Transmissions)
      /\ sent' \in Seq(Transmissions)
      /\ Len(sent') = Len(sent) + 1
      /\ sent'[Len(sent')].req = req
      /\ \A i \in 1..Len(sent) : sent'[i] = sent[i]
  BY TransmitFacts DEF TypeOK
<1> SUFFICES ASSUME NEW i \in 1..Len(sent'), sent'[i].req.auth # None
             PROVE  /\ sent'[i].req.auth.host = sent'[i].req.url.host
                    /\ sent'[i].req.auth.by = "caller" =>
                          \A j \in 1..i : sent'[j].req.url.host = call.url.host
  BY DEF CredentialsStayHome
<1>2. CASE i \in 1..Len(sent)
  <2>1. \A j \in 1..i : sent'[j] = sent[j]
    BY <1>1, <1>2
  <2> QED BY <1>1, <1>2, <2>1 DEF LoginInv, CredentialsStayHome
<1>3. CASE i = Len(sent')
  <2>1. sent'[i].req = req /\ req.auth # None
    BY <1>1, <1>3
  <2>2. \A j \in 1..i : j \in 1..Len(sent) \/ j = i
    BY <1>1, <1>3
  <2> QED BY <1>1, <1>3, <2>1, <2>2 DEF LoginInv, LoginReady
<1> QED BY <1>1, <1>2, <1>3

LEMMA LoginStep == LimitInv /\ LoginInv /\ [Next]_vars => LoginInv'
<1> SUFFICES ASSUME LimitInv, LoginInv, [Next]_vars PROVE LoginInv'
  OBVIOUS
<1>1. TypeOK /\ InStep
  BY DEF LimitInv
<1>2. CASE TransportFails
  <2>1. CredentialsStayHome'
    BY <1>1, <1>2, LoginTransmit DEF TransportFails
  <2> QED BY <1>2, <2>1 DEF TransportFails, Stop, LoginInv, LoginReady
<1>3. CASE \E reply \in Replies[call] : Receive(reply)
  <2>1. pc = "send" /\ Transmit /\ UNCHANGED call /\ pc' \in {"follow", "next"}
    BY <1>3 DEF Receive
  <2> QED BY <1>1, <2>1, LoginTransmit DEF LoginInv, LoginReady
<1>4. CASE Follow
  <2>1. Redirected /\ pc = "follow" /\ req' = Following /\ UNCHANGED <<call, sent>>
    BY <1>4 DEF Follow, MayFollow
  <2>2. CredentialsStayHome'
    BY <2>1 DEF LoginInv, CredentialsStayHome
  <2>3. ASSUME Following.auth # None
        PROVE  /\ Following.auth.host = Following.url.host
               /\ Following.auth.by = "caller" =>
                     /\ Following.url.host = call.url.host
                     /\ \A j \in 1..Len(sent) : sent[j].req.url.host = call.url.host
    <3>1. Following.url \in URLs
      BY <1>1, <2>1, RedirectedFacts DEF Requests
    <3>2. CASE Following.auth = NetrcAuth(Following.url)
      <4>1. Following.auth = [by |-> "netrc", host |-> Following.url.host]
        BY <2>3, <3>1, <3>2, NetrcAuthType
      <4> QED BY <4>1
    <3>3. CASE Following.url.host = req.url.host /\ Following.auth = req.auth
      <4>1. Len(sent) \in Nat /\ Len(sent) >= 1 /\ sent[Len(sent)].req = req
        BY <1>1, <2>1 DEF InStep, TypeOK
      <4>2. /\ req.auth.host = req.url.host
            /\ req.auth.by = "caller" =>
                  \A j \in 1..Len(sent) : sent[j].req.url.host = call.url.host
        BY <2>3, <3>3, <4>1 DEF LoginInv, CredentialsStayHome
      <4>3. req.auth.by = "caller" => req.url.host = call.url.host
        BY <4>1, <4>2
      <4> QED BY <3>3, <4>2, <4>3
    <3> QED BY <1>1, <2>1, <2>3, <3>2, <3>3, RedirectedFacts
  <2> QED BY <2>1, <2>2, <2>3 DEF LoginInv, LoginReady
<1>5. CASE NoAdapter \/ ReadStalls \/ RawReadFails \/ TooManyRedirects \/ UnrewindableBody
           \/ StoreNext \/ NoNext \/ Assemble \/ Return \/ ContentFails
  <2>1. UNCHANGED <<call, sent>> /\ pc' # "send"
    BY <1>5 DEF NoAdapter, ReadStalls, RawReadFails, TooManyRedirects, UnrewindableBody,
                StoreNext, NoNext, Assemble, Return, ContentFails, Stop
  <2> QED BY <2>1 DEF LoginInv, CredentialsStayHome, LoginReady
<1>6. CASE UNCHANGED vars
  BY <1>6 DEF vars, LoginInv, CredentialsStayHome, LoginReady
<1> QED
  BY <1>2, <1>3, <1>4, <1>5, <1>6 DEF Next, Returned

\* No request carries a login to another host than its own, and the caller's
\* login is not sent once the chain has left the host of the call.
THEOREM LoginsStayHome == Spec => []CredentialsStayHome
<1>1. LoginInv => CredentialsStayHome
  BY DEF LoginInv
<1> QED BY <1>1, LimitAlways, LoginInit, LoginStep, PTL DEF Spec

-----------------------------------------------------------------------------
(***************************************************************************)
(* Part 2: the responses.                                                  *)
(***************************************************************************)

(* What the steps do to the responses.                                     *)

\* Two responses that ask for the same redirect.
SameAnswer(r, s) == r.status = s.status /\ r.location = s.location /\ r.cookie = s.cookie

\* The loop closes the response and leaves what the server said, and the next
\* request if there is one.
LEMMA DrainedFacts ==
    ASSUME TypeOK, InStep, Redirected
    PROVE  LET d == Drained(Response)
           IN  /\ d \in Responses
               /\ ~d.open /\ d.content # "unread"
               /\ d.history = HistoryHere /\ d.next = Response.next
               /\ SameAnswer(d, Response)
<1>1. Response \in Responses /\ HistoryHere \in Seq(Nat)
  BY RedirectedFacts
<1>2. Response.content \in {"unread", "read", "lost"} /\ Response.fate \in Fates
  BY <1>1 DEF Responses
<1>3. Drained(Response) \in Responses
  BY <1>1 DEF Drained, Responses
<1>4. /\ Drained(Response).content = IF Response.content # "unread" THEN Response.content
              ELSE IF Response.fate = "whole" THEN "read" ELSE "lost"
      /\ Drained(Response).open = FALSE
      /\ Drained(Response).history = HistoryHere
      /\ Drained(Response).next = Response.next
      /\ SameAnswer(Drained(Response), Response)
  BY <1>1 DEF Drained, Responses, SameAnswer
<1> QED BY <1>2, <1>3, <1>4

\* A step that sends nothing puts at most another record in the last place,
\* with the same answer of the server.
LEMMA OnlyLatest ==
    ASSUME LimitInv, [Next]_vars, UNCHANGED sent
    PROVE  /\ Len(resps') = Len(resps)
           /\ \A i \in 1..(latest - 1) : resps'[i] = resps[i]
           /\ \A i \in 1..Len(resps) : SameAnswer(resps'[i], resps[i])
<1>1. TypeOK /\ InStep /\ resps \in Seq(Responses) /\ latest = Len(resps)
          /\ latest \in Nat
  BY DEF LimitInv, TypeOK, latest
<1>2. ASSUME NEW e, latest \in 1..Len(resps), resps' = [resps EXCEPT ![latest] = e],
             SameAnswer(e, resps[latest])
      PROVE  /\ Len(resps') = Len(resps)
             /\ \A i \in 1..(latest - 1) : resps'[i] = resps[i]
             /\ \A i \in 1..Len(resps) : SameAnswer(resps'[i], resps[i])
  BY <1>1, <1>2 DEF SameAnswer
<1>3. CASE ReadStalls \/ RawReadFails \/ TooManyRedirects \/ UnrewindableBody \/ Follow
  <2>1. Redirected /\ resps' = [resps EXCEPT ![latest] = Drained(Response)]
    BY <1>3 DEF ReadStalls, RawReadFails, TooManyRedirects, UnrewindableBody, Follow,
                MayFollow, KeepResponse, Response
  <2>2. SameAnswer(Drained(Response), resps[latest])
    BY <1>1, <2>1, DrainedFacts DEF Response
  <2>3. latest \in 1..Len(resps)
    BY <1>1, <2>1, RedirectedFacts
  <2> QED BY <1>2, <2>1, <2>2, <2>3
<1>4. CASE StoreNext
  <2> DEFINE e == [Drained(Response) EXCEPT !.next = Following]
  <2>1. Redirected /\ resps' = [resps EXCEPT ![latest] = e]
    BY <1>4 DEF StoreNext, MayFollow, Response
  <2>2. SameAnswer(e, resps[latest])
    BY <1>1, <2>1, DrainedFacts DEF Response, SameAnswer, Responses
  <2>3. latest \in 1..Len(resps)
    BY <1>1, <2>1, RedirectedFacts
  <2> HIDE DEF e
  <2> QED BY <1>2, <2>1, <2>2, <2>3
<1>5. CASE Assemble \/ Return \/ ContentFails
  <2>1. latest \in 1..Len(resps) /\ resps[latest] \in Responses
    BY <1>1, <1>5 DEF Assemble, Return, ContentFails, InStep
  <2> DEFINE Listed == [resps EXCEPT ![latest].history = hist]
             Content(c, o) == [resps EXCEPT ![latest].content = c,
                                            ![latest].open = o]
             out == Response.fate = "undecodable"
  <2>2. resps' \in {resps, Listed, Content("read", FALSE), Content("lost", out)}
    BY <1>5 DEF Assemble, Return, ContentFails
  <2>3. Listed = [resps EXCEPT ![latest] = [Response EXCEPT !.history = hist]]
    BY DEF Response
  <2>4. \A c, o : Content(c, o) = [resps EXCEPT ![latest] =
                                [Response EXCEPT !.content = c, !.open = o]]
    BY <1>1, <2>1 DEF Response
  <2> HIDE DEF Listed, Content, out
  <2>5. /\ SameAnswer([Response EXCEPT !.history = hist], resps[latest])
        /\ \A c, o : SameAnswer([Response EXCEPT !.content = c, !.open = o],
                                resps[latest])
    BY <2>1 DEF Response, Responses, SameAnswer
  <2>6. CASE resps' = resps
    BY <2>6 DEF SameAnswer
  <2>7. CASE resps' = Listed
    <3> DEFINE e == [Response EXCEPT !.history = hist]
    <3>1. resps' = [resps EXCEPT ![latest] = e] /\ SameAnswer(e, resps[latest])
      BY <2>3, <2>5, <2>7
    <3> HIDE DEF e
    <3> QED BY <1>2, <2>1, <3>1
  <2>8. ASSUME NEW c, NEW o, resps' = Content(c, o)
        PROVE  /\ Len(resps') = Len(resps)
               /\ \A i \in 1..(latest - 1) : resps'[i] = resps[i]
               /\ \A i \in 1..Len(resps) : SameAnswer(resps'[i], resps[i])
    <3> DEFINE e == [Response EXCEPT !.content = c, !.open = o]
    <3>1. resps' = [resps EXCEPT ![latest] = e] /\ SameAnswer(e, resps[latest])
      BY <2>4, <2>5, <2>8
    <3> HIDE DEF e
    <3> QED BY <1>2, <2>1, <3>1
  <2> QED BY <2>2, <2>6, <2>7, <2>8
<1>6. CASE NoAdapter \/ NoNext \/ UNCHANGED vars
  BY <1>6 DEF NoAdapter, NoNext, vars, SameAnswer
<1>7. ~Transmit
  BY <1>1, TransmitFacts DEF TypeOK
<1> QED BY <1>3, <1>4, <1>5, <1>6, <1>7 DEF Next, Returned, TransportFails, Receive

\* A response that arrives is put behind the others, open and unread.
LEMMA ReceiveFacts ==
    ASSUME TypeOK, NEW reply \in Replies[call], Receive(reply)
    PROVE  /\ Len(resps') = Len(resps) + 1 /\ latest' = latest + 1
           /\ \A i \in 1..Len(resps) : resps'[i] = resps[i]
           /\ Response'.cookie = reply.cookie
           /\ Response'.content = "unread" /\ Response'.history = <<>>
           /\ Response'.next = None
<1> DEFINE r == [status |-> reply.status, location |-> reply.location,
                 cookie |-> reply.cookie, fate |-> reply.fate,
                 content |-> "unread", open |-> TRUE, history |-> <<>>,
                 next |-> None]
<1>1. resps \in Seq(Responses) /\ Len(resps) \in Nat
  BY DEF TypeOK
<1>2. resps' = Append(resps, r)
  BY DEF Receive
<1>3. r.cookie = reply.cookie /\ r.content = "unread" /\ r.history = <<>> /\ r.next = None
  OBVIOUS
<1> HIDE DEF r
<1>4. Len(resps') = Len(resps) + 1 /\ resps'[Len(resps')] = r
      /\ \A i \in 1..Len(resps) : resps'[i] = resps[i]
  BY <1>1, <1>2
<1> QED BY <1>3, <1>4 DEF Response, latest

\* A record that is put in the last place is the latest response.
LEMMA LastReplaced ==
    ASSUME TypeOK, latest \in 1..Len(resps), NEW e, resps' = [resps EXCEPT ![latest] = e]
    PROVE  Response' = e
BY DEF TypeOK, Response, latest

\* What Return and ContentFails leave in the last place.
LEMMA ContentFacts ==
    ASSUME TypeOK, InStep, pc \in {"read", "deliver"}, NEW c, NEW o,
           resps' = [resps EXCEPT ![latest].content = c, ![latest].open = o]
    PROVE  /\ Response'.content = c /\ Response'.open = o
           /\ Response'.history = Response.history /\ Response'.next = Response.next
<1>1. resps \in Seq(Responses) /\ latest \in 1..Len(resps) /\ Response \in Responses
  BY DEF TypeOK, InStep, latest, Response
<1> DEFINE e == [Response EXCEPT !.content = c, !.open = o]
<1>2. resps' = [resps EXCEPT ![latest] = e]
  BY <1>1 DEF Response
<1>3. /\ e.content = c /\ e.open = o
      /\ e.history = Response.history /\ e.next = Response.next
  BY <1>1 DEF Responses
<1> HIDE DEF e
<1>4. Response' = e
  BY <1>1, <1>2, LastReplaced
<1> QED BY <1>3, <1>4

\* What the loop leaves in the last place.
LEMMA LoopFacts ==
    ASSUME TypeOK, InStep, Redirected, KeepResponse
    PROVE  Response' = Drained(Response)
<1>1. latest \in 1..Len(resps)
  BY RedirectedFacts
<1>2. resps' = [resps EXCEPT ![latest] = Drained(Response)]
  BY DEF KeepResponse, Response
<1> QED BY <1>1, <1>2, LastReplaced

LEMMA StoreNextFacts ==
    ASSUME TypeOK, InStep, StoreNext
    PROVE  /\ Response' = [Drained(Response) EXCEPT !.next = Following]
           /\ ~Response'.open /\ Response'.content # "unread"
           /\ Response'.history = HistoryHere /\ Response'.next = Following
<1>1. Redirected /\ latest \in 1..Len(resps)
  BY RedirectedFacts DEF StoreNext, MayFollow
<1>2. resps' = [resps EXCEPT ![latest] = [Drained(Response) EXCEPT !.next = Following]]
  BY DEF StoreNext, Response
<1>3. Response' = [Drained(Response) EXCEPT !.next = Following]
  BY <1>1, <1>2, LastReplaced
<1> QED BY <1>1, <1>3, DrainedFacts DEF Responses

-----------------------------------------------------------------------------
(* Connections.                                                            *)

(***************************************************************************)
(* Only the response looked at may hold a connection, and, while the call  *)
(* goes on, not once its content was asked for: so a send starts with      *)
(* none.                                                                   *)
(***************************************************************************)
OpenInv ==
    /\ ConnectionsReturned
    /\ pc # "done" /\ latest >= 1 /\ Response.content # "unread" => ~Response.open
    /\ pc = "send" => \A i \in 1..latest : ~resps[i].open

LEMMA OpenStep == LimitInv /\ OpenInv /\ [Next]_vars => OpenInv'
<1> SUFFICES ASSUME LimitInv, OpenInv, [Next]_vars PROVE OpenInv'
  OBVIOUS
<1>1. TypeOK /\ InStep /\ resps \in Seq(Responses) /\ latest = Len(resps)
          /\ latest \in Nat /\ (latest' \in Nat => latest' = Len(resps'))
  BY DEF LimitInv, TypeOK, latest
<1>2. ASSUME UNCHANGED sent, latest >= 1, ~Response'.open, pc' # "send" \/ Redirected
      PROVE  OpenInv'
  <2>1. /\ latest' = latest
        /\ \A i \in 1..(latest - 1) : resps'[i] = resps[i]
    BY <1>2, OnlyLatest DEF latest
  <2>2. \A i \in 1..latest : ~resps'[i].open
    <3> TAKE i \in 1..latest
    <3>1. CASE i = latest
      BY <1>2, <2>1, <3>1 DEF Response
    <3>2. CASE i \in 1..(latest - 1)
      BY <2>1, <3>2 DEF OpenInv, ConnectionsReturned
    <3> QED BY <1>1, <3>1, <3>2
  <2> QED BY <1>1, <1>2, <2>1, <2>2 DEF OpenInv, ConnectionsReturned
<1>3. CASE NoAdapter \/ TransportFails
  BY <1>1, <1>3 DEF NoAdapter, TransportFails, Stop, OpenInv, ConnectionsReturned,
                    Response, latest
<1>4. CASE \E reply \in Replies[call] : Receive(reply)
  <2>1. PICK reply \in Replies[call] : Receive(reply)
    BY <1>4
  <2>2. pc = "send" /\ pc' \in {"follow", "next"}
    BY <2>1 DEF Receive
  <2>3. /\ latest' = latest + 1 /\ Response'.content = "unread"
        /\ \A i \in 1..latest : resps'[i] = resps[i]
    BY <1>1, <2>1, ReceiveFacts
  <2> QED BY <1>1, <2>2, <2>3 DEF OpenInv, ConnectionsReturned
<1>5. CASE ReadStalls \/ RawReadFails \/ TooManyRedirects \/ UnrewindableBody \/ Follow
  <2>1. Redirected /\ KeepResponse /\ UNCHANGED sent
    BY <1>5 DEF ReadStalls, RawReadFails, TooManyRedirects, UnrewindableBody, Follow, MayFollow
  <2>2. latest >= 1 /\ ~Response'.open
    BY <1>1, <2>1, LoopFacts, DrainedFacts, RedirectedFacts
  <2> QED BY <1>2, <2>1, <2>2
<1>6. CASE StoreNext
  <2>1. Redirected /\ UNCHANGED sent
    BY <1>6 DEF StoreNext, MayFollow
  <2>2. latest >= 1 /\ ~Response'.open
    BY <1>1, <1>6, <2>1, StoreNextFacts, RedirectedFacts
  <2> QED BY <1>2, <2>1, <2>2
<1>7. CASE Return /\ ReadsContent
  <2>1. resps' = [resps EXCEPT ![latest].content = "read", ![latest].open = FALSE]
    BY <1>7 DEF Return
  <2>2. pc \in {"read", "deliver"} /\ pc' # "send" /\ UNCHANGED sent
    BY <1>7 DEF Return, Stop
  <2>3. latest >= 1
    BY <1>1, <2>2 DEF InStep, TypeOK
  <2>4. Response'.open = FALSE
    BY <1>1, <2>1, <2>2, ContentFacts
  <2> QED BY <1>2, <2>2, <2>3, <2>4
\* The one step that may leave an unstreamed response with its connection.
<1>11. CASE ContentFails
  <2> DEFINE out == Response.fate = "undecodable"
  <2>1. resps' = [resps EXCEPT ![latest].content = "lost", ![latest].open = out]
    BY <1>11 DEF ContentFails
  <2>2. pc \in {"read", "deliver"} /\ pc' = "done" /\ UNCHANGED <<call, sent>>
    BY <1>11 DEF ContentFails, Stop
  <2>3. latest' = latest /\ \A i \in 1..(latest - 1) : resps'[i] = resps[i]
    BY <2>2, OnlyLatest DEF latest
  <2>4. latest \in 1..Len(resps) /\ Response \in Responses
    BY <1>1, <2>2 DEF InStep, TypeOK, Response
  <2>5. Response'.open = out
    BY <1>1, <2>1, <2>2, ContentFacts
  <2>6. Response'.fate = Response.fate
    <3> DEFINE e == [Response EXCEPT !.content = "lost", !.open = out]
    <3>1. resps' = [resps EXCEPT ![latest] = e]
      BY <1>1, <2>1, <2>4 DEF Response
    <3>2. e.fate = Response.fate
      BY <2>4 DEF Responses
    <3> HIDE DEF e
    <3> QED BY <1>1, <2>4, <3>1, <3>2, LastReplaced
  <2>7. out => outcome' = "ContentError"
    BY <1>11 DEF ContentFails, Stop
  <2> HIDE DEF out
  <2>8. Response'.open => outcome' = "ContentError" /\ Response'.fate = "undecodable"
    BY <2>5, <2>6, <2>7 DEF out
  <2> QED BY <2>2, <2>3, <2>8 DEF OpenInv, ConnectionsReturned
<1>8. CASE Return /\ ~ReadsContent
  <2>1. /\ UNCHANGED <<resps, call>> /\ pc' \in {"follow", "done"}
        /\ pc' = "done" => outcome' = "ok"
        /\ pc # "done"
    BY <1>8 DEF Return, Stop
  <2>2. call.stream \/ Response.content # "unread"
    BY <1>8 DEF ReadsContent
  <2>3. latest >= 1 /\ latest' = latest /\ Response' = Response
    BY <1>1, <1>8, <2>1 DEF Return, InStep, TypeOK, Response, latest
  <2> QED BY <1>1, <2>1, <2>2, <2>3 DEF OpenInv, ConnectionsReturned, Response
<1>9. CASE Assemble
  <2>1. latest \in 1..Len(resps) /\ pc # "done" /\ pc' = "deliver" /\ UNCHANGED sent
            /\ Response \in Responses
    BY <1>1, <1>9 DEF Assemble, InStep, TypeOK, Response
  <2>2. resps' = resps \/ resps' = [resps EXCEPT ![latest] = [Response EXCEPT !.history = hist]]
    BY <1>9 DEF Assemble, Response
  <2>3. Response'.content = Response.content /\ Response'.open = Response.open
    <3> DEFINE e == [Response EXCEPT !.history = hist]
    <3>1. e.content = Response.content /\ e.open = Response.open
      BY <2>1 DEF Responses
    <3>2. resps' = resps \/ resps' = [resps EXCEPT ![latest] = e]
      BY <2>2
    <3> HIDE DEF e
    <3>3. resps' = resps => Response' = Response
      BY DEF Response, latest
    <3> QED BY <1>1, <2>1, <3>1, <3>2, <3>3, LastReplaced
  <2>4. latest' = latest /\ \A i \in 1..(latest - 1) : resps'[i] = resps[i]
    BY <2>1, OnlyLatest DEF latest
  <2> QED BY <1>1, <2>1, <2>3, <2>4 DEF OpenInv, ConnectionsReturned
<1>10. CASE NoNext \/ UNCHANGED vars
  BY <1>10 DEF NoNext, vars, OpenInv, ConnectionsReturned, Response, latest
<1> QED
  BY <1>3, <1>4, <1>5, <1>6, <1>7, <1>8, <1>9, <1>10, <1>11 DEF Next, Returned

\* A chain holds one connection at a time and gives every one back, whatever
\* becomes of it, but for that of a response the caller streams and that of a
\* last response whose content is undecodable.
THEOREM ConnectionsComeBack == Spec => []ConnectionsReturned
<1>1. Init => OpenInv
  BY DEF Init, OpenInv, ConnectionsReturned, latest
<1>2. OpenInv => ConnectionsReturned
  BY DEF OpenInv
<1> QED BY <1>1, <1>2, LimitAlways, OpenStep, PTL DEF Spec

-----------------------------------------------------------------------------
(* History.                                                                *)

\* hist lists the responses that were followed, oldest first, and only a call
\* that follows redirects has any.  The response looked at has no history
\* before the last one is given hist.
Listed ==
    /\ \A i \in 1..Len(hist) : hist[i] = i
    /\ hist # <<>> \/ pc \in {"follow", "deliver"} => call.follow
    /\ pc \in {"follow", "next", "read"} => Response.history = <<>>
    /\ pc = "deliver" => Response.history = hist

\* Each response but the last led to the request behind it, and when a request
\* is ready, the last one leads to it.
Linked(i, p) ==
    /\ RedirectTarget(resps[i]) # None
    /\ p.url = Resolve(sent[i].req.url, resps[i].location)

AllLinked ==
    /\ Len(sent) <= Len(resps) + 1
    /\ \A i \in 1..(Len(sent) - 1) : Linked(i, sent[i + 1].req)
    /\ pc = "send" /\ sent # <<>> => Linked(Len(sent), req)

HistoryInv == Listed /\ AllLinked /\ HistoryComplete

\* A sequence of numbers that counts from 1 is the one in HistoryComplete.
LEMMA CountingUp ==
    ASSUME NEW s \in Seq(Nat), NEW n \in Nat, Len(s) = n, \A i \in 1..n : s[i] = i
    PROVE  s = [i \in 1..n |-> i]
OBVIOUS

LEMMA ListedStep == LimitInv /\ Listed /\ [Next]_vars => Listed'
<1> SUFFICES ASSUME LimitInv, Listed, [Next]_vars PROVE Listed'
  OBVIOUS
<1>1. TypeOK /\ InStep /\ hist \in Seq(Nat)
  BY DEF LimitInv, TypeOK
<1>2. CASE NoAdapter \/ TransportFails \/ ContentFails
  BY <1>2 DEF NoAdapter, TransportFails, ContentFails, Stop, Listed
<1>3. CASE \E reply \in Replies[call] : Receive(reply)
  <2>1. PICK reply \in Replies[call] : Receive(reply)
    BY <1>3
  <2>2. /\ UNCHANGED <<hist, call>>
        /\ pc' = "next" \/ (pc' = "follow" /\ call.follow)
    BY <2>1 DEF Receive
  <2> QED BY <1>1, <2>1, <2>2, ReceiveFacts DEF Listed
<1>4. CASE ReadStalls \/ RawReadFails \/ TooManyRedirects \/ UnrewindableBody \/ Follow
  <2>1. Redirected /\ KeepResponse /\ UNCHANGED call /\ pc' \in {"done", "send"}
            /\ (pc' = "send" => pc = "follow")
    BY <1>4 DEF ReadStalls, RawReadFails, TooManyRedirects, UnrewindableBody, Follow, MayFollow, Stop
  <2>2. latest = Len(hist) + 1 /\ hist' = IF pc = "follow" THEN Append(hist, latest) ELSE hist
    BY <1>1, <2>1, RedirectedFacts DEF KeepResponse
  <2>3. \A i \in 1..Len(hist') : hist'[i] = i
    BY <1>1, <2>2 DEF Listed
  <2> QED BY <2>1, <2>2, <2>3 DEF Listed
<1>5. CASE StoreNext
  <2>1. Response'.history = <<>> /\ pc' = "read" /\ UNCHANGED <<hist, call>>
    BY <1>1, <1>5, StoreNextFacts DEF StoreNext, HistoryHere
  <2> QED BY <2>1 DEF Listed
<1>6. CASE NoNext
  BY <1>6 DEF NoNext, Listed, Response, latest
<1>7. CASE Assemble
  <2>1. /\ pc = "follow" /\ pc' = "deliver" /\ UNCHANGED <<hist, call>>
        /\ Response.history = <<>> /\ call.follow
    BY <1>7 DEF Assemble, Listed
  <2>2. latest \in 1..Len(resps) /\ Response \in Responses
    BY <1>1, <2>1 DEF InStep, TypeOK, latest, Response
  <2>3. CASE hist = <<>>
    <3>1. Response' = Response
      BY <1>7, <2>3 DEF Assemble, Response, latest
    <3> QED BY <2>1, <2>3, <3>1 DEF Listed
  <2>4. CASE hist # <<>>
    <3> DEFINE e == [Response EXCEPT !.history = hist]
    <3>1. resps' = [resps EXCEPT ![latest] = e]
      BY <1>7, <2>4 DEF Assemble, Response
    <3>2. e.history = hist
      BY <2>2 DEF Responses
    <3> HIDE DEF e
    <3>3. Response' = e
      BY <1>1, <2>2, <3>1, LastReplaced
    <3> QED BY <2>1, <3>2, <3>3 DEF Listed
  <2> QED BY <2>3, <2>4
<1>8. CASE Return
  <2>1. UNCHANGED <<hist, call>> /\ pc \in {"read", "deliver"}
        /\ (pc' = "done" \/ (pc' = "follow" /\ pc = "read" /\ call.follow))
    BY <1>8 DEF Return, Stop
  <2>2. Response'.history = Response.history
    <3>1. CASE resps' = resps
      BY <3>1 DEF Response, latest
    <3>2. CASE resps' = [resps EXCEPT ![latest].content = "read", ![latest].open = FALSE]
      BY <1>1, <2>1, <3>2, ContentFacts
    <3> QED BY <1>8, <3>1, <3>2 DEF Return
  <2> QED BY <2>1, <2>2 DEF Listed
<1>9. CASE UNCHANGED vars
  BY <1>9 DEF vars, Listed, Response, latest
<1> QED
  BY <1>2, <1>3, <1>4, <1>5, <1>6, <1>7, <1>8, <1>9 DEF Next, Returned

LEMMA LinkedStep == LimitInv /\ AllLinked /\ [Next]_vars => AllLinked'
<1> SUFFICES ASSUME LimitInv, AllLinked, [Next]_vars PROVE AllLinked'
  OBVIOUS
<1>1. TypeOK /\ InStep /\ sent \in Seq(Transmissions) /\ resps \in Seq(Responses)
  BY DEF LimitInv, TypeOK
<1>2. CASE TransportFails \/ \E reply \in Replies[call] : Receive(reply)
  <2>1. pc = "send" /\ Transmit /\ pc' # "send" /\ Len(sent) = Len(resps)
    BY <1>1, <1>2 DEF TransportFails, Receive, Stop, InStep
  <2>2. /\ Len(sent') = Len(sent) + 1 /\ sent'[Len(sent')].req = req
        /\ \A i \in 1..Len(sent) : sent'[i] = sent[i]
    BY <1>1, <2>1, TransmitFacts
  <2>3. \A i \in 1..Len(sent) : resps'[i] = resps[i]
    BY <1>1, <1>2, <2>1, ReceiveFacts DEF TransportFails
  <2>4. Len(sent') <= Len(resps') + 1
    BY <1>1, <1>2, <2>1, <2>2, ReceiveFacts DEF TransportFails
  <2> SUFFICES ASSUME NEW i \in 1..Len(sent)
               PROVE  Linked(i, sent[i + 1].req)'
    BY <1>1, <2>1, <2>2, <2>4 DEF AllLinked
  <2>5. CASE i + 1 \in 1..Len(sent)
    <3>1. i \in 1..(Len(sent) - 1) /\ Linked(i, sent[i + 1].req)
      BY <1>1, <2>5 DEF AllLinked
    <3>2. sent'[i] = sent[i] /\ sent'[i + 1] = sent[i + 1] /\ resps'[i] = resps[i]
      BY <2>2, <2>3, <2>5
    <3> QED BY <3>1, <3>2 DEF Linked, RedirectTarget
  <2>6. CASE i = Len(sent)
    <3>1. Linked(i, req) /\ sent'[i + 1].req = req
      BY <1>1, <2>1, <2>2, <2>6 DEF AllLinked
    <3> QED BY <2>2, <2>3, <3>1 DEF Linked, RedirectTarget
  <2> QED BY <1>1, <2>5, <2>6
<1>3. CASE ~(TransportFails \/ \E reply \in Replies[call] : Receive(reply))
  <2>1. UNCHANGED sent
    BY <1>3 DEF Next, vars, NoAdapter, ReadStalls, RawReadFails, TooManyRedirects, UnrewindableBody,
                StoreNext, NoNext, Follow, Assemble, Return, ContentFails, Returned
  <2>2. \A i \in 1..Len(resps) : SameAnswer(resps'[i], resps[i])
    BY <2>1, OnlyLatest
  <2>3. \A i \in 1..(Len(sent) - 1) : Linked(i, sent[i + 1].req)'
    <3> TAKE i \in 1..(Len(sent) - 1)
    <3>1. i \in 1..Len(resps)
      BY <1>1 DEF AllLinked
    <3> QED BY <2>1, <2>2, <3>1 DEF AllLinked, Linked, SameAnswer, RedirectTarget
  <2>4. Len(sent') <= Len(resps') + 1
    BY <2>1, OnlyLatest DEF AllLinked
  <2>5. CASE Follow
    <3>1. /\ Redirected /\ req' = Following /\ pc \in {"follow", "next"}
      BY <2>5 DEF Follow, MayFollow, Redirected
    <3>2. /\ Following.url = Resolve(req.url, Response.location)
          /\ latest \in 1..Len(resps)
      BY <1>1, <3>1, RedirectedFacts
    <3>3. Len(sent) = latest /\ sent[Len(sent)].req = req
      BY <1>1, <3>1 DEF InStep, latest
    <3>4. SameAnswer(resps'[latest], Response) /\ RedirectTarget(Response) # None
      BY <2>2, <3>1, <3>2 DEF Response, Redirected
    <3>5. RedirectTarget(resps'[latest]) # None /\ resps'[latest].location = Response.location
      BY <3>4 DEF SameAnswer, RedirectTarget
    <3>6. Linked(Len(sent), req)'
      BY <2>1, <3>1, <3>2, <3>3, <3>5 DEF Linked
    <3> QED BY <2>1, <2>3, <2>4, <3>6 DEF AllLinked
  <2>6. CASE ~Follow
    <3>1. pc' # "send" \/ UNCHANGED <<pc, req>>
      BY <1>3, <2>6 DEF Next, vars, NoAdapter, ReadStalls, RawReadFails, TooManyRedirects,
             UnrewindableBody, StoreNext, NoNext, Assemble, Return, ContentFails,
             Returned, Stop
    <3>2. ASSUME pc = "send", sent # <<>>, UNCHANGED <<pc, req>>
          PROVE  Linked(Len(sent), req)'
      <4>1. Len(sent) \in 1..Len(resps)
        BY <1>1, <3>2 DEF InStep
      <4> QED BY <2>1, <2>2, <3>2, <4>1 DEF AllLinked, Linked, SameAnswer, RedirectTarget
    <3> QED BY <2>1, <2>3, <2>4, <3>1, <3>2 DEF AllLinked
  <2> QED BY <2>5, <2>6
<1> QED BY <1>2, <1>3

LEMMA HistoryStep == LimitInv /\ HistoryInv /\ [Next]_vars => HistoryInv'
<1> SUFFICES ASSUME LimitInv, HistoryInv, [Next]_vars PROVE HistoryComplete'
  BY ListedStep, LinkedStep DEF HistoryInv
<1>1. TypeOK /\ InStep /\ hist \in Seq(Nat) /\ Listed /\ AllLinked
  BY DEF LimitInv, TypeOK, HistoryInv
<1>2. CASE Return
  <2> SUFFICES ASSUME outcome' = "ok" PROVE HistoryComplete'
    BY DEF HistoryComplete
  <2>1. UNCHANGED sent /\ pc \in {"read", "deliver"}
            /\ (pc = "deliver" \/ ~call.follow)
    BY <1>1, <1>2 DEF Return, InStep
  <2>2. Len(resps') = Len(resps) /\ latest = Len(hist) + 1 /\ Len(sent) = latest
            /\ latest' = latest /\ latest \in Nat
    BY <1>1, <2>1, OnlyLatest DEF InStep, TypeOK, latest
  <2>3. Response'.history = hist
    <3>1. Response.history = hist
      BY <1>1, <2>1 DEF Listed
    <3>2. CASE resps' = resps
      BY <3>1, <3>2 DEF Response, latest
    <3>3. CASE resps' = [resps EXCEPT ![latest].content = "read", ![latest].open = FALSE]
      BY <1>1, <2>1, <3>1, <3>3, ContentFacts
    <3> QED BY <1>2, <3>2, <3>3 DEF Return
  <2>4. hist = [i \in 1..(latest - 1) |-> i]
    BY <1>1, <2>2, CountingUp DEF Listed
  <2>5. \A i \in 1..(latest - 1) : Linked(i, sent[i + 1].req)'
    BY <1>1, <2>1, <2>2, LinkedStep DEF AllLinked
  <2> QED BY <2>2, <2>3, <2>4, <2>5 DEF HistoryComplete, Linked
<1>3. CASE UNCHANGED vars
  BY <1>3 DEF vars, HistoryInv, HistoryComplete, Response, latest, RedirectTarget
<1>4. CASE ~Return /\ ~UNCHANGED vars
  <2>1. outcome' # "ok"
    BY <1>1, <1>4 DEF Next, NoAdapter, TransportFails, Receive, ReadStalls, RawReadFails,
         TooManyRedirects, UnrewindableBody, StoreNext, NoNext, Follow, Assemble,
         ContentFails, Returned, Stop, MayFollow, Redirected, InStep
  <2> QED BY <2>1 DEF HistoryComplete
<1> QED BY <1>2, <1>3, <1>4

\* The response a call returns has every earlier one in its history, oldest
\* first, each of which led to the request behind it.
THEOREM HistoriesComplete == Spec => []HistoryComplete
<1>1. Init => HistoryInv
  BY DEF Init, HistoryInv, Listed, AllLinked, HistoryComplete
<1>2. HistoryInv => HistoryComplete
  BY DEF HistoryInv
<1> QED BY <1>1, <1>2, LimitAlways, HistoryStep, PTL DEF Spec

-----------------------------------------------------------------------------
(* Response.next and the cookies of the session.                           *)

\* extract_cookies_to_jar twice is once.
LEMMA ExtractTwice ==
    ASSUME NEW j \in Jars, NEW h \in Hosts, NEW c \in CookieValues \cup {None, Expired}
    PROVE  ExtractCookies(ExtractCookies(j, h, c), h, c) = ExtractCookies(j, h, c)
BY DEF ExtractCookies, Jars, Domains

\* The next request depends on the answer of the server, not on what was done
\* with the response.
LEMMA SameFollowing ==
    ASSUME NEW r, NEW s, SameAnswer(r, s), NEW q, NEW j, NEW t, NEW np
    PROVE  RedirectedRequest(q, r, j, t, np) = RedirectedRequest(q, s, j, t, np)
BY DEF SameAnswer, RedirectedRequest

\* The session has taken the cookies of the response it looks at.
Settled ==
    pc \notin {"send", "done"} => ExtractCookies(jar, req.url.host, Response.cookie) = jar

\* What was stored is what will be sent, then what is ready, then what was sent.
NextKept ==
    /\ pc = "next" => Response.next = None
    /\ pc \in {"read", "follow"} /\ Response.next # None => Response.next = Following
    /\ pc = "send" /\ resps # <<>> /\ Response.next # None => Response.next = req

NextInv ==
    /\ Len(sent) <= Len(resps) + 1
    /\ Settled /\ NextKept /\ NextAgrees

\* Steps between two sends that leave the request, the jar and the proxies
\* alone do not change what will be sent.
LEMMA FollowingStays ==
    ASSUME LimitInv, [Next]_vars, pc \notin {"send", "done"},
           UNCHANGED <<call, req, proxies, jar, sent>>
    PROVE  /\ Following' = Following
           /\ SameAnswer(Response', Response)
           /\ Settled => (ExtractCookies(jar, req.url.host, Response.cookie) = jar)'
<1>1. latest \in 1..Len(resps) /\ latest' = latest
  BY OnlyLatest DEF LimitInv, InStep, TypeOK, latest
<1>2. SameAnswer(Response', Response)
  BY <1>1, OnlyLatest DEF Response
<1>3. Following' = Following
  BY <1>2, SameFollowing DEF Following
<1> QED BY <1>2, <1>3 DEF Settled, SameAnswer

LEMMA NextAgreesStep ==
    ASSUME LimitInv, NextInv, [Next]_vars
    PROVE  Len(sent') <= Len(resps') + 1 /\ NextAgrees'
<1>1. TypeOK /\ InStep /\ sent \in Seq(Transmissions) /\ resps \in Seq(Responses)
          /\ Len(sent) \in Nat /\ Len(resps) \in Nat
  BY DEF LimitInv, TypeOK
<1>2. CASE TransportFails \/ \E reply \in Replies[call] : Receive(reply)
  <2>1. pc = "send" /\ Transmit /\ Len(sent) = Len(resps)
    BY <1>1, <1>2 DEF TransportFails, Receive, InStep
  <2>2. /\ Len(sent') = Len(sent) + 1 /\ sent'[Len(sent')].req = req
        /\ \A i \in 1..Len(sent) : sent'[i] = sent[i]
    BY <1>1, <2>1, TransmitFacts
  <2>3. \A i \in 1..Len(sent) : resps'[i] = resps[i]
    BY <1>1, <1>2, <2>1, ReceiveFacts DEF TransportFails
  <2>4. Len(sent') <= Len(resps') + 1
    BY <1>1, <1>2, <2>1, <2>2, ReceiveFacts DEF TransportFails
  <2> SUFFICES ASSUME NEW i \in 1..Len(sent), resps[i].next # None
               PROVE  resps[i].next = sent'[i + 1].req
    BY <1>1, <2>2, <2>3, <2>4 DEF NextAgrees
  <2>5. CASE i + 1 \in 1..Len(sent)
    BY <1>1, <2>2, <2>5 DEF NextInv, NextAgrees
  <2>6. CASE i = Len(sent)
    <3>1. Response = resps[i] /\ resps # <<>>
      BY <1>1, <2>1, <2>6 DEF Response, latest
    <3> QED BY <2>1, <2>2, <2>6, <3>1 DEF NextInv, NextKept
  <2> QED BY <1>1, <2>5, <2>6
<1>3. CASE ~(TransportFails \/ \E reply \in Replies[call] : Receive(reply))
  <2>1. UNCHANGED sent
    BY <1>3 DEF Next, vars, NoAdapter, ReadStalls, RawReadFails, TooManyRedirects, UnrewindableBody,
                StoreNext, NoNext, Follow, Assemble, Return, ContentFails, Returned
  <2>2. Len(resps') = Len(resps) /\ \A i \in 1..(latest - 1) : resps'[i] = resps[i]
    BY <2>1, OnlyLatest
  <2>3. ASSUME NEW i \in 1..(Len(sent) - 1), i = latest
        PROVE  resps'[i] = resps[i]
    <3>1. pc = "done"
      BY <1>1, <2>3 DEF InStep, latest
    <3> QED BY <1>3, <3>1 DEF Next, vars, NoAdapter, ReadStalls, RawReadFails, TooManyRedirects,
           UnrewindableBody, StoreNext, NoNext, Follow, Assemble, Return,
           ContentFails, Returned, MayFollow, Redirected
  <2>4. \A i \in 1..(Len(sent) - 1) : i \in 1..(latest - 1) \/ i = latest
    BY <1>1 DEF NextInv, latest
  <2> QED BY <1>1, <2>1, <2>2, <2>3, <2>4 DEF NextInv, NextAgrees
<1> QED BY <1>2, <1>3

LEMMA NextStep == LimitInv /\ NextInv /\ [Next]_vars => NextInv'
<1> SUFFICES ASSUME LimitInv, NextInv, [Next]_vars PROVE Settled' /\ NextKept'
  BY NextAgreesStep DEF NextInv
<1>1. TypeOK /\ InStep /\ Settled /\ NextKept
  BY DEF LimitInv, NextInv
<1>2. CASE pc' = "done"
  BY <1>2 DEF Settled, NextKept
<1>3. CASE \E reply \in Replies[call] : Receive(reply)
  <2>1. PICK reply \in Replies[call] : Receive(reply)
    BY <1>3
  <2>2. Response'.cookie = reply.cookie /\ Response'.next = None
    BY <1>1, <2>1, ReceiveFacts
  <2>3. jar' = ExtractCookies(jar, req.url.host, reply.cookie) /\ UNCHANGED req
            /\ pc' \in {"follow", "next"}
    BY <2>1 DEF Receive
  <2>4. ExtractCookies(jar', req.url.host, reply.cookie) = jar'
    <3>1. req.url.host \in Hosts /\ jar \in Jars
      BY <1>1 DEF TypeOK, Requests, URLs
    <3>2. reply.cookie \in CookieValues \cup {None, Expired}
      BY <1>1, ChainAssumption DEF TypeOK, ReplySpace
    <3> QED BY <2>3, <3>1, <3>2, ExtractTwice
  <2> QED BY <2>2, <2>3, <2>4 DEF Settled, NextKept
<1>4. CASE Follow
  <2>1. Redirected /\ KeepResponse /\ pc = "follow" /\ pc' = "send" /\ req' = Following
    BY <1>4 DEF Follow, MayFollow
  <2>2. Response'.next = Response.next
    BY <1>1, <2>1, LoopFacts, DrainedFacts
  <2> QED BY <1>1, <2>1, <2>2 DEF Settled, NextKept
<1>5. CASE StoreNext
  <2>1. UNCHANGED <<call, req, proxies, jar, sent>> /\ pc = "next" /\ pc' = "read"
    BY <1>5 DEF StoreNext
  <2>2. Response'.next = Following
    BY <1>1, <1>5, StoreNextFacts
  <2> QED BY <1>1, <2>1, <2>2, FollowingStays DEF Settled, NextKept
<1>6. CASE NoNext
  <2>1. UNCHANGED <<call, req, proxies, jar, sent, resps>> /\ pc = "next" /\ pc' = "read"
    BY <1>6 DEF NoNext
  <2> QED BY <1>1, <2>1 DEF Settled, NextKept, Response, latest
<1>7. CASE Assemble
  <2>1. UNCHANGED <<call, req, proxies, jar, sent>> /\ pc = "follow" /\ pc' = "deliver"
    BY <1>7 DEF Assemble
  <2> QED BY <1>1, <2>1, FollowingStays DEF Settled, NextKept
<1>8. CASE Return /\ pc' # "done"
  <2>1. /\ UNCHANGED <<call, req, proxies, sent>> /\ pc = "read" /\ pc' = "follow"
        /\ jar' = ExtractCookies(jar, req.url.host, Response.cookie)
    BY <1>8 DEF Return, Stop
  <2>2. jar' = jar
    BY <1>1, <2>1 DEF Settled
  <2>3. Response'.next = Response.next
    <3>1. CASE resps' = resps
      BY <3>1 DEF Response, latest
    <3>2. CASE resps' = [resps EXCEPT ![latest].content = "read", ![latest].open = FALSE]
      BY <1>1, <2>1, <3>2, ContentFacts
    <3> QED BY <1>8, <3>1, <3>2 DEF Return
  <2> QED BY <1>1, <2>1, <2>2, <2>3, FollowingStays DEF Settled, NextKept
<1>9. CASE UNCHANGED vars
  BY <1>1, <1>9 DEF vars, Settled, NextKept, Response, latest, Following
<1> QED
  BY <1>2, <1>3, <1>4, <1>5, <1>6, <1>7, <1>8, <1>9
  DEF Next, Returned, NoAdapter, TransportFails, ReadStalls, RawReadFails, TooManyRedirects,
      UnrewindableBody, ContentFails, Stop

LEMMA NextAlways == Spec => []NextInv
<1>1. Init => NextInv
  BY DEF Init, NextInv, Settled, NextKept, NextAgrees
<1> QED BY <1>1, LimitAlways, NextStep, PTL DEF Spec

\* What Response.next gives of a response that was followed is what was sent.
THEOREM NextAlwaysAgrees == Spec => []NextAgrees
<1>1. NextInv => NextAgrees
  BY DEF NextInv
<1> QED BY <1>1, NextAlways, PTL

\* A session takes cookies from the server that answered last and from nobody
\* else; the second time the loop takes them changes nothing.
THEOREM SessionRemembersServers == Spec => SessionCookiesFromServers
<1> DEFINE A == \A d \in Domains : jar'[d] # jar[d] =>
                   /\ d = sent'[Len(sent')].req.url.host
                   /\ resps'[Len(resps')].cookie # None
<1>1. LimitInv /\ NextInv /\ [Next]_vars => [A]_vars
  <2> SUFFICES ASSUME LimitInv, NextInv, [Next]_vars PROVE [A]_vars
    OBVIOUS
  <2>1. TypeOK /\ InStep /\ Settled
    BY DEF LimitInv, NextInv
  <2>2. CASE \E reply \in Replies[call] : Receive(reply)
    <3>1. PICK reply \in Replies[call] : Receive(reply)
      BY <2>2
    <3>2. resps'[Len(resps')].cookie = reply.cookie
      BY <2>1, <3>1, ReceiveFacts DEF Response, latest
    <3>3. sent'[Len(sent')].req = req
      BY <2>1, <3>1, TransmitFacts DEF Receive
    <3>4. jar' = ExtractCookies(jar, req.url.host, reply.cookie) /\ jar \in Jars
      BY <2>1, <3>1 DEF Receive, TypeOK
    <3> QED BY <3>2, <3>3, <3>4 DEF ExtractCookies, Jars
  <2>3. CASE UNCHANGED jar
    BY <2>3
  <2>4. CASE Return /\ ~UNCHANGED jar
    BY <2>1, <2>4 DEF Return, Settled
  <2> QED BY <2>2, <2>3, <2>4
          DEF Next, Returned, vars, NoAdapter, TransportFails, ReadStalls, RawReadFails,
              TooManyRedirects, UnrewindableBody, StoreNext, NoNext, Follow,
              Assemble, ContentFails
<1> QED BY <1>1, LimitAlways, NextAlways, PTL DEF Spec, SessionCookiesFromServers

-----------------------------------------------------------------------------
(***************************************************************************)
(* Part 3: the requests.                                                   *)
(***************************************************************************)

(* What the headers and the position of a prepared request say of its      *)
(* body.                                                                   *)

\* The body of FramingMatchesBody.
Framed(p) ==
    /\ p.chunked = (p.body \in Streams \ Sized)
    /\ (p.length = "body") = (p.body \in Sized)
    /\ p.ctype = (p.body = "form")
    /\ p.length = "0" => p.method \notin {"GET", "HEAD"}

Tellable == {"file", "tape", "pipe"}

\* Such a body was asked where it stands when the request was prepared.
Positioned(p) == p.body \in Tellable => p.position # None

\* The parts of a request that Framed and Positioned look at, the length aside.
SameBody(p, q) ==
    /\ p.body = q.body /\ p.method = q.method /\ p.position = q.position
    /\ p.chunked = q.chunked /\ p.ctype = q.ctype

\* prepare_content_length corrects the length and nothing else.
LEMMA ContentLengthFacts ==
    ASSUME NEW p \in Requests
    PROVE  /\ SameBody(PrepareContentLength(p), p)
           /\ PrepareContentLength(p).length =
                  IF p.body # None
                  THEN IF p.body \in Sized THEN "body" ELSE p.length
                  ELSE IF p.method \notin {"GET", "HEAD"} /\ p.length = None
                       THEN "0" ELSE p.length
BY DEF PrepareContentLength, SameBody, Requests

\* A login that is added leaves a framed request framed (prepare_auth).
LEMMA PrepareAuthFrames ==
    ASSUME NEW p \in Requests, Framed(p), NEW auth \in Credentials \cup {None}
    PROVE  Framed(PrepareAuth(p, auth)) /\ PrepareAuth(p, auth).position = p.position
<1>1. CASE auth = None
  BY <1>1 DEF PrepareAuth
<1>2. CASE auth # None
  <2> DEFINE q == [p EXCEPT !.auth = auth]
  <2>1. q \in Requests /\ SameBody(q, p) /\ q.length = p.length
    BY DEF Requests, SameBody
  <2>2. PrepareAuth(p, auth) = PrepareContentLength(q)
    BY <1>2 DEF PrepareAuth
  <2> HIDE DEF q
  <2>3. SameBody(PrepareContentLength(q), p)
    BY <2>1, ContentLengthFacts DEF SameBody
  <2>4. None \notin Sized /\ None # "form"
    BY RequestAssumption DEF Bodies, Sized, Streams
  <2> QED BY <2>1, <2>2, <2>3, <2>4, ContentLengthFacts DEF Framed, SameBody
<1> QED BY <1>1, <1>2

\* prepare_body frames the body it is given and records where it stands.
LEMMA PrepareBodyFrames ==
    ASSUME NEW p \in Requests, NEW body \in Bodies \cup {None},
           p.length = None, ~p.chunked, ~p.ctype, p.position = None
    PROVE  Framed(PrepareBody(p, body)) /\ Positioned(PrepareBody(p, body))
<1>1. None \notin Bodies /\ None # "body" /\ None # "0"
  BY RequestAssumption
<1>2. CASE body \in Streams
  <2>1. body \in {"file", "tape"} => PrepareBody(p, body).position = "offset"
    BY <1>2 DEF PrepareBody, Requests
  <2>2. body = "pipe" => PrepareBody(p, body).position = "unknown"
    BY <1>2 DEF PrepareBody, Requests
  <2>3. /\ PrepareBody(p, body).body = body
        /\ PrepareBody(p, body).length = IF body \in Sized THEN "body" ELSE None
        /\ PrepareBody(p, body).chunked = (body \notin Sized)
        /\ PrepareBody(p, body).ctype = FALSE
        /\ (body = "form") = FALSE
    BY <1>2 DEF PrepareBody, Requests, Streams
  <2>4. Positioned(PrepareBody(p, body))
    BY <2>1, <2>2, <2>3, RequestAssumption DEF Positioned, Tellable
  <2>5. Framed(PrepareBody(p, body))
    <3>1. (body \in Streams \ Sized) = (body \notin Sized)
      BY <1>2
    <3> DEFINE r == PrepareBody(p, body)
    <3>2. (r.length = "body") = (body \in Sized) /\ r.length # "0"
      BY <1>1, <2>3
    <3> HIDE DEF r
    <3>3. r.body = body /\ r.chunked = (body \notin Sized) /\ r.ctype = (body = "form")
      BY <2>3 DEF r
    <3>4. Framed(r)
      BY <3>1, <3>2, <3>3 DEF Framed
    <3> QED BY <3>4 DEF r
  <2> QED BY <2>4, <2>5
<1>3. CASE body \notin Streams
  <2> DEFINE q == [p EXCEPT !.body = body, !.ctype = (body = "form")]
  <2>1. /\ q \in Requests /\ q.body = body /\ q.ctype = (body = "form")
        /\ q.length = None /\ q.chunked = FALSE
    BY DEF Requests
  <2>2. PrepareBody(p, body) = PrepareContentLength(q)
    BY <1>3 DEF PrepareBody
  <2> HIDE DEF q
  <2>3. body \in {"form", None}
    BY <1>3 DEF Bodies
  <2>4. SameBody(PrepareContentLength(q), q)
    BY <2>1, ContentLengthFacts
  <2>5. PrepareContentLength(q).length =
            IF body = "form" THEN "body"
            ELSE IF q.method \notin {"GET", "HEAD"} THEN "0" ELSE None
    BY <1>1, <2>1, <2>3, ContentLengthFacts DEF Sized, Bodies
  <2>6. None \notin Sized /\ None \notin Streams /\ None # "form" /\ None \notin Tellable
    BY <1>1 DEF Bodies, Sized, Streams, Tellable
  <2>7. Framed(PrepareContentLength(q))
    <3> DEFINE r == PrepareContentLength(q)
    <3>1. r.body = body /\ r.chunked = FALSE /\ r.ctype = (body = "form")
              /\ r.method = q.method
      BY <2>1, <2>4 DEF SameBody
    <3>2. (body \in Streams \ Sized) = FALSE /\ (body \in Sized) = (body = "form")
      BY <2>3, <2>6 DEF Streams, Sized
    <3>3. (r.length = "body") = (body \in Sized)
      BY <1>1, <2>5, <3>2
    <3>4. r.length = "0" => r.method \notin {"GET", "HEAD"}
      BY <1>1, <2>5, <3>1
    <3> QED BY <3>1, <3>2, <3>3, <3>4 DEF Framed
  <2>8. Positioned(PrepareContentLength(q))
    BY <2>1, <2>3, <2>4, <2>6 DEF Positioned, SameBody, Tellable
  <2> QED BY <2>2, <2>7, <2>8
<1> QED BY <1>2, <1>3

\* prepare_request makes a framed request.
LEMMA PrepareRequestFrames ==
    ASSUME NEW c \in CallSpace, NEW j \in Jars
    PROVE  Framed(PrepareRequest(c, j)) /\ Positioned(PrepareRequest(c, j))
<1> DEFINE blank == [method |-> c.method, url |-> c.url, auth |-> None,
                     jar |-> EmptyJar, cookies |-> {}, proxyAuth |-> None,
                     body |-> None, position |-> None, length |-> None,
                     chunked |-> FALSE, ctype |-> FALSE]
           merged == MergeCookies(MergeCookies(EmptyJar, j),
                                  CookieJarFromDict(c.cookie))
           auth == IF c.auth THEN [by |-> "caller", host |-> c.url.host]
                             ELSE NetrcAuth(c.url)
           p1 == PrepareCookies(blank, merged)
           p2 == PrepareBody(p1, c.body)
<1>1. EmptyJar \in Jars
  BY DEF EmptyJar, Jars
<1>2. c.cookie \in CookieValues \cup {None} /\ c.url \in URLs
          /\ c.url.host \in Hosts /\ c.body \in Bodies \cup {None}
          /\ c.method \in Methods
  BY DEF CallSpace, URLs
<1>3. merged \in Jars
  BY <1>1, <1>2, MergeCookiesType, CookieJarFromDictType
<1>4. blank \in Requests
  BY <1>1, <1>2 DEF Requests, CookieHeaders, Positions, Lengths
<1>5. auth \in Credentials \cup {None}
  BY <1>2, NetrcAuthType DEF Credentials
<1>6. /\ p1 \in Requests /\ p1.length = None /\ ~p1.chunked /\ ~p1.ctype
      /\ p1.position = None
  BY <1>3, <1>4, PrepareCookiesType DEF PrepareCookies
<1>7. p2 \in Requests /\ Framed(p2) /\ Positioned(p2) /\ p2.body = c.body
  <2> HIDE DEF p1
  <2> QED BY <1>2, <1>6, PrepareBodyType, PrepareBodyFrames
<1>8. PrepareRequest(c, j) = PrepareAuth(p2, auth)
  BY DEF PrepareRequest
<1> HIDE DEF p2, auth
<1>9. PrepareAuth(p2, auth).body = p2.body
  BY <1>5, <1>7, PrepareAuthType
<1> QED BY <1>5, <1>7, <1>8, <1>9, PrepareAuthFrames DEF Positioned

\* A redirected request is framed when the one before was: what a 307 keeps is
\* kept with its headers, what the others drop is dropped with them, and the
\* auth that is rebuilt last changes nothing about that (resolve_redirects).
LEMMA RedirectedFrames ==
    ASSUME NEW r \in Requests, Framed(r), Positioned(r),
           NEW resp \in Responses, resp.location \in Locations,
           NEW j \in Jars, NEW t \in ProxyTables, NEW np
    PROVE  LET f == RedirectedRequest(r, resp, j, t, np)
           IN  Framed(f) /\ Positioned(f)
<1> DEFINE url == Resolve(r.url, resp.location)
           moved == [r EXCEPT !.url = url, !.method = RebuildMethod(@, resp.status)]
           purged == PurgeBody(moved, resp.status)
           plain == [purged EXCEPT !.cookies = {}]
           merged == MergeCookies(
                         ExtractCookies(r.jar, r.url.host, resp.cookie), j)
           prepared == PrepareCookies(plain, merged)
           pa == ProxyAuthorization(url, RebuildProxies(url, t, np))
           fresh == [prepared EXCEPT !.proxyAuth = pa]
           homed == [fresh EXCEPT !.auth = IF url.host = r.url.host THEN @ ELSE None]
<1>1. r.url \in URLs /\ r.url.host \in Hosts /\ r.jar \in Jars /\ r.method \in Methods
  BY DEF Requests, URLs
<1>2. resp.status \in Statuses /\ resp.cookie \in CookieValues \cup {None, Expired}
  BY DEF Responses
<1>3. url \in URLs
  BY <1>1, ResolveType
<1>4. RebuildMethod(r.method, resp.status) \in Methods
          /\ (KeepsBody(resp.status) => RebuildMethod(r.method, resp.status) = r.method)
  BY <1>1 DEF RebuildMethod, Methods, KeepsBody
<1>5. /\ moved \in Requests /\ moved.url = url /\ moved.body = r.body
      /\ moved.position = r.position
      /\ moved.length = r.length /\ moved.chunked = r.chunked /\ moved.ctype = r.ctype
      /\ moved.method = RebuildMethod(r.method, resp.status)
  BY <1>3, <1>4 DEF Requests
<1>6. purged \in Requests /\ purged.url = url /\ purged.position = r.position
          /\ purged.body = IF KeepsBody(resp.status) THEN r.body ELSE None
  <2>1. purged.position = moved.position
    BY <1>5 DEF PurgeBody, Requests
  <2> HIDE DEF moved, url
  <2> QED BY <1>2, <1>5, <2>1, PurgeBodyType
<1>7. Framed(purged)
  <2> HIDE DEF moved, url
  <2>1. CASE KeepsBody(resp.status)
    <3>1. purged = moved /\ moved.method = r.method
      BY <1>4, <1>5, <2>1 DEF PurgeBody
    <3> QED BY <1>5, <3>1 DEF Framed
  <2>2. CASE ~KeepsBody(resp.status)
    <3>1. /\ purged.body = None /\ purged.length = None
          /\ purged.chunked = FALSE /\ purged.ctype = FALSE
      BY <1>5, <2>2 DEF PurgeBody, Requests
    <3>2. /\ (None \in Streams \ Sized) = FALSE /\ (None \in Sized) = FALSE
          /\ (None = "form") = FALSE /\ (None = "body") = FALSE /\ None # "0"
      BY RequestAssumption DEF Bodies, Streams, Sized
    <3> HIDE DEF purged
    <3> QED BY <3>1, <3>2 DEF Framed
  <2> QED BY <2>1, <2>2
<1>8. merged \in Jars
  BY <1>1, <1>2, ExtractCookiesType, MergeCookiesType
<1>9. pa \in AuthProxies \cup {None}
  BY ProxyAuthorizationType
<1>10. /\ plain \in Requests /\ SameBody(plain, purged)
       /\ plain.length = purged.length /\ plain.url = url
  <2>1. {} \in CookieHeaders
    BY DEF CookieHeaders
  <2> HIDE DEF purged, url
  <2> QED BY <1>6, <2>1 DEF Requests, SameBody
<1>11. /\ prepared \in Requests /\ SameBody(prepared, plain)
       /\ prepared.length = plain.length /\ prepared.url = url
  <2> HIDE DEF plain, merged, url
  <2>1. prepared \in Requests /\ prepared.url = url
    BY <1>8, <1>10, PrepareCookiesType
  <2> QED BY <1>10, <2>1 DEF Requests, PrepareCookies, SameBody
<1>12. /\ fresh \in Requests /\ SameBody(fresh, prepared)
       /\ fresh.length = prepared.length /\ fresh.url = url
  <2> HIDE DEF prepared, pa, url
  <2> QED BY <1>9, <1>11 DEF Requests, SameBody
<1>13. /\ homed \in Requests /\ SameBody(homed, fresh)
       /\ homed.length = fresh.length /\ homed.url = url
  <2> HIDE DEF fresh, url
  <2> QED BY <1>12 DEF Requests, SameBody
<1>14. RedirectedRequest(r, resp, j, t, np) = PrepareAuth(homed, NetrcAuth(url))
  <2>1. RedirectedRequest(r, resp, j, t, np) = RebuildAuth(fresh, r.url)
    BY DEF RedirectedRequest
  <2> HIDE DEF fresh, url
  <2> QED BY <1>12, <2>1 DEF RebuildAuth
<1> HIDE DEF homed, fresh, prepared, plain, purged, moved, url
<1>15. Framed(homed) /\ Positioned(homed)
  <2>1. /\ SameBody(homed, purged) /\ homed.length = purged.length
    BY <1>10, <1>11, <1>12, <1>13 DEF SameBody
  <2>2. Framed(homed)
    BY <1>7, <2>1 DEF Framed, SameBody
  <2>3. homed.body \in {r.body, None} /\ homed.position = r.position
    BY <1>6, <2>1 DEF SameBody
  <2>4. None \notin Tellable
    BY RequestAssumption DEF Tellable, Bodies, Streams
  <2> QED BY <2>2, <2>3, <2>4 DEF Positioned
<1>16. NetrcAuth(url) \in Credentials \cup {None}
  BY <1>3, NetrcAuthType
<1>17. PrepareAuth(homed, NetrcAuth(url)).body = homed.body
  BY <1>13, <1>16, PrepareAuthType
<1> QED BY <1>13, <1>14, <1>15, <1>16, <1>17, PrepareAuthFrames DEF Positioned

-----------------------------------------------------------------------------
(* The invariant.                                                          *)

\* Have the first n responses all asked for the body once more?
Kept(n) == \A j \in 1..n : resps[j].status \in {307, 308}

\* What a request that follows n responses has of the body and the method of
\* the call: the body of BodyFollows.
Carries(p, n) ==
    /\ p.body = IF Kept(n) THEN call.body ELSE None
    /\ Kept(n) \/ call.method = "HEAD" => p.method = call.method
    /\ p.method \in {call.method, "GET"}

RightBody(p, n) == Carries(p, n) /\ Framed(p) /\ Positioned(p)

(***************************************************************************)
(* The three properties speak of requests that were sent.  They are kept   *)
(* because the request about to be sent has them, and finds its body where *)
(* it is to be sent from.                                                  *)
(***************************************************************************)
BodyReady ==
    pc = "send" => /\ RightBody(req, Len(resps))
                   /\ req.body \in Tellable => unread

BodyInv ==
    /\ Len(sent) <= Len(resps) + 1
    /\ \A i \in 1..Len(sent) : /\ RightBody(sent[i].req, i - 1)
                               /\ sent[i].req.body \in Tellable => sent[i].whole
    /\ BodyReady

LEMMA BodyInit == Init => BodyInv
<1> SUFFICES ASSUME Init PROVE BodyInv
  OBVIOUS
<1>1. call \in CallSpace /\ jar \in Jars
  BY ChainAssumption DEF Init
<1>2. req.body = call.body /\ req.method = call.method /\ Framed(req) /\ Positioned(req)
  BY <1>1, PrepareRequestType, PrepareRequestFrames DEF Init
<1>3. resps = <<>> /\ sent = <<>> /\ unread
  BY DEF Init
<1>4. Carries(req, Len(resps))
  BY <1>2, <1>3 DEF Carries, Kept
<1> QED BY <1>2, <1>3, <1>4 DEF BodyInv, BodyReady, RightBody

\* After a step that sends nothing, the requests that were sent still carry
\* what they should.
LEMMA SentKept ==
    ASSUME TypeOK, BodyInv, UNCHANGED <<call, sent>>, Len(resps') = Len(resps),
           \A i \in 1..Len(resps) : resps'[i].status = resps[i].status
    PROVE  /\ Len(sent') <= Len(resps') + 1
           /\ \A i \in 1..Len(sent') : /\ RightBody(sent[i].req, i - 1)'
                                       /\ sent'[i].req.body \in Tellable => sent'[i].whole
<1>1. Len(resps) \in Nat /\ Len(sent) \in Nat
  BY DEF TypeOK
<1>2. ASSUME NEW n \in 0..Len(resps) PROVE Kept(n)' <=> Kept(n)
  BY <1>1, <1>2 DEF Kept
<1>3. ASSUME NEW i \in 1..Len(sent) PROVE RightBody(sent[i].req, i - 1)'
  <2>1. i - 1 \in 0..Len(resps)
    BY <1>1 DEF BodyInv
  <2>2. Kept(i - 1)' <=> Kept(i - 1)
    BY <1>2, <2>1
  <2> QED BY <2>2 DEF BodyInv, RightBody, Carries, Framed, Positioned
<1> QED BY <1>1, <1>3 DEF BodyInv

\* No step changes what a server answered, and only the arrival of a response
\* makes the list longer.
LEMMA AnswersStay ==
    ASSUME LimitInv, [Next]_vars
    PROVE  /\ UNCHANGED sent => Len(resps') = Len(resps)
           /\ \A i \in 1..Len(resps) : SameAnswer(resps'[i], resps[i])
<1>1. CASE UNCHANGED sent
  BY <1>1, OnlyLatest
<1>2. CASE TransportFails
  BY <1>2 DEF TransportFails, SameAnswer
<1>3. CASE \E reply \in Replies[call] : Receive(reply)
  <2>1. TypeOK /\ Transmit
    BY <1>3 DEF LimitInv, Receive
  <2>2. ~UNCHANGED sent
    BY <2>1, TransmitFacts DEF TypeOK
  <2> QED BY <1>3, <2>1, <2>2, ReceiveFacts DEF SameAnswer
<1>4. UNCHANGED sent \/ TransportFails \/ \E reply \in Replies[call] : Receive(reply)
  BY DEF Next, vars, NoAdapter, ReadStalls, RawReadFails, TooManyRedirects, UnrewindableBody,
         StoreNext, NoNext, Follow, Assemble, Return, ContentFails, Returned
<1> QED BY <1>1, <1>2, <1>3, <1>4

\* The request that was ready is sent as it is.
LEMMA BodyTransmit ==
    ASSUME LimitInv, BodyInv, pc = "send", Transmit, UNCHANGED call,
           Len(resps') \in {Len(resps), Len(resps) + 1},
           \A i \in 1..Len(resps) : resps'[i].status = resps[i].status
    PROVE  /\ Len(sent') <= Len(resps) + 1
           /\ \A i \in 1..Len(sent') : /\ RightBody(sent[i].req, i - 1)'
                                       /\ sent'[i].req.body \in Tellable => sent'[i].whole
<1>1. /\ sent \in Seq(Transmissions) /\ Len(sent') = Len(sent) + 1
      /\ sent'[Len(sent')].req = req
      /\ \A i \in 1..Len(sent) : sent'[i] = sent[i]
      /\ Len(resps) \in Nat /\ Len(sent) = Len(resps)
  BY TransmitFacts DEF LimitInv, TypeOK, InStep
<1>2. ASSUME NEW n \in 0..Len(resps) PROVE Kept(n)' <=> Kept(n)
  <2>1. \A j \in 1..n : resps'[j].status = resps[j].status
    BY <1>1
  <2> QED BY <2>1 DEF Kept
<1>3. RightBody(req, Len(resps)) /\ (req.body \in Tellable => unread)
  BY DEF BodyInv, BodyReady
<1> SUFFICES ASSUME NEW i \in 1..Len(sent')
             PROVE  /\ RightBody(sent[i].req, i - 1)'
                    /\ sent'[i].req.body \in Tellable => sent'[i].whole
  BY <1>1
<1>4. Kept(i - 1)' <=> Kept(i - 1)
  BY <1>1, <1>2
<1>5. CASE i \in 1..Len(sent)
  BY <1>1, <1>4, <1>5 DEF BodyInv, RightBody, Carries, Framed, Positioned
<1>6. CASE i = Len(sent')
  <2>1. sent'[i].req = req /\ i - 1 = Len(resps)
    BY <1>1, <1>6
  <2>2. sent'[i].whole = (req.body \in Streams => unread)
    BY <1>1, <1>6 DEF Transmit
  <2>3. RightBody(req, i - 1)
    BY <1>3, <2>1
  <2>4. RightBody(sent[i].req, i - 1)'
    BY <1>4, <2>1, <2>3 DEF RightBody, Carries, Framed, Positioned
  <2>5. sent'[i].req.body \in Tellable => sent'[i].whole
    BY <1>3, <2>1, <2>2
  <2> QED BY <2>4, <2>5
<1> QED BY <1>1, <1>5, <1>6

LEMMA BodyStep == LimitInv /\ BodyInv /\ [Next]_vars => BodyInv'
<1> SUFFICES ASSUME LimitInv, BodyInv, [Next]_vars PROVE BodyInv'
  OBVIOUS
<1>1. TypeOK /\ InStep /\ Len(resps) \in Nat
  BY DEF LimitInv, TypeOK
<1>2. CASE TransportFails \/ \E reply \in Replies[call] : Receive(reply)
  <2>1. pc = "send" /\ Transmit /\ UNCHANGED call /\ pc' # "send"
    BY <1>2 DEF TransportFails, Receive, Stop
  <2>2. Len(resps') \in {Len(resps), Len(resps) + 1}
    <3>1. CASE TransportFails
      BY <3>1 DEF TransportFails
    <3>2. CASE \E reply \in Replies[call] : Receive(reply)
      <4>1. PICK r : resps' = Append(resps, r)
        BY <3>2 DEF Receive
      <4> QED BY <1>1, <4>1 DEF TypeOK
    <3> QED BY <1>2, <3>1, <3>2
  <2>3. \A i \in 1..Len(resps) : resps'[i].status = resps[i].status
    BY AnswersStay DEF SameAnswer
  <2>4. /\ Len(sent') <= Len(resps) + 1
        /\ \A i \in 1..Len(sent') : /\ RightBody(sent[i].req, i - 1)'
                                    /\ sent'[i].req.body \in Tellable => sent'[i].whole
    BY <2>1, <2>2, <2>3, BodyTransmit
  <2>5. Len(sent') \in Nat
    BY <1>1, <2>1, TransmitFacts
  <2> QED BY <1>1, <2>1, <2>2, <2>4, <2>5 DEF BodyInv, BodyReady
<1>3. CASE Follow
  <2>1. /\ Redirected /\ pc = "follow" /\ req' = Following
        /\ UNCHANGED <<call, sent>>
        /\ Rewindable(Following) => CanRewind(Following)
        /\ unread' = (unread \/ Rewindable(Following))
        /\ resps' = [resps EXCEPT ![latest] = Drained(@)]
    BY <1>3 DEF Follow, MayFollow, Rewind, KeepResponse
  <2>2. /\ Len(resps') = Len(resps)
        /\ \A i \in 1..Len(resps) : resps'[i].status = resps[i].status
    BY <1>1, <2>1, KeepResponseFacts
  <2>3. /\ latest \in 1..Len(resps) /\ Response \in Responses
        /\ Response.location \in Locations
        /\ Following.method = RebuildMethod(req.method, Response.status)
        /\ Following.body = IF KeepsBody(Response.status) THEN req.body ELSE None
    BY <1>1, <2>1, RedirectedFacts
  <2>4. req \in Requests /\ jar \in Jars /\ proxies \in ProxyTables
    BY <1>1 DEF TypeOK
  <2>5. RightBody(req, latest - 1)
    <3>1. Len(sent) = latest /\ sent[Len(sent)].req = req
      BY <1>1, <2>1 DEF InStep, latest
    <3> QED BY <2>3, <3>1 DEF BodyInv
  <2>6. Framed(Following) /\ Positioned(Following)
    BY <2>3, <2>4, <2>5, RedirectedFrames DEF RightBody, Following
  <2>7. Kept(latest) <=> Kept(latest - 1) /\ KeepsBody(Response.status)
    <3>1. \A i \in 1..latest : i \in 1..(latest - 1) \/ i = latest
      BY <2>3
    <3> QED BY <2>3, <3>1 DEF Kept, KeepsBody, Response
  <2>8. Carries(Following, latest)
    <3>1. KeepsBody(Response.status) \/ req.method = "HEAD" =>
              Following.method = req.method
      BY <2>3 DEF RebuildMethod, KeepsBody
    <3>2. Following.method \in {req.method, "GET"}
      BY <2>3 DEF RebuildMethod
    <3> QED BY <2>3, <2>5, <2>7, <3>1, <3>2 DEF RightBody, Carries
  <2>9. Following.body \in Tellable => unread'
    <3> SUFFICES ASSUME Following.body \in Tellable PROVE Rewindable(Following)
      BY <2>1
    <3>1. Following.position # None
      BY <2>6 DEF Positioned
    <3>2. Following.length = "body" \/ Following.chunked
      BY <2>6 DEF Framed, Tellable, Streams, Sized
    <3> QED BY <3>1, <3>2, RequestAssumption DEF Rewindable
  <2>10. RightBody(req, Len(resps))'
    <3>1. Kept(Len(resps))' <=> \A j \in 1..Len(resps') : resps'[j].status \in {307, 308}
      BY DEF Kept
    <3>2. Kept(Len(resps))' <=> Kept(latest)
      BY <2>2, <3>1 DEF Kept, latest
    <3> HIDE DEF Following
    <3> QED BY <2>1, <2>6, <2>8, <3>2 DEF RightBody, Carries, Framed, Positioned
  <2> QED BY <1>1, <2>1, <2>2, <2>9, <2>10, SentKept DEF BodyInv, BodyReady, latest
<1>4. CASE NoAdapter \/ ReadStalls \/ RawReadFails \/ TooManyRedirects \/ UnrewindableBody
           \/ StoreNext \/ NoNext \/ Assemble \/ Return \/ ContentFails
  <2>1. UNCHANGED <<call, sent>> /\ pc' # "send"
    BY <1>4 DEF NoAdapter, ReadStalls, RawReadFails, TooManyRedirects, UnrewindableBody,
                StoreNext, NoNext, Assemble, Return, ContentFails, Stop
  <2>2. /\ Len(resps') = Len(resps)
        /\ \A i \in 1..Len(resps) : resps'[i].status = resps[i].status
    BY <2>1, AnswersStay DEF SameAnswer
  <2> QED BY <1>1, <2>1, <2>2, SentKept DEF BodyInv, BodyReady
<1>5. CASE UNCHANGED vars
  BY <1>5 DEF vars, BodyInv, BodyReady, RightBody, Carries, Kept, Framed, Positioned
<1> QED
  BY <1>2, <1>3, <1>4, <1>5 DEF Next, Returned

LEMMA BodyAlways == Spec => []BodyInv
BY LimitAlways, BodyInit, BodyStep, PTL DEF Spec

\* Exactly the chains of 307 and 308 send the body and the method of the call
\* again; every other request has no body.
THEOREM BodiesFollow == Spec => []BodyFollows
<1>1. BodyInv => BodyFollows
  BY DEF BodyInv, RightBody, Carries, Kept, BodyFollows
<1> QED BY <1>1, BodyAlways, PTL

\* Content-Length, Transfer-Encoding and Content-Type agree with the body of
\* every request, wherever the chain went and whatever login was put in.
THEOREM BodiesFramed == Spec => []FramingMatchesBody
<1>1. BodyInv => FramingMatchesBody
  BY DEF BodyInv, RightBody, Framed, FramingMatchesBody
<1> QED BY <1>1, BodyAlways, PTL

\* A body that knows its position is sent from there every time.
THEOREM BodiesWhole == Spec => []TellableBodyWhole
<1>1. BodyInv => TellableBodyWhole
  BY DEF BodyInv, Tellable, TellableBodyWhole
<1> QED BY <1>1, BodyAlways, PTL

-----------------------------------------------------------------------------
(* Cookies.                                                                *)

\* The Cookie header of a prepared request is that of its jar.
FromItsJar(p) == p.cookies = CookieHeader(p.jar, p.url.host)

\* prepare_content_length and prepare_auth leave the cookies alone.
LEMMA PrepareAuthCookies ==
    ASSUME NEW p \in Requests, NEW auth
    PROVE  /\ PrepareAuth(p, auth).jar = p.jar
           /\ PrepareAuth(p, auth).cookies = p.cookies
           /\ PrepareAuth(p, auth).proxyAuth = p.proxyAuth
BY DEF PrepareAuth, PrepareContentLength, Requests

LEMMA PrepareBodyCookies ==
    ASSUME NEW p \in Requests, NEW body
    PROVE  PrepareBody(p, body).jar = p.jar /\ PrepareBody(p, body).cookies = p.cookies
BY DEF PrepareBody, PrepareContentLength, Requests

\* prepare_cookies of a request without a Cookie header.
LEMMA PrepareCookiesMakes ==
    ASSUME NEW p \in Requests, p.cookies = {}, NEW j \in Jars
    PROVE  PrepareCookies(p, j).jar = j /\ FromItsJar(PrepareCookies(p, j))
BY DEF PrepareCookies, Requests, FromItsJar

LEMMA PrepareRequestCookies ==
    ASSUME NEW c \in CallSpace, NEW j \in Jars
    PROVE  FromItsJar(PrepareRequest(c, j))
<1> DEFINE blank == [method |-> c.method, url |-> c.url, auth |-> None,
                     jar |-> EmptyJar, cookies |-> {}, proxyAuth |-> None,
                     body |-> None, position |-> None, length |-> None,
                     chunked |-> FALSE, ctype |-> FALSE]
           merged == MergeCookies(MergeCookies(EmptyJar, j),
                                  CookieJarFromDict(c.cookie))
           auth == IF c.auth THEN [by |-> "caller", host |-> c.url.host]
                             ELSE NetrcAuth(c.url)
           p1 == PrepareCookies(blank, merged)
           p2 == PrepareBody(p1, c.body)
<1>1. EmptyJar \in Jars
  BY DEF EmptyJar, Jars
<1>2. c.cookie \in CookieValues \cup {None} /\ c.url \in URLs
          /\ c.url.host \in Hosts /\ c.body \in Bodies \cup {None}
          /\ c.method \in Methods
  BY DEF CallSpace, URLs
<1>3. merged \in Jars
  BY <1>1, <1>2, MergeCookiesType, CookieJarFromDictType
<1>4. blank \in Requests /\ blank.cookies = {}
  BY <1>1, <1>2 DEF Requests, CookieHeaders, Positions, Lengths
<1>5. auth \in Credentials \cup {None}
  BY <1>2, NetrcAuthType DEF Credentials
<1>6. p1 \in Requests /\ FromItsJar(p1)
  <2> HIDE DEF blank, merged
  <2> QED BY <1>3, <1>4, PrepareCookiesType, PrepareCookiesMakes
<1>7. p2 \in Requests /\ FromItsJar(p2)
  <2> HIDE DEF p1
  <2> QED BY <1>2, <1>6, PrepareBodyType, PrepareBodyCookies DEF FromItsJar
<1>8. PrepareRequest(c, j) = PrepareAuth(p2, auth)
  BY DEF PrepareRequest
<1> HIDE DEF p2, auth
<1> QED BY <1>5, <1>7, <1>8, PrepareAuthType, PrepareAuthCookies DEF FromItsJar

\* What one pass of resolve_redirects makes of the jar, the Cookie header and
\* the Proxy-Authorization header.
LEMMA RedirectedCookies ==
    ASSUME NEW r \in Requests, NEW resp \in Responses, resp.location \in Locations,
           NEW j \in Jars, NEW t \in ProxyTables, NEW np
    PROVE  LET f == RedirectedRequest(r, resp, j, t, np)
           IN  /\ f.jar = MergeCookies(ExtractCookies(r.jar, r.url.host, resp.cookie), j)
               /\ FromItsJar(f)
               /\ f.proxyAuth = ProxyAuthorization(f.url, RebuildProxies(f.url, t, np))
<1> DEFINE url == Resolve(r.url, resp.location)
           moved == [r EXCEPT !.url = url, !.method = RebuildMethod(@, resp.status)]
           purged == PurgeBody(moved, resp.status)
           plain == [purged EXCEPT !.cookies = {}]
           merged == MergeCookies(
                         ExtractCookies(r.jar, r.url.host, resp.cookie), j)
           prepared == PrepareCookies(plain, merged)
           pa == ProxyAuthorization(url, RebuildProxies(url, t, np))
           fresh == [prepared EXCEPT !.proxyAuth = pa]
           homed == [fresh EXCEPT !.auth = IF url.host = r.url.host THEN @ ELSE None]
<1>1. r.url \in URLs /\ r.url.host \in Hosts /\ r.jar \in Jars /\ r.method \in Methods
  BY DEF Requests, URLs
<1>2. resp.status \in Statuses /\ resp.cookie \in CookieValues \cup {None, Expired}
  BY DEF Responses
<1>3. url \in URLs
  BY <1>1, ResolveType
<1>4. RebuildMethod(r.method, resp.status) \in Methods
  BY <1>1 DEF RebuildMethod, Methods
<1>5. moved \in Requests /\ moved.url = url
  BY <1>3, <1>4 DEF Requests
<1>6. purged \in Requests /\ purged.url = url
  <2> HIDE DEF moved, url
  <2> QED BY <1>2, <1>5, PurgeBodyType
<1>7. plain \in Requests /\ plain.url = url /\ plain.cookies = {}
  <2>1. {} \in CookieHeaders
    BY DEF CookieHeaders
  <2> HIDE DEF purged, url
  <2> QED BY <1>6, <2>1 DEF Requests
<1>8. merged \in Jars
  BY <1>1, <1>2, ExtractCookiesType, MergeCookiesType
<1>9. prepared \in Requests /\ prepared.url = url /\ prepared.jar = merged
          /\ FromItsJar(prepared)
  <2> HIDE DEF plain, merged, url
  <2> QED BY <1>7, <1>8, PrepareCookiesType, PrepareCookiesMakes
<1>10. pa \in AuthProxies \cup {None}
  BY ProxyAuthorizationType
<1>11. /\ fresh \in Requests /\ fresh.url = url /\ fresh.jar = merged
       /\ FromItsJar(fresh) /\ fresh.proxyAuth = pa
  <2> HIDE DEF prepared, pa, url, merged
  <2> QED BY <1>9, <1>10 DEF Requests, FromItsJar
<1>12. /\ homed \in Requests /\ homed.url = url /\ homed.jar = merged
       /\ FromItsJar(homed) /\ homed.proxyAuth = pa
  <2> HIDE DEF fresh, url, merged, pa
  <2> QED BY <1>11 DEF Requests, FromItsJar
<1>13. RedirectedRequest(r, resp, j, t, np) = PrepareAuth(homed, NetrcAuth(url))
  <2>1. RedirectedRequest(r, resp, j, t, np) = RebuildAuth(fresh, r.url)
    BY DEF RedirectedRequest
  <2> HIDE DEF fresh, url
  <2> QED BY <1>11, <2>1 DEF RebuildAuth
<1>14. NetrcAuth(url) \in Credentials \cup {None}
  BY <1>3, NetrcAuthType
<1> HIDE DEF homed, url
<1> QED BY <1>12, <1>13, <1>14, PrepareAuthType, PrepareAuthCookies DEF FromItsJar

\* Of the first n responses, the j-th is the last that set the cookie of host.
Setter(i, host) == sent[i].req.url.host = host /\ resps[i].cookie # None

LastSetter(host, j, n) ==
    /\ j \in 1..n /\ Setter(j, host)
    /\ \A i \in (j + 1)..n : ~Setter(i, host)

\* What a jar has after a Set-Cookie.
Stored(cookie) == IF cookie = Expired THEN None ELSE cookie

\* The responses the jar of the current request has taken in.
Taken == IF pc = "send" THEN Len(resps) ELSE Len(resps) - 1

\* What a request that follows n responses owes its host.
OwnCookie(p, n) ==
    \A j \in 1..n : LastSetter(p.url.host, j, n) =>
        {c \in p.cookies : c[1] = p.url.host} =
            {<<p.url.host, v>> : v \in {resps[j].cookie} \ {Expired}}

\* The jars of the session and of the request know what each host set last.
JarsKnow ==
    \A host \in Hosts, j \in 1..Len(resps) :
        /\ LastSetter(host, j, Len(resps)) => jar[host] = Stored(resps[j].cookie)
        /\ LastSetter(host, j, Taken) => req.jar[host] = Stored(resps[j].cookie)

(***************************************************************************)
(* A cookie reaches the next request to its host in two ways, through the  *)
(* jar of the request and through that of the session: both have what the  *)
(* host set last, or neither has what it expired.                          *)
(***************************************************************************)
CookieInv ==
    /\ Len(sent) <= Len(resps) + 1
    /\ \A k \in 1..Len(sent) : OwnCookie(sent[k].req, k - 1)
    /\ pc # "done" => JarsKnow
    /\ pc = "send" => FromItsJar(req)

\* The request that is ready owes its host nothing.
LEMMA ReadyOwnsCookie ==
    ASSUME TypeOK, CookieInv, pc = "send"
    PROVE  OwnCookie(req, Len(resps))
<1> DEFINE h == req.url.host
<1>1. h \in Hosts /\ h # None /\ Expired # None
  BY URLAssumption, CookieAssumption DEF TypeOK, Requests, URLs
<1> SUFFICES ASSUME NEW j \in 1..Len(resps), LastSetter(h, j, Len(resps))
             PROVE  {c \in req.cookies : c[1] = h} =
                        {<<h, v>> : v \in {resps[j].cookie} \ {Expired}}
  BY DEF OwnCookie
<1>2. req.jar[h] = Stored(resps[j].cookie) /\ resps[j].cookie # None
  BY <1>1 DEF CookieInv, JarsKnow, Taken, LastSetter, Setter
<1>3. req.cookies = {<<d, req.jar[d]>> : d \in {e \in {None, h} : req.jar[e] # None}}
  BY DEF CookieInv, FromItsJar, CookieHeader
<1> HIDE DEF h
<1>4. {c \in req.cookies : c[1] = h} = IF req.jar[h] = None THEN {} ELSE {<<h, req.jar[h]>>}
  BY <1>1, <1>3
<1>5. CASE resps[j].cookie = Expired
  BY <1>1, <1>2, <1>4, <1>5 DEF Stored
<1>6. CASE resps[j].cookie # Expired
  BY <1>1, <1>2, <1>4, <1>6 DEF Stored
<1> QED BY <1>5, <1>6

\* Who set what stays as it is while the two lists are kept.
LEMMA SettersStay ==
    ASSUME NEW n \in Nat,
           \A i \in 1..n : /\ sent'[i] = sent[i]
                           /\ resps'[i].cookie = resps[i].cookie
    PROVE  \A host, j : LastSetter(host, j, n)' <=> LastSetter(host, j, n)
<1>1. \A host : \A i \in 1..n : Setter(i, host)' <=> Setter(i, host)
  BY DEF Setter
<1>2. \A j \in 1..n : \A i \in (j + 1)..n : i \in 1..n
  OBVIOUS
<1> QED BY <1>1, <1>2 DEF LastSetter

LEMMA OwnCookiesStay ==
    ASSUME NEW n \in Nat, NEW p,
           \A i \in 1..n : /\ sent'[i] = sent[i]
                           /\ resps'[i].cookie = resps[i].cookie,
           OwnCookie(p, n)
    PROVE  \A j \in 1..n : LastSetter(p.url.host, j, n)' =>
               {c \in p.cookies : c[1] = p.url.host} =
                   {<<p.url.host, v>> : v \in {resps'[j].cookie} \ {Expired}}
BY SettersStay DEF OwnCookie

\* Every request that was sent owes its host nothing.
LEMMA OwnCookieStep ==
    ASSUME LimitInv, CookieInv, [Next]_vars
    PROVE  /\ Len(sent') <= Len(resps') + 1
           /\ \A k \in 1..Len(sent') : OwnCookie(sent[k].req, k - 1)'
<1>1. TypeOK /\ InStep /\ Len(sent) \in Nat /\ Len(resps) \in Nat
  BY DEF LimitInv, TypeOK
<1>2. \A i \in 1..Len(resps) : resps'[i].cookie = resps[i].cookie
  BY AnswersStay DEF SameAnswer
<1>3. CASE UNCHANGED sent
  <2>1. Len(resps') = Len(resps)
    BY <1>3, AnswersStay
  <2> SUFFICES ASSUME NEW k \in 1..Len(sent) PROVE OwnCookie(sent[k].req, k - 1)'
    BY <1>3, <2>1 DEF CookieInv
  <2>2. /\ k - 1 \in Nat
        /\ \A i \in 1..(k - 1) : sent'[i] = sent[i] /\ resps'[i].cookie = resps[i].cookie
    BY <1>1, <1>2, <1>3 DEF CookieInv
  <2>3. OwnCookie(sent'[k].req, k - 1)
    BY <1>3 DEF CookieInv
  <2> QED BY <2>2, <2>3, OwnCookiesStay DEF OwnCookie
<1>4. CASE ~UNCHANGED sent
  <2>1. /\ TransportFails \/ \E reply \in Replies[call] : Receive(reply)
        /\ pc = "send" /\ Transmit /\ Len(sent) = Len(resps)
    BY <1>1, <1>4 DEF Next, vars, NoAdapter, ReadStalls, RawReadFails, TooManyRedirects,
           UnrewindableBody, StoreNext, NoNext, Follow, Assemble, Return,
           ContentFails, Returned, TransportFails, Receive, InStep
  <2>2. /\ Len(sent') = Len(sent) + 1 /\ sent'[Len(sent')].req = req
        /\ \A i \in 1..Len(sent) : sent'[i] = sent[i]
    BY <1>1, <2>1, TransmitFacts
  <2>3. Len(resps') >= Len(resps) /\ Len(resps') \in Nat
    BY <1>1, <2>1, ReceiveFacts DEF TransportFails
  <2> SUFFICES ASSUME NEW k \in 1..Len(sent') PROVE OwnCookie(sent[k].req, k - 1)'
    BY <1>1, <2>1, <2>2, <2>3
  <2>4. /\ k - 1 \in Nat
        /\ \A i \in 1..(k - 1) : sent'[i] = sent[i] /\ resps'[i].cookie = resps[i].cookie
    BY <1>1, <1>2, <2>1, <2>2
  <2>5. OwnCookie(sent'[k].req, k - 1)
    <3>1. CASE k \in 1..Len(sent)
      BY <2>2, <3>1 DEF CookieInv
    <3>2. CASE k = Len(sent')
      BY <1>1, <2>1, <2>2, <3>2, ReadyOwnsCookie
    <3> QED BY <1>1, <2>2, <3>1, <3>2
  <2> QED BY <2>4, <2>5, OwnCookiesStay DEF OwnCookie
<1> QED BY <1>3, <1>4

\* What extract_cookies_to_jar leaves in the jar for a host.
LEMMA Extracted ==
    ASSUME NEW j \in Jars, NEW host \in Hosts, NEW from \in Hosts, NEW cookie
    PROVE  ExtractCookies(j, from, cookie)[host] =
               IF host = from /\ cookie # None THEN Stored(cookie) ELSE j[host]
BY DEF ExtractCookies, Stored, Jars, Domains

\* The last of the setters is the latest response or an earlier one.
LEMMA LastOfSetters ==
    ASSUME NEW n \in Nat, NEW host, NEW j, LastSetter(host, j, n), n >= 1
    PROVE  \/ j = n /\ Setter(n, host)
           \/ LastSetter(host, j, n - 1) /\ ~Setter(n, host)
<1>1. j \in 1..n /\ Setter(j, host) /\ \A i \in (j + 1)..n : ~Setter(i, host)
  BY DEF LastSetter
<1>2. CASE j = n
  BY <1>1, <1>2
<1>3. CASE j \in 1..(n - 1)
  <2>1. ~Setter(n, host)
    BY <1>1, <1>3
  <2>2. \A i \in (j + 1)..(n - 1) : ~Setter(i, host)
    BY <1>1, <1>3
  <2> QED BY <1>1, <1>3, <2>1, <2>2 DEF LastSetter
<1> QED BY <1>1, <1>2, <1>3

\* A response that arrives: the session takes in its cookie, the request not yet.
LEMMA JarsKnowReceive ==
    ASSUME LimitInv, CookieInv, NEW reply \in Replies[call], Receive(reply)
    PROVE  JarsKnow'
<1>0. PICK n \in Nat : n = Len(resps)
  BY DEF LimitInv, TypeOK
<1>1. /\ TypeOK /\ InStep /\ pc = "send" /\ Transmit /\ Len(sent) = n
      /\ UNCHANGED req /\ pc' \in {"follow", "next"}
      /\ jar' = ExtractCookies(jar, req.url.host, reply.cookie)
  BY <1>0 DEF LimitInv, TypeOK, InStep, Receive
<1>2. /\ Len(resps') = n + 1 /\ resps'[n + 1].cookie = reply.cookie
      /\ \A i \in 1..n : resps'[i] = resps[i]
  BY <1>0, <1>1, ReceiveFacts DEF Response, latest
<1>3. /\ sent'[n + 1].req = req
      /\ \A i \in 1..n : sent'[i] = sent[i]
  BY <1>0, <1>1, TransmitFacts
<1>4. req.url.host \in Hosts /\ jar \in Jars
  BY <1>1 DEF TypeOK, Requests, URLs
<1>5. \A host, j : LastSetter(host, j, n)' <=> LastSetter(host, j, n)
  BY <1>1, <1>2, <1>3, SettersStay
<1>6. Taken' = n /\ Taken = n
  BY <1>0, <1>1, <1>2 DEF Taken
<1> SUFFICES ASSUME NEW host \in Hosts, NEW j \in 1..(n + 1)
             PROVE  /\ LastSetter(host, j, n + 1)' => jar'[host] = Stored(resps'[j].cookie)
                    /\ LastSetter(host, j, n)' => req.jar[host] = Stored(resps'[j].cookie)
  BY <1>1, <1>2, <1>6 DEF JarsKnow
<1>7. Setter(n + 1, host)' <=> (host = req.url.host /\ reply.cookie # None)
  BY <1>2, <1>3 DEF Setter
<1>8. jar'[host] = IF host = req.url.host /\ reply.cookie # None
                   THEN Stored(reply.cookie) ELSE jar[host]
  BY <1>1, <1>4, Extracted
<1>9. ASSUME LastSetter(host, j, n + 1)' PROVE jar'[host] = Stored(resps'[j].cookie)
  <2>1. CASE j = n + 1
    <3>1. Setter(n + 1, host)'
      BY <1>9, <2>1 DEF LastSetter
    <3> QED BY <1>2, <1>7, <1>8, <2>1, <3>1
  <2>2. CASE j \in 1..n
    <3>1. ~Setter(n + 1, host)' /\ LastSetter(host, j, n)'
      BY <1>1, <1>9, <2>2 DEF LastSetter
    <3>2. jar[host] = Stored(resps[j].cookie)
      BY <1>0, <1>1, <1>5, <2>2, <3>1 DEF CookieInv, JarsKnow
    <3> QED BY <1>2, <1>7, <1>8, <2>2, <3>1, <3>2
  <2> QED BY <1>1, <2>1, <2>2
<1>10. ASSUME LastSetter(host, j, n)' PROVE req.jar[host] = Stored(resps'[j].cookie)
  <2>1. j \in 1..n /\ LastSetter(host, j, n)
    BY <1>5, <1>10 DEF LastSetter
  <2> QED BY <1>0, <1>1, <1>2, <1>6, <2>1 DEF CookieInv, JarsKnow
<1> QED BY <1>9, <1>10

\* A redirect that is followed: the new request takes in the cookie of the
\* response, and what the session has on top.
LEMMA JarsKnowFollow ==
    ASSUME LimitInv, CookieInv, Follow
    PROVE  JarsKnow' /\ FromItsJar(req)'
<1>0. PICK n \in Nat : n = Len(resps)
  BY DEF LimitInv, TypeOK
<1>1. /\ TypeOK /\ InStep /\ Redirected /\ pc = "follow" /\ pc' = "send"
      /\ UNCHANGED <<jar, sent>> /\ req' = Following
  BY DEF LimitInv, Follow, MayFollow
<1>2. /\ n >= 1 /\ latest = n /\ Response = resps[n] /\ Response \in Responses
      /\ Response.location \in Locations /\ Len(sent) = n /\ sent[n].req = req
  BY <1>0, <1>1, RedirectedFacts DEF InStep, latest, Response
<1>3. Len(resps') = n /\ \A i \in 1..n : resps'[i].cookie = resps[i].cookie
  <2>1. [Next]_vars
    BY DEF Next
  <2> QED BY <1>0, <1>1, <2>1, AnswersStay DEF SameAnswer
<1>4. \A host, j : LastSetter(host, j, n)' <=> LastSetter(host, j, n)
  BY <1>1, <1>3, SettersStay
<1>5. req \in Requests /\ jar \in Jars /\ req.jar \in Jars /\ req.url.host \in Hosts
          /\ proxies \in ProxyTables
  BY <1>1 DEF TypeOK, Requests, URLs
<1>6. FromItsJar(Following)
      /\ Following.jar = MergeCookies(
             ExtractCookies(req.jar, req.url.host, Response.cookie), jar)
  BY <1>2, <1>5, RedirectedCookies DEF Following
<1>7. Taken' = n /\ Taken = n - 1
  BY <1>0, <1>1, <1>3 DEF Taken
<1> SUFFICES ASSUME NEW host \in Hosts, NEW j \in 1..n, LastSetter(host, j, n)
             PROVE  /\ jar[host] = Stored(resps[j].cookie)
                    /\ Following.jar[host] = Stored(resps[j].cookie)
  <2>1. FromItsJar(req)'
    BY <1>1, <1>6 DEF FromItsJar
  <2> QED BY <1>1, <1>3, <1>4, <1>7, <2>1 DEF JarsKnow
<1>8. jar[host] = Stored(resps[j].cookie)
  BY <1>0, <1>1 DEF CookieInv, JarsKnow
<1>9. ExtractCookies(req.jar, req.url.host, Response.cookie)[host]
          = Stored(resps[j].cookie)
  <2>1. ExtractCookies(req.jar, req.url.host, Response.cookie)[host] =
            IF Setter(n, host) THEN Stored(resps[n].cookie) ELSE req.jar[host]
    BY <1>2, <1>5, Extracted DEF Setter
  <2>2. \/ j = n /\ Setter(n, host)
        \/ LastSetter(host, j, n - 1) /\ ~Setter(n, host)
    BY <1>2, LastOfSetters
  <2>3. LastSetter(host, j, n - 1) => req.jar[host] = Stored(resps[j].cookie)
    BY <1>0, <1>1, <1>7 DEF CookieInv, JarsKnow
  <2> QED BY <2>1, <2>2, <2>3
<1>10. Following.jar[host] = Stored(resps[j].cookie)
  BY <1>5, <1>6, <1>8, <1>9 DEF MergeCookies, Domains
<1> QED BY <1>8, <1>10

\* The other steps leave both jars, and who set what, as they are.
LEMMA JarsKnowStay ==
    ASSUME LimitInv, NextInv, CookieInv, [Next]_vars, ~Follow, UNCHANGED sent,
           pc' # "done"
    PROVE  JarsKnow' /\ (pc' = "send" => FromItsJar(req)')
<1>0. PICK n \in Nat : n = Len(resps)
  BY DEF LimitInv, TypeOK
<1>1. TypeOK /\ InStep /\ (pc # "done" => Len(sent) = n)
  BY <1>0 DEF LimitInv, InStep
<1>2. UNCHANGED <<jar, req>> /\ pc # "done" /\ (pc' = "send" <=> pc = "send")
  <2>1. ~Transmit
    BY <1>1, TransmitFacts DEF TypeOK
  <2>2. CASE Return
    BY <2>2 DEF Return, Stop, NextInv, Settled
  <2>3. CASE ~Return
    BY <2>1, <2>3 DEF Next, vars, NoAdapter, TransportFails, Receive, ReadStalls, RawReadFails,
           TooManyRedirects, UnrewindableBody, StoreNext, NoNext, Assemble,
           ContentFails, Returned, Stop
  <2> QED BY <2>2, <2>3
<1>3. Len(resps') = n /\ \A i \in 1..n : resps'[i].cookie = resps[i].cookie
  BY <1>0, AnswersStay DEF SameAnswer
<1>4. \A m \in 0..n : \A host, j : LastSetter(host, j, m)' <=> LastSetter(host, j, m)
  <2> TAKE m \in 0..n
  <2>1. m \in Nat /\ \A i \in 1..m : /\ sent'[i] = sent[i]
                                     /\ resps'[i].cookie = resps[i].cookie
    BY <1>3
  <2> QED BY <2>1, SettersStay
<1>5. Taken' = Taken /\ (n >= 1 => Taken \in 0..n) /\ n \in 0..n
  BY <1>0, <1>2, <1>3 DEF Taken
<1>6. JarsKnow'
  <2> SUFFICES ASSUME NEW host \in Hosts, NEW j \in 1..n
               PROVE  /\ LastSetter(host, j, n)' => jar[host] = Stored(resps[j].cookie)
                      /\ LastSetter(host, j, Taken)' => req.jar[host] = Stored(resps[j].cookie)
    BY <1>2, <1>3 DEF JarsKnow
  <2>1. PICK t \in 0..n : t = Taken
    BY <1>5
  <2>2. LastSetter(host, j, Taken)' <=> LastSetter(host, j, Taken)
    <3>1. LastSetter(host, j, Taken)' <=> LastSetter(host, j, t)'
      BY <1>5, <2>1 DEF LastSetter
    <3> QED BY <1>4, <2>1, <3>1
  <2> QED BY <1>0, <1>2, <1>4, <1>5, <2>2 DEF CookieInv, JarsKnow
<1>7. pc' = "send" => FromItsJar(req)'
  BY <1>2 DEF CookieInv, FromItsJar
<1> QED BY <1>6, <1>7

LEMMA CookieInit == Init => CookieInv
<1> SUFFICES ASSUME Init PROVE CookieInv
  OBVIOUS
<1>1. call \in CallSpace /\ jar \in Jars
  BY ChainAssumption DEF Init
<1>2. FromItsJar(req)
  BY <1>1, PrepareRequestCookies DEF Init
<1> QED BY <1>2 DEF Init, CookieInv, JarsKnow

LEMMA CookieStep == LimitInv /\ NextInv /\ CookieInv /\ [Next]_vars => CookieInv'
<1> SUFFICES ASSUME LimitInv, NextInv, CookieInv, [Next]_vars
             PROVE  pc' # "done" => JarsKnow' /\ (pc' = "send" => FromItsJar(req)')
  BY OwnCookieStep DEF CookieInv
<1> SUFFICES ASSUME pc' # "done" PROVE JarsKnow' /\ (pc' = "send" => FromItsJar(req)')
  OBVIOUS
<1>1. CASE \E reply \in Replies[call] : Receive(reply)
  BY <1>1, JarsKnowReceive DEF Receive
<1>2. CASE Follow
  BY <1>2, JarsKnowFollow
<1>3. CASE UNCHANGED sent /\ ~Follow
  BY <1>3, JarsKnowStay
<1> QED BY <1>1, <1>2, <1>3 DEF Next, vars, NoAdapter, TransportFails, ReadStalls, RawReadFails,
           TooManyRedirects, UnrewindableBody, StoreNext, NoNext, Assemble, Return,
           ContentFails, Returned, Stop

LEMMA CookieAlways == Spec => []CookieInv
BY LimitAlways, NextAlways, CookieInit, CookieStep, PTL DEF Spec

\* A host is sent the cookie it set last in the chain, and none if that one was
\* expired, whichever jar had it.
THEOREM CookiesAlwaysFollow == Spec => []CookiesFollow
<1>1. TypeOK /\ CookieInv => CookiesFollow
  <2> SUFFICES ASSUME TypeOK, CookieInv,
                      NEW j \in 1..Len(sent), NEW k \in 1..Len(sent), j < k,
                      Setter(j, sent[k].req.url.host),
                      \A i \in (j + 1)..(k - 1) : ~Setter(i, sent[k].req.url.host)
               PROVE  {c \in sent[k].req.cookies : c[1] = sent[k].req.url.host} =
                          {<<sent[k].req.url.host, v>> :
                               v \in {resps[j].cookie} \ {Expired}}
    BY DEF CookiesFollow, Setter
  <2>1. Len(sent) \in Nat /\ j \in 1..(k - 1)
    BY DEF TypeOK
  <2>2. LastSetter(sent[k].req.url.host, j, k - 1)
    BY <2>1 DEF LastSetter
  <2> QED BY <2>1, <2>2 DEF CookieInv, OwnCookie
<1> QED BY <1>1, TypeCorrect, CookieAlways, PTL

-----------------------------------------------------------------------------
(* Proxies.                                                                *)

\* Nobody gave a proxy for this very host.
NoKeyOfHost(url) ==
    /\ call.proxies[<<url.scheme, url.host>>] = None
    /\ EnvProxies[<<url.scheme, url.host>>] = None
    /\ SessionProxies[<<url.scheme, url.host>>] = None

\* The environment has a proxy for requests to this URL.
EnvironmentHasProxy(url) ==
    /\ TrustEnv
    /\ ~ShouldBypass(url.host, call.noProxy)
    /\ GetOrAll(EnvProxies, url.scheme) # None

(***************************************************************************)
(* EnvironmentProxyUsed speaks of requests that were sent after a          *)
(* redirect.  The one about to be sent has its Proxy-Authorization header  *)
(* from the dict it is sent with, and rebuild_proxies, which only sets the *)
(* key of a bare scheme, has filled that dict in.                          *)
(***************************************************************************)
ProxyInv ==
    /\ Len(sent) <= Len(resps) + 1
    /\ EnvironmentProxyUsed
    /\ \A url \in URLs : NoKeyOfHost(url) => proxies[<<url.scheme, url.host>>] = None
    /\ pc = "send" /\ resps # <<>> =>
          /\ EnvironmentHasProxy(req.url) => proxies[<<req.url.scheme, None>>] # None
          /\ req.proxyAuth = ProxyAuthorization(req.url, proxies)

\* select_proxy finds a proxy when the bare scheme has one, and that one when
\* the host has none of its own.
LEMMA SelectProxyFinds ==
    ASSUME NEW u \in URLs, NEW t \in ProxyTables, t[<<u.scheme, None>>] # None
    PROVE  /\ SelectProxy(u, t) # None
           /\ t[<<u.scheme, u.host>>] = None =>
                  SelectProxy(u, t) = t[<<u.scheme, None>>]
<1> DEFINE keys == << <<u.scheme, u.host>>, <<u.scheme, None>>,
                      <<None, u.host>>, <<None, None>> >>
           found == {i \in 1..4 : t[keys[i]] # None}
           first == CHOOSE i \in found : \A j \in found : i <= j
<1>1. keys[1] = <<u.scheme, u.host>> /\ keys[2] = <<u.scheme, None>>
  OBVIOUS
<1> HIDE DEF keys
<1>2. 2 \in found
  BY <1>1
<1>3. 1 \in found <=> t[<<u.scheme, u.host>>] # None
  BY <1>1
<1>4. SelectProxy(u, t) = t[keys[first]]
  BY <1>2 DEF SelectProxy, keys
<1>5. found \subseteq 1..4
  OBVIOUS
<1>6. first \in found /\ \A j \in found : first <= j
  <2>1. \E i \in found : \A j \in found : i <= j
    BY <1>2, <1>5
  <2> QED BY <2>1
<1>7. t[keys[first]] # None
  BY <1>6
<1>8. ASSUME 1 \notin found PROVE first = 2
  <2>1. first \in 1..4 /\ first # 1 /\ first <= 2
    BY <1>2, <1>5, <1>6, <1>8
  <2> HIDE DEF first
  <2> QED BY <2>1
<1> QED BY <1>1, <1>3, <1>4, <1>7, <1>8

\* merge_environment_settings takes a key of a host from those who gave it.
LEMMA MergedKeys ==
    ASSUME NEW t \in GivenTables, NEW h, NEW np, NEW k \in ProxyKeys,
           t[k] = None, EnvProxies[k] = None, SessionProxies[k] = None
    PROVE  MergeEnvironmentSettings(h, t, np)[k] = None
<1>1. GetEnvironProxies(h, np)[k] = None
  BY DEF GetEnvironProxies, NoProxies
<1>2. SetDefaults(t, GetEnvironProxies(h, np))[k] = None
  BY <1>1 DEF SetDefaults
<1>3. \A x : x[k] = None => MergeSetting(x)[k] = None
  BY ProxyAssumption DEF MergeSetting, SetDefaults
<1> QED BY <1>2, <1>3 DEF MergeEnvironmentSettings

LEMMA RebuiltKeys ==
    ASSUME NEW u \in URLs, NEW t \in ProxyTables, NEW np
    PROVE  /\ \A v \in URLs : RebuildProxies(u, t, np)[<<v.scheme, v.host>>] =
                                  t[<<v.scheme, v.host>>]
           /\ TrustEnv /\ ~ShouldBypass(u.host, np)
                  /\ GetOrAll(EnvProxies, u.scheme) # None
              => RebuildProxies(u, t, np)[<<u.scheme, None>>] # None
<1>1. <<u.scheme, None>> \in ProxyKeys
  BY DEF URLs, ProxyKeys
<1>2. \A v \in URLs : <<v.scheme, v.host>> # <<u.scheme, None>>
  BY URLAssumption DEF URLs
<1> QED BY <1>1, <1>2 DEF RebuildProxies, ProxyTables

LEMMA ProxyInit == Init => ProxyInv
<1> SUFFICES ASSUME Init PROVE ProxyInv
  OBVIOUS
<1>1. call.proxies \in GivenTables
  BY ChainAssumption DEF Init, CallSpace
<1>2. \A url \in URLs : <<url.scheme, url.host>> \in ProxyKeys
  BY DEF URLs, ProxyKeys
<1>3. \A url \in URLs : NoKeyOfHost(url) => proxies[<<url.scheme, url.host>>] = None
  BY <1>1, <1>2, MergedKeys DEF Init, NoKeyOfHost
<1> QED BY <1>3 DEF Init, ProxyInv, EnvironmentProxyUsed

\* The request that was ready goes through the proxy it should.
LEMMA ProxyTransmit ==
    ASSUME LimitInv, ProxyInv, pc = "send", Transmit, UNCHANGED call
    PROVE  EnvironmentProxyUsed' /\ Len(sent') = Len(resps) + 1
<1>1. /\ TypeOK /\ Len(sent) \in Nat /\ Len(sent) = Len(resps)
      /\ req \in Requests /\ req.url \in URLs /\ proxies \in ProxyTables
  BY DEF LimitInv, InStep, TypeOK, Requests
<1>2. /\ Len(sent') = Len(sent) + 1 /\ sent'[Len(sent')].req = req
      /\ sent'[Len(sent')].via = SelectProxy(req.url, proxies)
      /\ \A i \in 1..Len(sent) : sent'[i] = sent[i]
  BY <1>1, TransmitFacts DEF Transmit, TypeOK
<1>3. ASSUME resps # <<>>
      PROVE  /\ EnvironmentHasProxy(req.url) => SelectProxy(req.url, proxies) # None
             /\ req.proxyAuth # None /\ NoKeyOfHost(req.url) =>
                    req.proxyAuth = SelectProxy(req.url, proxies)
  <2>1. req.proxyAuth # None => /\ proxies[<<req.url.scheme, None>>] # None
                                /\ req.proxyAuth = proxies[<<req.url.scheme, None>>]
    BY <1>1, <1>3, ProxyAssumption DEF ProxyInv, ProxyAuthorization
  <2>2. NoKeyOfHost(req.url) => proxies[<<req.url.scheme, req.url.host>>] = None
    BY <1>1 DEF ProxyInv
  <2>3. EnvironmentHasProxy(req.url) => proxies[<<req.url.scheme, None>>] # None
    BY <1>1, <1>3 DEF ProxyInv
  <2> QED BY <1>1, <2>1, <2>2, <2>3, SelectProxyFinds
<1>4. \A i \in 2..Len(sent') : i \in 2..Len(sent) \/ (i = Len(sent') /\ resps # <<>>)
  BY <1>1, <1>2
<1>5. EnvironmentProxyUsed'
  <2> SUFFICES ASSUME NEW i \in 2..Len(sent')
               PROVE  LET t == sent'[i]
                      IN  /\ EnvironmentHasProxy(t.req.url) => t.via # None
                          /\ t.req.proxyAuth # None /\ NoKeyOfHost(t.req.url) =>
                                 t.req.proxyAuth = t.via
    BY DEF EnvironmentProxyUsed, EnvironmentHasProxy, NoKeyOfHost
  <2>1. CASE i \in 2..Len(sent)
    <3>1. sent'[i] = sent[i]
      BY <1>1, <1>2, <2>1
    <3> QED BY <2>1, <3>1 DEF ProxyInv, EnvironmentProxyUsed, EnvironmentHasProxy,
                              NoKeyOfHost
  <2>2. CASE i = Len(sent') /\ resps # <<>>
    BY <1>2, <1>3, <2>2
  <2> QED BY <1>4, <2>1, <2>2
<1> QED BY <1>1, <1>2, <1>5

LEMMA ProxyFollow ==
    ASSUME LimitInv, ProxyInv, Follow
    PROVE  /\ \A url \in URLs : NoKeyOfHost(url)' => proxies'[<<url.scheme, url.host>>] = None
           /\ EnvironmentHasProxy(req.url)' => proxies'[<<req'.url.scheme, None>>] # None
           /\ req'.proxyAuth = ProxyAuthorization(req'.url, proxies')
<1>1. /\ TypeOK /\ InStep /\ Redirected /\ UNCHANGED call /\ req' = Following
      /\ proxies' = RebuildProxies(Following.url, proxies, call.noProxy)
  BY DEF LimitInv, Follow, MayFollow
<1>2. /\ Response \in Responses /\ Response.location \in Locations
      /\ Following.url \in URLs
  BY <1>1, RedirectedFacts DEF Requests
<1>3. req \in Requests /\ jar \in Jars /\ proxies \in ProxyTables
  BY <1>1 DEF TypeOK
<1>4. Following.proxyAuth = ProxyAuthorization(Following.url, proxies')
  BY <1>1, <1>2, <1>3, RedirectedCookies DEF Following
<1>5. \A url \in URLs : proxies'[<<url.scheme, url.host>>] = proxies[<<url.scheme, url.host>>]
  BY <1>1, <1>2, <1>3, RebuiltKeys
<1>6. EnvironmentHasProxy(req.url)' => proxies'[<<req'.url.scheme, None>>] # None
  BY <1>1, <1>2, <1>3, RebuiltKeys DEF EnvironmentHasProxy
<1> QED BY <1>1, <1>4, <1>5, <1>6 DEF ProxyInv, NoKeyOfHost

LEMMA ProxyStep == LimitInv /\ ProxyInv /\ [Next]_vars => ProxyInv'
<1> SUFFICES ASSUME LimitInv, ProxyInv, [Next]_vars PROVE ProxyInv'
  OBVIOUS
<1>1. TypeOK /\ Len(resps) \in Nat
  BY DEF LimitInv, TypeOK
<1>2. UNCHANGED call
  BY DEF Next, vars, NoAdapter, TransportFails, Receive, ReadStalls, RawReadFails,
         TooManyRedirects, UnrewindableBody, StoreNext, NoNext, Follow, Assemble,
         Return, ContentFails, Returned
<1>3. CASE TransportFails \/ \E reply \in Replies[call] : Receive(reply)
  <2>1. pc = "send" /\ Transmit /\ pc' # "send" /\ UNCHANGED proxies
    BY <1>3 DEF TransportFails, Receive, Stop
  <2>2. Len(resps') \in {Len(resps), Len(resps) + 1}
    BY <1>1, <1>3, ReceiveFacts DEF TransportFails
  <2> QED BY <1>1, <1>2, <2>1, <2>2, ProxyTransmit DEF ProxyInv, NoKeyOfHost
<1>4. CASE ~(TransportFails \/ \E reply \in Replies[call] : Receive(reply))
  <2>1. UNCHANGED sent
    BY <1>4 DEF Next, vars, NoAdapter, ReadStalls, RawReadFails, TooManyRedirects, UnrewindableBody,
                StoreNext, NoNext, Follow, Assemble, Return, ContentFails, Returned
  <2>2. Len(resps') = Len(resps)
    BY <2>1, AnswersStay
  <2>3. EnvironmentProxyUsed'
    BY <1>2, <2>1 DEF ProxyInv, EnvironmentProxyUsed
  <2>4. CASE Follow
    BY <2>1, <2>2, <2>3, <2>4, ProxyFollow DEF ProxyInv
  <2>5. CASE ~Follow
    <3>1. UNCHANGED <<proxies, req>> /\ (pc' = "send" => UNCHANGED vars)
      BY <1>4, <2>5 DEF Next, vars, NoAdapter, ReadStalls, RawReadFails, TooManyRedirects,
             UnrewindableBody, StoreNext, NoNext, Assemble, Return, ContentFails,
             Returned, Stop
    <3>2. pc' = "send" => UNCHANGED <<pc, resps>>
      BY <3>1 DEF vars
    <3> QED BY <1>2, <2>1, <2>2, <2>3, <3>1, <3>2
            DEF ProxyInv, NoKeyOfHost, EnvironmentHasProxy
  <2> QED BY <2>4, <2>5
<1> QED BY <1>3, <1>4

\* The environment's proxy is used after every redirect that no_proxy does not
\* cover, and its login goes to it and to no other proxy.
THEOREM EnvironmentProxiesUsed == Spec => []EnvironmentProxyUsed
<1>1. ProxyInv => EnvironmentProxyUsed
  BY DEF ProxyInv
<1> QED BY <1>1, LimitAlways, ProxyInit, ProxyStep, PTL DEF Spec

-----------------------------------------------------------------------------
(* The end of a call.                                                      *)

\* How many statements may follow at most before the call returns or raises:
\* five for each request that the limit still allows, and those that are left
\* of the current pass.
StatementsLeft ==
    5 * (MaxRedirects + 2 - Len(sent))
        + (CASE pc = "next" -> 4
             [] pc = "read" -> 3
             [] pc = "follow" -> 2
             [] pc \in {"send", "deliver"} -> 1
             [] OTHER -> 0)

\* Every step of a call brings it nearer to its end.
ComesNearer == [][StatementsLeft' < StatementsLeft]_vars

LEMMA StatementsCounted == LimitInv => StatementsLeft \in Nat
<1> SUFFICES ASSUME LimitInv PROVE StatementsLeft \in Nat
  OBVIOUS
<1>1. MaxRedirects \in Nat /\ Len(sent) \in Nat /\ Len(sent) <= MaxRedirects + 1
  BY ChainAssumption DEF LimitInv, TypeOK, RedirectLimit
<1>2. pc \in {"send", "follow", "next", "read", "deliver", "done"}
  BY DEF LimitInv, TypeOK
<1> DEFINE allowed == MaxRedirects + 2 - Len(sent)
<1>3. allowed \in Nat
  BY <1>1
<1> HIDE DEF allowed
<1>4. StatementsLeft = 5 * allowed + (CASE pc = "next" -> 4
                                        [] pc = "read" -> 3
                                        [] pc = "follow" -> 2
                                        [] pc \in {"send", "deliver"} -> 1
                                        [] OTHER -> 0)
  BY DEF StatementsLeft, allowed
<1> QED BY <1>2, <1>3, <1>4

LEMMA NearerStep ==
    ASSUME LimitInv, [Next]_vars, ~UNCHANGED vars
    PROVE  StatementsLeft' < StatementsLeft
<1>1. MaxRedirects \in Nat /\ Len(sent) \in Nat /\ sent \in Seq(Transmissions)
  BY ChainAssumption DEF LimitInv, TypeOK
\* A step that sends nothing goes on to a later place of the pass.
<1>2. ASSUME UNCHANGED sent,
             \/ pc = "next" /\ pc' \in {"read", "done"}
             \/ pc = "read" /\ pc' \in {"follow", "done"}
             \/ pc = "follow" /\ pc' \in {"send", "deliver", "done"}
             \/ pc \in {"send", "deliver"} /\ pc' = "done"
      PROVE  StatementsLeft' < StatementsLeft
  <2> DEFINE allowed == MaxRedirects + 2 - Len(sent)
  <2>1. allowed \in Int /\ allowed' = allowed
    BY <1>1, <1>2
  <2>2. 5 * allowed \in Int
    BY <2>1
  <2> DEFINE left == 5 * allowed
  <2>3. left \in Int /\ left' = left
    BY <2>1, <2>2
  <2> HIDE DEF allowed, left
  <2> QED BY <1>2, <2>3 DEF StatementsLeft, allowed, left
\* A step that sends uses up one request.
<1>3. ASSUME Transmit, pc = "send", pc' \in {"follow", "next", "done"}
      PROVE  StatementsLeft' < StatementsLeft
  <2>1. Len(sent') = Len(sent) + 1
    BY <1>1, <1>3 DEF Transmit
  <2>2. StatementsLeft = 5 * (MaxRedirects + 2 - Len(sent)) + 1
    BY <1>3 DEF StatementsLeft
  <2>3. \E k \in 0..4 : StatementsLeft' = 5 * (MaxRedirects + 2 - Len(sent')) + k
    BY <1>3 DEF StatementsLeft
  <2> QED BY <1>1, <2>1, <2>2, <2>3
<1>4. CASE NoAdapter
  BY <1>2, <1>4 DEF NoAdapter, Stop
<1>5. CASE TransportFails
  BY <1>3, <1>5 DEF TransportFails, Stop
<1>6. CASE \E reply \in Replies[call] : Receive(reply)
  BY <1>3, <1>6 DEF Receive
<1>7. CASE ReadStalls \/ RawReadFails \/ TooManyRedirects \/ UnrewindableBody
  BY <1>2, <1>7 DEF ReadStalls, RawReadFails, TooManyRedirects, UnrewindableBody, Redirected, Stop
<1>8. CASE StoreNext \/ NoNext
  BY <1>2, <1>8 DEF StoreNext, NoNext
<1>9. CASE Follow \/ Assemble
  BY <1>2, <1>9 DEF Follow, Assemble
<1>10. CASE Return \/ ContentFails
  BY <1>2, <1>10 DEF Return, ContentFails, Stop
<1> QED BY <1>4, <1>5, <1>6, <1>7, <1>8, <1>9, <1>10 DEF Next, Returned

\* No call goes on for ever, whatever the servers answer: it comes to its end
\* after at most 5 * (max_redirects + 2) + 1 statements of Session.send and
\* resolve_redirects, none of which is a step back.
THEOREM CallsComeToAnEnd == Spec => ComesNearer /\ [](StatementsLeft \in Nat)
<1>1. LimitInv /\ [Next]_vars => [StatementsLeft' < StatementsLeft]_vars
  BY NearerStep
<1>2. LimitInv => StatementsLeft \in Nat
  BY StatementsCounted
<1> QED BY <1>1, <1>2, LimitAlways, PTL DEF Spec, ComesNearer
=============================================================================
