-------------------------- MODULE PreparedRequests --------------------------
(***************************************************************************)
(* requests/models.py PreparedRequest and the parts of                     *)
(* SessionRedirectMixin (requests/sessions.py) that rewrite one when it is *)
(* redirected.  A prepared request is a record; each operator is one       *)
(* method and maps the record to the record the method leaves behind.      *)
(*                                                                         *)
(* Headers other than the ones the redirect code reads or writes are left  *)
(* out.                                                                    *)
(***************************************************************************)
EXTENDS CookieJars, ProxyRules

CONSTANT
    NetrcHosts      \* the hosts the user's .netrc has a login for

ASSUME NetrcAssumption == NetrcHosts \subseteq Hosts

Methods == {"GET", "HEAD", "POST", "PUT"}

(***************************************************************************)
(* Bodies, by what a caller can pass as data: an encoded form; a file that *)
(* can tell and seek; a stream that can tell and not seek; one whose tell  *)
(* fails (a pipe); an iterator without tell.                               *)
(***************************************************************************)
Streams  == {"file", "tape", "pipe", "generator"}
Bodies   == Streams \cup {"form"}
Seekable == {"file"}
Sized    == {"form", "file"}      \* super_len finds a length

\* _body_position: an integer, the object() of a failed tell(), or None.
Positions == {None, "offset", "unknown"}

\* Content-Length: of the body, the explicit '0', or no such header.
Lengths == {None, "body", "0"}

\* The Authorization header: who gave the login, and for which host.
Credentials == [by : {"caller", "netrc"}, host : Hosts]

Requests ==
    [method : Methods, url : URLs, auth : Credentials \cup {None},
     jar : Jars, cookies : CookieHeaders, proxyAuth : AuthProxies \cup {None},
     body : Bodies \cup {None}, position : Positions,
     length : Lengths, chunked : BOOLEAN, ctype : BOOLEAN]

ASSUME RequestAssumption ==
    /\ None \notin Credentials
    /\ None \notin Bodies
    /\ None \notin {"offset", "unknown"}
    /\ None \notin {"body", "0"}

\* get_netrc_auth.
NetrcAuth(url) ==
    IF TrustEnv /\ url.host \in NetrcHosts
    THEN [by |-> "netrc", host |-> url.host] ELSE None

\* prepare_content_length.
PrepareContentLength(p) ==
    IF p.body # None
    THEN [p EXCEPT !.length = IF p.body \in Sized THEN "body" ELSE @]
    ELSE IF p.method \notin {"GET", "HEAD"} /\ p.length = None
         THEN [p EXCEPT !.length = "0"]
         ELSE p

\* prepare_body for a request without files.
PrepareBody(p, body) ==
    IF body \in Streams
    THEN [p EXCEPT !.body = body,
                   !.position = CASE body \in {"file", "tape"} -> "offset"
                                  [] body = "pipe" -> "unknown"
                                  [] OTHER -> None,
                   !.length = IF body \in Sized THEN "body" ELSE None,
                   !.chunked = body \notin Sized]
    ELSE PrepareContentLength([p EXCEPT !.body = body,
                                        !.ctype = (body = "form")])

\* prepare_auth: the login is put in the header, the length is made again.
\* A URL with a user name in it is not modelled.
PrepareAuth(p, auth) ==
    IF auth = None THEN p ELSE PrepareContentLength([p EXCEPT !.auth = auth])

\* prepare_cookies: cookielib makes no Cookie header where there is one.
PrepareCookies(p, jar) ==
    [p EXCEPT !.jar = jar,
              !.cookies = IF @ = {} THEN CookieHeader(jar, p.url.host) ELSE @]

\* Session.prepare_request: the caller's arguments over the session's.
PrepareRequest(call, sessionJar) ==
    LET blank == [method |-> call.method, url |-> call.url, auth |-> None,
                  jar |-> EmptyJar, cookies |-> {}, proxyAuth |-> None,
                  body |-> None, position |-> None, length |-> None,
                  chunked |-> FALSE, ctype |-> FALSE]
        jar   == MergeCookies(MergeCookies(EmptyJar, sessionJar),
                              CookieJarFromDict(call.cookie))
        auth  == IF call.auth THEN [by |-> "caller", host |-> call.url.host]
                              ELSE NetrcAuth(call.url)
    IN  PrepareAuth(PrepareBody(PrepareCookies(blank, jar), call.body), auth)

RedirectStatuses == {301, 302, 303, 307, 308}
Statuses == RedirectStatuses \cup {200}
KeepsBody(status) == status \in {307, 308}

\* get_redirect_target and Response.is_redirect.
RedirectTarget(resp) ==
    IF resp.status \in RedirectStatuses THEN resp.location ELSE None

\* rebuild_method.
RebuildMethod(method, status) ==
    IF \/ status \in {302, 303} /\ method # "HEAD"
       \/ status = 301 /\ method = "POST"
    THEN "GET" ELSE method

\* Mutants: the body stays unless the method became GET; Transfer-Encoding stays.
PurgeBody_ByMethod(p, status) ==
    IF KeepsBody(status) \/ p.method # "GET" THEN p
    ELSE [p EXCEPT !.length = None, !.chunked = FALSE, !.ctype = FALSE,
                   !.body = None]

PurgeBody_KeepsEncoding(p, status) ==
    IF KeepsBody(status) THEN p
    ELSE [p EXCEPT !.length = None, !.ctype = FALSE, !.body = None]

\* The headers and the body that only a 307 and a 308 keep.
PurgeBody(p, status) ==
    IF KeepsBody(status) THEN p
    ELSE [p EXCEPT !.length = None, !.chunked = FALSE, !.ctype = FALSE,
                   !.body = None]

\* Mutant: the login is dropped only where the scheme changes.
RebuildAuth_ByScheme(p, oldUrl) ==
    PrepareAuth([p EXCEPT !.auth =
                    IF p.url.scheme = oldUrl.scheme THEN @ ELSE None],
                NetrcAuth(p.url))

\* rebuild_auth: the header of another host goes, .netrc may bring a new one.
RebuildAuth(p, oldUrl) ==
    PrepareAuth([p EXCEPT !.auth = IF p.url.host = oldUrl.host THEN @ ELSE None],
                NetrcAuth(p.url))

\* One pass of the loop of resolve_redirects: from the request that resp
\* answers to the next one.  req.copy() is the record itself.
RedirectedRequest(req, resp, sessionJar, table, noProxy) ==
    LET url   == Resolve(req.url, resp.location)
        moved == [req EXCEPT !.url = url,
                             !.method = RebuildMethod(@, resp.status)]
        plain == [PurgeBody(moved, resp.status) EXCEPT !.cookies = {}]
        jar   == MergeCookies(
                     ExtractCookies(req.jar, req.url.host, resp.cookie),
                     sessionJar)
        fresh == [PrepareCookies(plain, jar) EXCEPT
                     !.proxyAuth = ProxyAuthorization(url,
                                       RebuildProxies(url, table, noProxy))]
    IN  RebuildAuth(fresh, req.url)

\* Mutant: bodies without Content-Length are forgotten.
Rewindable_SizedOnly(p) == p.position # None /\ p.length # None

\* The test of resolve_redirects that precedes rewind_body.
Rewindable(p) == p.position # None /\ (p.length # None \/ p.chunked)

\* rewind_body succeeds: the body has a seek that works and a known offset.
CanRewind(p) == p.body \in Seekable /\ p.position = "offset"
=============================================================================
