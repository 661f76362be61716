---------------------------- MODULE RedirectChain ----------------------------
(***************************************************************************)
(* One call of Session.request (requests/sessions.py): the request is      *)
(* prepared and sent, and the redirects it meets are followed by           *)
(* resolve_redirects, which sends every further request through            *)
(* Session.send with allow_redirects=False.  That nested send runs         *)
(* resolve_redirects a second time, on the new response, to store the      *)
(* request that Response.next returns; it shares the response, the jars    *)
(* and the body stream with the loop around it.                            *)
(*                                                                         *)
(* The server is the environment: it answers every request with any of     *)
(* Replies, or the transport fails.  Response hooks are the identity here  *)
(* (the digest hook has a module of its own).                              *)
(***************************************************************************)
EXTENDS PreparedRequests, Sequences

CONSTANTS
    Mounted,        \* the schemes with a connection adapter
    MaxRedirects,   \* Session.max_redirects
    Calls,          \* the calls of Session.request that may be made
    SessionJars,    \* the jars the session may hold before the call
    Replies         \* Replies[c]: the responses that servers may give in call c

(***************************************************************************)
(* auth: an auth argument is given; cookie: the value of a cookies dict;   *)
(* follow: allow_redirects; noProxy: a 'no_proxy' key in proxies.          *)
(***************************************************************************)
CallSpace ==
    [method : Methods, url : URLs, auth : BOOLEAN,
     cookie : CookieValues \cup {None}, body : Bodies \cup {None},
     stream : BOOLEAN, follow : BOOLEAN, proxies : GivenTables,
     noProxy : (SUBSET Hosts) \cup {None}]

(***************************************************************************)
(* fate: what comes of reading the content.  "cut" raises                  *)
(* ChunkedEncodingError (or ContentDecodingError, of the last of the       *)
(* body), and the library has given the connection back by then;           *)
(* "undecodable" raises ContentDecodingError with more of the body still   *)
(* on the connection, which the library keeps out; "stalled" raises the    *)
(* ConnectionError that iter_content makes of a read timeout.              *)
(***************************************************************************)
Fates == {"whole", "cut", "undecodable", "stalled"}

ReplySpace ==
    [status : Statuses, location : Locations \cup {None},
     cookie : CookieValues \cup {None, Expired},
     fate : Fates]

ASSUME ChainAssumption ==
    /\ Mounted \subseteq Schemes
    /\ MaxRedirects \in Nat
    /\ Calls \subseteq CallSpace
    /\ SessionJars \subseteq Jars
    /\ Replies \in [Calls -> SUBSET ReplySpace]
    /\ None \notin Locations
    /\ None \notin Requests

VARIABLES
    pc,        \* where Session.send or resolve_redirects is
    call,      \* the arguments of the call
    req,       \* the request being sent, or answered last
    proxies,   \* the proxies argument of the (nested) send
    jar,       \* Session.cookies
    unread,    \* the body stream stands where the caller left it
    sent,      \* what went to an adapter: request, proxy, was its body whole
    resps,     \* the responses; resps[i] answers sent[i]
    hist,      \* hist of the outer resolve_redirects: indices of resps
    outcome    \* "running", "ok" or the exception the caller sees

vars == <<pc, call, req, proxies, jar, unread, sent, resps, hist, outcome>>

latest == Len(resps)
Response == resps[latest]

\* Response.content once it was asked for: "read", or "lost" after a failure
\* (a stream that is drained or closed then has nothing left to give).
Responses ==
    [status : Statuses, location : Locations \cup {None},
     cookie : CookieValues \cup {None, Expired},
     fate : Fates,
     content : {"unread", "read", "lost"},
     open : BOOLEAN,                      \* holds a connection of the pool
     history : Seq(Nat),                  \* Response.history, as indices
     next : Requests \cup {None}]         \* Response._next

Transmissions ==
    [req : Requests, via : Proxies \cup {None}, whole : BOOLEAN]

Init ==
    /\ call \in Calls
    /\ jar \in SessionJars
    /\ pc = "send"
    /\ req = PrepareRequest(call, jar)
    /\ proxies = MergeEnvironmentSettings(call.url.host, call.proxies,
                                          call.noProxy)
    /\ unread = TRUE
    /\ sent = <<>>
    /\ resps = <<>>
    /\ hist = <<>>
    /\ outcome = "running"

Stop(result) == pc' = "done" /\ outcome' = result

\* What HTTPAdapter.send puts on the wire; sending a stream uses it up.
Transmit ==
    /\ sent' = Append(sent,
           [req |-> req, via |-> SelectProxy(req.url, proxies),
            whole |-> req.body \in Streams => unread])
    /\ unread' = (unread /\ req.body \notin Streams)

\* Session.send: get_adapter finds no adapter.
NoAdapter ==
    /\ pc = "send"
    /\ req.url.scheme \notin Mounted
    /\ Stop("InvalidSchema")
    /\ UNCHANGED <<call, req, proxies, jar, unread, sent, resps, hist>>

\* Session.send: adapter.send raises.
TransportFails ==
    /\ pc = "send"
    /\ req.url.scheme \in Mounted
    /\ Transmit
    /\ Stop("ConnectionError")
    /\ UNCHANGED <<call, req, proxies, jar, resps, hist>>

\* Session.send: adapter.send returns; the response's cookies are kept.  The
\* first send follows redirects if the caller asked for it, a nested one never.
Receive(reply) ==
    /\ pc = "send"
    /\ req.url.scheme \in Mounted
    /\ Transmit
    /\ resps' = Append(resps,
           [status |-> reply.status, location |-> reply.location,
            cookie |-> reply.cookie, fate |-> reply.fate,
            content |-> "unread", open |-> TRUE, history |-> <<>>,
            next |-> None])
    /\ jar' = ExtractCookies(jar, req.url.host, reply.cookie)
    /\ pc' = IF call.follow /\ resps = <<>> THEN "follow" ELSE "next"
    /\ UNCHANGED <<call, req, proxies, hist, outcome>>

(***************************************************************************)
(* One pass of resolve_redirects.  At "follow" it is the loop of the first *)
(* send, at "next" the single pass that a send with allow_redirects=False  *)
(* makes with a hist of its own.                                           *)
(***************************************************************************)
Redirected == pc \in {"follow", "next"} /\ RedirectTarget(Response) # None

\* hist.append(resp); resp.history = hist[1:].
HistoryHere == IF pc = "follow" THEN Tail(Append(hist, latest)) ELSE <<>>

\* Reading the content raises ConnectionError, which the loop lets through.
DrainStalls == Response.content = "unread" /\ Response.fate = "stalled"

\* Mutant: the connection is not released.
Drained_StaysOpen(resp) ==
    [resp EXCEPT !.content = IF @ # "unread" THEN @
                             ELSE IF resp.fate = "whole" THEN "read" ELSE "lost",
                 !.history = HistoryHere]

\* The response as the loop leaves it: content read, connection released.
Drained(resp) ==
    [resp EXCEPT !.content = IF @ # "unread" THEN @
                             ELSE IF resp.fate = "whole" THEN "read" ELSE "lost",
                 !.open = FALSE,
                 !.history = HistoryHere]

\* hist is a local variable: the nested pass has one of its own.
KeepResponse ==
    /\ resps' = [resps EXCEPT ![latest] = Drained(@)]
    /\ hist' = IF pc = "follow" THEN Append(hist, latest) ELSE hist

\* Mutant: one redirect too many.
LimitReached_OffByOne == Len(HistoryHere) > MaxRedirects

LimitReached == Len(HistoryHere) >= MaxRedirects

Following == RedirectedRequest(req, Response, jar, proxies, call.noProxy)

ReadStalls ==
    /\ Redirected
    /\ DrainStalls
    /\ KeepResponse
    /\ Stop("ConnectionError")
    /\ UNCHANGED <<call, req, proxies, jar, unread, sent>>

\* The body could not be decoded, and reading the rest of it raw fails too:
\* that error is not caught, and the library gives the connection back.
RawReadFails ==
    /\ Redirected
    /\ Response.content = "unread" /\ Response.fate = "undecodable"
    /\ KeepResponse
    /\ Stop("RawReadError")
    /\ UNCHANGED <<call, req, proxies, jar, unread, sent>>

TooManyRedirects ==
    /\ Redirected
    /\ ~DrainStalls
    /\ LimitReached
    /\ KeepResponse
    /\ Stop("TooManyRedirects")
    /\ UNCHANGED <<call, req, proxies, jar, unread, sent>>

UnrewindableBody ==
    /\ Redirected
    /\ ~DrainStalls /\ ~LimitReached
    /\ Rewindable(Following) /\ ~CanRewind(Following)
    /\ KeepResponse
    /\ Stop("UnrewindableBodyError")
    /\ UNCHANGED <<call, req, proxies, jar, unread, sent>>

MayFollow ==
    /\ Redirected
    /\ ~DrainStalls /\ ~LimitReached
    /\ Rewindable(Following) => CanRewind(Following)

Rewind == unread' = (unread \/ Rewindable(Following))

\* Mutant: resolve_redirects is not given the arguments of the send.
StoreNext_WithoutArguments ==
    /\ MayFollow
    /\ pc = "next"
    /\ resps' = [resps EXCEPT ![latest] =
           [Drained(@) EXCEPT !.next =
               RedirectedRequest(req, Response, jar, NoProxies, None)]]
    /\ Rewind
    /\ pc' = "read"
    /\ UNCHANGED <<call, req, proxies, jar, sent, hist, outcome>>

\* Session.send with allow_redirects=False: r._next = next(...).
StoreNext ==
    /\ MayFollow
    /\ pc = "next"
    /\ resps' = [resps EXCEPT ![latest] = [Drained(@) EXCEPT !.next = Following]]
    /\ Rewind
    /\ pc' = "read"
    /\ UNCHANGED <<call, req, proxies, jar, sent, hist, outcome>>

\* The same when there is nothing to follow: StopIteration.
NoNext ==
    /\ pc = "next"
    /\ RedirectTarget(Response) = None
    /\ pc' = "read"
    /\ UNCHANGED <<call, req, proxies, jar, unread, sent, resps, hist, outcome>>

\* The loop of the first send hands the next request to a nested send.
Follow ==
    /\ MayFollow
    /\ pc = "follow"
    /\ KeepResponse
    /\ Rewind
    /\ proxies' = RebuildProxies(Following.url, proxies, call.noProxy)
    /\ req' = Following
    /\ pc' = "send"
    /\ UNCHANGED <<call, jar, sent, outcome>>

\* Mutants: the first response is left out; the loop starts over.
Assemble_LosesFirst ==
    /\ pc = "follow"
    /\ RedirectTarget(Response) = None
    /\ resps' = IF hist = <<>> THEN resps
                ELSE [resps EXCEPT ![latest].history = Tail(hist)]
    /\ pc' = "deliver"
    /\ UNCHANGED <<call, req, proxies, jar, unread, sent, hist, outcome>>

Assemble_StartsOver ==
    /\ pc = "follow"
    /\ RedirectTarget(Response) = None
    /\ pc' = "next"
    /\ UNCHANGED <<call, req, proxies, jar, unread, sent, resps, hist, outcome>>

\* Session.send: the last response is given the earlier ones as its history.
Assemble ==
    /\ pc = "follow"
    /\ RedirectTarget(Response) = None
    /\ resps' = IF hist = <<>> THEN resps
                ELSE [resps EXCEPT ![latest].history = hist]
    /\ pc' = "deliver"
    /\ UNCHANGED <<call, req, proxies, jar, unread, sent, hist, outcome>>

\* The last statement of Session.send: r.content unless the caller streams.  A
\* nested send ("read" of a call that follows) returns to resolve_redirects,
\* which keeps the cookies once more.
ReadsContent == ~call.stream /\ Response.content = "unread"

\* Mutant: the jar of the request is merged into the session's.
Return_PersistsRequestCookies ==
    /\ pc \in {"read", "deliver"}
    /\ ReadsContent => Response.fate = "whole"
    /\ resps' = IF ReadsContent
                THEN [resps EXCEPT ![latest].content = "read", ![latest].open = FALSE]
                ELSE resps
    /\ IF pc = "read" /\ call.follow
       THEN /\ pc' = "follow"
            /\ jar' = MergeCookies(jar, req.jar)
            /\ UNCHANGED outcome
       ELSE Stop("ok") /\ UNCHANGED jar
    /\ UNCHANGED <<call, req, proxies, unread, sent, hist>>

Return ==
    /\ pc \in {"read", "deliver"}
    /\ ReadsContent => Response.fate = "whole"
    /\ resps' = IF ReadsContent
                THEN [resps EXCEPT ![latest].content = "read", ![latest].open = FALSE]
                ELSE resps
    /\ IF pc = "read" /\ call.follow
       THEN /\ pc' = "follow"
            /\ jar' = ExtractCookies(jar, req.url.host, Response.cookie)
            /\ UNCHANGED outcome
       ELSE Stop("ok") /\ UNCHANGED jar
    /\ UNCHANGED <<call, req, proxies, unread, sent, hist>>

\* r.content raises, and nothing closes the response: the connection is back
\* only if the library gave it back.
ContentFails ==
    /\ pc \in {"read", "deliver"}
    /\ ReadsContent /\ Response.fate # "whole"
    /\ Stop(IF Response.fate = "stalled" THEN "ConnectionError"
                                         ELSE "ContentError")
    /\ resps' = [resps EXCEPT ![latest].content = "lost",
                              ![latest].open = (Response.fate = "undecodable")]
    /\ UNCHANGED <<call, req, proxies, jar, unread, sent, hist>>

Returned == pc = "done" /\ UNCHANGED vars

Next ==
    \/ NoAdapter
    \/ TransportFails
    \/ \E reply \in Replies[call] : Receive(reply)
    \/ ReadStalls
    \/ RawReadFails
    \/ TooManyRedirects
    \/ UnrewindableBody
    \/ StoreNext
    \/ NoNext
    \/ Follow
    \/ Assemble
    \/ Return
    \/ ContentFails
    \/ Returned

(***************************************************************************)
(* One thread runs the call to its end: it takes its next statement, and a *)
(* server or the transport answers in the end (a read timeout is set).     *)
(***************************************************************************)
Spec == Init /\ [][Next]_vars /\ WF_vars(Next)

-----------------------------------------------------------------------------
\* Type invariant: every variable of the call keeps its shape.
TypeOK ==
    /\ pc \in {"send", "follow", "next", "read", "deliver", "done"}
    /\ call \in Calls
    /\ req \in Requests
    /\ proxies \in ProxyTables
    /\ jar \in Jars
    /\ unread \in BOOLEAN
    /\ sent \in Seq(Transmissions)
    /\ resps \in Seq(Responses)
    /\ hist \in Seq(Nat)
    /\ outcome \in {"running", "ok", "InvalidSchema", "ConnectionError",
                    "RawReadError", "ContentError", "TooManyRedirects",
                    "UnrewindableBodyError"}

\* max_redirects counts the requests that follow the first one: no more of
\* them are sent, and TooManyRedirects is raised when exactly that many were
\* and the last response still redirects (resolve_redirects compares the
\* length of a history that leaves the first response out).
RedirectLimit ==
    /\ Len(sent) <= MaxRedirects + 1
    /\ outcome = "TooManyRedirects" =>
          /\ Len(sent) = MaxRedirects + 1
          /\ RedirectTarget(Response) # None

\* The response that Session.send returns has every earlier response in its
\* history, oldest first, and each of them redirected to the next request.
HistoryComplete ==
    outcome = "ok" =>
        /\ Response.history = [i \in 1..(latest - 1) |-> i]
        /\ \A i \in 1..(latest - 1) :
              /\ RedirectTarget(resps[i]) # None
              /\ sent[i + 1].req.url = Resolve(sent[i].req.url, resps[i].location)

\* A login goes to the host it is for, and the one the caller gave goes only
\* where the chain has not yet left that host (rebuild_auth): it does not
\* come back with a later redirect to the first host.
CredentialsStayHome ==
    \A i \in 1..Len(sent) :
        LET auth == sent[i].req.auth
        IN  auth # None =>
                /\ auth.host = sent[i].req.url.host
                /\ auth.by = "caller" =>
                      \A j \in 1..i : sent[j].req.url.host = call.url.host

\* The body and the method of the call survive exactly the chains of 307 and
\* 308, and HEAD survives every chain (rebuild_method, resolve_redirects).
BodyFollows ==
    \A i \in 1..Len(sent) :
        LET p    == sent[i].req
            kept == \A j \in 1..(i - 1) : resps[j].status \in {307, 308}
        IN  /\ p.body = IF kept THEN call.body ELSE None
            /\ kept \/ call.method = "HEAD" => p.method = call.method
            /\ p.method \in {call.method, "GET"}

\* The headers that frame the body agree with the body: one of Content-Length
\* and Transfer-Encoding where there is one, neither of a dropped body's where
\* there is none, over every mix of redirects and of auth that recomputes them.
FramingMatchesBody ==
    \A i \in 1..Len(sent) :
        LET p == sent[i].req
        IN  /\ p.chunked = (p.body \in Streams \ Sized)
            /\ (p.length = "body") = (p.body \in Sized)
            /\ p.ctype = (p.body = "form")
            /\ p.length = "0" => p.method \notin {"GET", "HEAD"}

\* A body that has a position is sent whole each time or not sent again: it
\* is rewound before the next request, or the call raises (rewind_body).
TellableBodyWhole ==
    \A i \in 1..Len(sent) :
        sent[i].req.body \in {"file", "tape", "pipe"} => sent[i].whole

\* A host sees, on its next request of the chain, the cookie it set last, and
\* not one that it has expired since.
CookiesFollow ==
    \A j, k \in 1..Len(sent) :
        LET host == sent[k].req.url.host
            Sets(i) == sent[i].req.url.host = host /\ resps[i].cookie # None
        IN  j < k /\ Sets(j) /\ (\A i \in (j + 1)..(k - 1) : ~Sets(i)) =>
                {c \in sent[k].req.cookies : c[1] = host} =
                    {<<host, v>> : v \in {resps[j].cookie} \ {Expired}}

\* What a session remembers comes from servers: only the cookie of the host
\* that just answered changes, never one passed with a single request.
SessionCookiesFromServers ==
    [][\A d \in Domains : jar'[d] # jar[d] =>
          /\ d = sent'[Len(sent')].req.url.host
          /\ resps'[Len(resps')].cookie # None]_vars

\* A redirect to a host outside no_proxy goes through a proxy whenever the
\* environment has one for its scheme, also when an earlier host of the chain
\* was reached without (rebuild_proxies sets the missing keys); and a
\* Proxy-Authorization header is for the proxy that is used, unless a key
\* for that very host decides.
EnvironmentProxyUsed ==
    \A i \in 2..Len(sent) :
        LET url == sent[i].req.url
        IN  /\ /\ TrustEnv
               /\ ~ShouldBypass(url.host, call.noProxy)
               /\ GetOrAll(EnvProxies, url.scheme) # None
               => sent[i].via # None
            /\ /\ sent[i].req.proxyAuth # None
               /\ call.proxies[<<url.scheme, url.host>>] = None
               /\ EnvProxies[<<url.scheme, url.host>>] = None
               /\ SessionProxies[<<url.scheme, url.host>>] = None
               => sent[i].req.proxyAuth = sent[i].via

\* Response.next of a response that was followed is the request that was sent
\* next, although the two are built one after the other from shared jars and
\* a shared response.
NextAgrees ==
    \A i \in 1..(Len(sent) - 1) :
        resps[i].next # None => resps[i].next = sent[i + 1].req

\* A chain holds one connection at a time: every response before the latest
\* gave its connection back, whatever its body was like.  When the call is
\* over the latest holds one only if the caller streams the response that is
\* returned, or if its content, which nobody asks for again, was undecodable.
ConnectionsReturned ==
    /\ \A i \in 1..(latest - 1) : ~resps[i].open
    /\ pc = "done" /\ latest >= 1 /\ Response.open =>
          \/ outcome = "ok" /\ call.stream
          \/ outcome = "ContentError" /\ Response.fate = "undecodable"

\* Whatever the servers answer, the call returns or raises.
Termination == <>(pc = "done")

\* What the docstring of rebuild_proxies promises: a redirect to a host that
\* no_proxy covers is not sent through a proxy (here: of the environment).
NoProxyStripsProxies ==
    call.proxies = NoProxies /\ SessionProxies = NoProxies =>
        \A i \in 2..Len(sent) :
            ShouldBypass(sent[i].req.url.host, call.noProxy) => sent[i].via = None

\* What UnrewindableBodyError and the comments of resolve_redirects say of it:
\* it is raised when there is a body to send again.
UnrewindableHasBody ==
    outcome = "UnrewindableBodyError" => Following.body # None
=============================================================================
