# A specification of requests

TLA+ models of the parts of `requests` (version in `src/requests`) that keep
state over several steps: a call with its redirects, the body of a response,
digest authentication, the table of transport adapters and the connections they
pool, the settings of a session, and the environment that the threads of a
process share. Each module is translated from the source; `PROJECT.json` gives,
for every definition, the lines it stands for.

## The system

A caller makes a `Session` (or one is made for it by `requests.get` and its
siblings in `api.py`) and calls `Session.request`. The parts, what they keep,
and how they interact:

| Part | State | Operations | Correct when |
|---|---|---|---|
| `Session.request`, `send`, `resolve_redirects` (`sessions.py`) | the session's cookies; during a call the request, the proxies, the responses so far and `hist`, a local of the loop | prepare, send through an adapter, run hooks, keep cookies, drain and close a redirect, rewrite the request, send again, assemble the history, read the content | the limit holds, history is complete, the request is rewritten right at every hop, connections go back, the call ends |
| `PreparedRequest` (`models.py`) and `rebuild_*` (`sessions.py`) | method, URL, headers, jar, body, `_body_position` | `prepare_*`, `rebuild_method`, `rebuild_auth`, `rebuild_proxies`, `rewind_body` | headers agree with the body; logins, cookies and proxies are those of the URL |
| Cookie jars (`cookies.py`) | cookies per domain, path and name | the dict interface, `set`, `update`, `remove_cookie_by_name`, `cookiejar_from_dict`, `merge_cookies`, extract, header | a host gets back what it set; a session keeps only what servers set; the jar reads like a dict where it can |
| Header dicts (`structures.py`), settings (`sessions.py` `merge_setting`) | an ordered dict by lower-case key | set, delete, look up, merge | all spellings of a name are one key; the request's settings override the session's, `None` removes a key |
| Proxy rules (`utils.py`, `sessions.py`) | a dict of proxies, the environment | `merge_environment_settings`, `get_environ_proxies`, `should_bypass_proxies`, `rebuild_proxies`, `select_proxy` | each hop uses the proxy of its URL; the owner of a dict decides |
| `set_environ` (`utils.py`) | the environment of the process | save, set, restore | it is restored, whatever was raised in between |
| `HTTPDigestAuth` (`auth.py`) | per thread: nonce, count, challenge, body position, refusal counter | `__call__`, `handle_401`, `handle_redirect`, `build_digest_header` | counts go up, every challenge is answered once, bodies are resent whole, threads do not interfere |
| `Response` body (`models.py`) | `_content`, `_content_consumed`, the raw stream | `content`, `iter_content`, `iter_lines`, `close`, pickling | nothing is lost or read twice silently; the connection is released; lines and characters do not depend on the chunks |
| Adapter table (`sessions.py`) | an ordered dict of prefixes | `mount`, `get_adapter` | the longest prefix wins |
| `HTTPAdapter` (`adapters.py`) | pools of connections, per proxy | `send`, `build_response`, `close` | a place in a pool comes back whatever happens |
| Hooks (`hooks.py`) | none | `merge_hooks`, `dispatch_hook` | run once per response |
| Functional API (`api.py`), exceptions, status codes | none | open a session, make one call, close it | |
| Text: URLs, header values, encodings, multipart | none | pure functions | unit-testable |

The hard behaviours: a redirect loop that calls `send`, which runs the same
loop once more on the same response and the same jars; body streams that are
used up by the first send; servers that break off, stall, refuse or redirect
for ever; threads that share an auth object, a proxies dict or the process environment; requests
that are prepared here and sent there, later, twice; generators, `content` and
`close` that share one stream; two dicts, of headers and of cookies, that look
like plain ones and are not. `PROJECT.json` lists them with their lines under `hazards`.

## The modules

Operators first, state machines on top of them:

    URLs  <-- CookieJars  <--+
      ^                      +-- PreparedRequests <-- RedirectChain <-- MCRedirectChain
      +------ ProxyRules  <--+                              ^
                  ^                                         +-- RedirectChainProofs
                  |
                  +-- EnvironProxies <--+
                                        +-- NoProxyHosts <-- MCEnvironProxies
                         NoProxyList <--+        ^
                                                 +-- EnvironProxiesProofs

    ResponseBody <--+
       TextLines <--+-- ResponseLines <-- MCResponseBody
                                ^
                                +-- ResponseBodyProofs

    PythonValues <-- CaseInsensitiveDict, CookieDict <-- SessionSettings <-- MCSessionSettings
    HeaderMap <--(refined by)-- SessionSettings <-- SessionSettingsProofs
    AdapterTable <--(refined by)-- AdapterMounts <-- MCAdapterMounts
                                         ^
                                         +-- AdapterMountsProofs
    DigestAuth <-- MCDigestAuth;  DigestAuth <-- DigestAuthProofs
    ConnectionPool <-- ConnectionPoolProofs

    SequenceOperators <-- AdapterMounts, ResponseLines
    SequenceFolds <-- AdapterMountsProofs, EnvironProxiesProofs, ResponseBodyProofs, SessionSettingsProofs

`SequenceOperators` is the selection of a sequence as a fold, `SequenceFolds` the
lemmas about folds that four of the proof modules share.

A definition named `D_Variant` next to `D` is `D` as a plausible bug would have
it (an off-by-one, a missing guard, a forgotten reset). No specification uses
one. Substituted for `D`, each breaks one property of a run (`mutants` in
`PROJECT.json`), which shows that the property says something about the code.

### URLs, CookieJars, ProxyRules, PreparedRequests

A URL is a scheme and a host; a `Location` may lack one or both. In the chain a
jar follows one cookie name through the domains, the domain `None` being that of a cookie
made from a dict, which goes to every host. A proxies dict is a function from
its four kinds of keys (`scheme://host`, `scheme`, `all://host`, `all`); an entry
may be `None`, which is not the same as no entry (`Off` and `None` in the
modules): `merge_setting` removes it, so it hides the session's. A prepared request is a record; each method that rewrites one is an operator of
the same name, and `RedirectedRequest` is one pass of the loop of
`resolve_redirects`, in the order of the code: URL, method, purged headers,
cookies, proxies, auth. The order matters: `rebuild_auth` runs last and
recomputes `Content-Length`. A body is one of five kinds, by what
`prepare_body` and `rewind_body` ask of it: an encoded form, a seekable file, a
stream that can tell and not seek, one whose `tell` fails, a generator.

### RedirectChain

One call. `pc` is the place in the code:

| `pc` | code | actions |
|---|---|---|
| `send` | `Session.send` up to the adapter | `NoAdapter`, `TransportFails`, `Receive` |
| `follow` | the loop of the first send | `ReadStalls`, `RawReadFails`, `TooManyRedirects`, `UnrewindableBody`, `Follow`, `Assemble` |
| `next` | the single pass of a send with `allow_redirects=False`, which stores `Response.next` | `ReadStalls`, `RawReadFails`, `TooManyRedirects`, `UnrewindableBody`, `StoreNext`, `NoNext` |
| `read`, `deliver` | the last lines of `send` | `Return`, `ContentFails` |
| `done` | returned or raised | `Returned` |

A nested send goes `send`, `next`, `read` and back to `follow`. So the same
response is drained and rewritten twice, once in each pass, as in the code.
Servers are the environment: `Replies` are the responses they may give, with
the `fate` of reading the content: `whole`, `cut` (the peer goes away in the
middle), `stalled`, or `undecodable`. The loop tolerates the second and the
last: it reads what is left of an undecodable body raw (which may fail too,
`RawReadFails`) and closes the response. The last statement of `send` closes
nothing. A body that broke off has been given back by the library when
`r.content` raises; an undecodable one has not, and keeps its connection
(`ContentFails`), as it does in `ResponseBody`. A stream that was drained and
closed has nothing left, so a second look at its content has no effect. The
response hooks are the identity here.

### DigestAuth

Threads share one auth object; `local[t]` is the thread's `_thread_local`.
A program prepares the requests of one of `Programs` (`Prepare` is `__call__`)
and sends them, up to `MaxSends` times each, from any idle thread (`Send` is
`Session.send`). What can come of a transmission:

| The server | the code | actions |
|---|---|---|
| accepts | `handle_401` resets the counter | `Answered` |
| redirects on the same host | `handle_redirect`, and the copy is sent | `Redirect`, `RedirectFails`, `RedirectStops` |
| refuses without a digest challenge | `handle_401`, or no hook for an answer | `Refused`, `RefusedAgain` |
| refuses | `handle_401` raises before it looks at the challenge | `RefusedBadly` |
| challenges | `handle_401` | `Challenge`, `ChallengeBreaks`, `GiveUp`, `NotCounted` |
| goes away | `adapter.send` raises | `SendFails` |

A body is one of six kinds, by its `tell` and `seek`: none, a form (a string), a
file (both), a tape (`tell` and no `seek` that works), a pipe (`tell` raises, and so does
`__call__`), a generator (neither). `atStart` says whether it stands where the
program left it; sending a stream uses it up, and a position that belongs to
another body is another place. A seek happens whenever the thread's `pos` is
not `None`, whichever request it was recorded for: on a body that a redirect has dropped
(`NoBody`) or that has no seek (`NoSeek`) it raises. `num_401_calls` is `None`
until a `__call__` has come to its end, and comparing it is a `TypeError`
(`NotCounted`, and only Python 3 is modelled). A nonce is fresh, or the one just
refused. What `build_digest_header` cannot answer is `Unknowns`. Redirects to
another host, which `RedirectChain` follows, drop the header and are not here.

### ResponseBody

The body is the chunks `1..N`; chunk `cut` loses the connection and chunk
`corrupt` cannot be decoded. Several generators, `content` (which
`__getstate__` reads too) and `close` interleave. A generator decides when it is
made whether it reads the stream or slices of `_content`.

`ResponseLines` composes it with `TextLines`, which states `iter_lines` and
`stream_decode_response_unicode` as operators on the chunks a generator was
given. A chunk is a short sequence of bytes, among them `\r`, `\n` and the two
halves of a character.

### EnvironProxies, NoProxyList, NoProxyHosts

Threads that each work out the proxies of a call. `pc[t]` is the place in
`should_bypass_proxies` and `merge_environment_settings`:

| `pc` | code | action |
|---|---|---|
| `idle` | `merge_environment_settings` is called | `Begin` |
| `look` | the list (argument or environment) is matched | `Look` |
| `save`, `set` | `set_environ` before its `yield` | `Save`, `SetEnviron` |
| `ask` | `proxy_bypass` of urllib answers or raises | `Ask` |
| `restore` | the `finally` of `set_environ` | `Restore` |
| `merge` | the environment's proxies go into the dict, the session's are merged | `Merge` |

`environ` is the process's; `tables[d]` is a dict some caller owns and may pass
with many calls. The last line of the computation, and the whole of it for a
thread that is alone, is `MergeEnvironmentSettings` of `ProxyRules`, the operator
`RedirectChain` uses: `AsIfAlone` ties the two together. `overlapped`,
`disturbed` and `stale` are history variables: they say whether some other call
came across this one. `NoProxyList` is the matching of one host with a list of
names, addresses and networks, some of which may be empty and are passed over. An octet is the set of its bits that are one, and
the number that `struct` makes of four octets is the set of their places in the
machine's byte order, so that `&` is an intersection. `NoProxyHosts` gives each
host its netloc and says which hosts a list matches.

### SessionSettings, CaseInsensitiveDict, CookieDict, HeaderMap

A session between calls: `headers` and `jar`, and every operation of their dict
interfaces, in any order. `CaseInsensitiveDict` is the ordered `_store`, with the
spelling kept beside the value; `HeaderMap` is what its docstring promises, a map
on which all spellings agree. `CookieDict` has the jar as a function of domain,
path and name; since cookielib's iteration order depends on how the jar was
filled, a lookup that depends on it yields a set of results. `plain` is what a
plain dict would hold under the same calls, and `foreign` the names for which
the comparison is off. `MergeSetting` is what `prepare_request` makes of the
headers; `HeadersMerged` applies it in every state to every argument. What it
makes of the cookies is `AddDict`, an operation on the jar.

### AdapterMounts, AdapterTable

`AdapterTable` is what a session promises: the adapter mounted last for the
longest matching prefix. `AdapterMounts` is the ordered dict, with `mount`
moving the shorter keys behind and `get_adapter` taking the first match; it
implements the former with `mounted` read off the dict.

### ConnectionPool

Calls of several threads share the pool of one host. `pc[c]` is where call `c`
is in `HTTPAdapter.send`: `GetConnection` picks the pool, `Ask` takes a
connection from it or waits (`Served`), the call is sent, and `Responds`,
`SendFails` or `ChunkedFails` end it. A body of known length goes through
`urlopen`, which gives the connection of a failed request back; a chunked one is
sent by `send` itself, which closes it. `Release` is the caller's reading or
closing the response, which is what `ResponseBody` looks at from the inside:
its `held` is this module's `open`. `Discard` closes the pool (`close`, or a
host too many for `pool_connections`), between any two steps of a call, and a
later call gets a new one. `lost` counts what `ChunkedFails` leaves out. The pool
is the HTTP library's: `Take` and `Put` are modelled by how `adapters.py` uses
them. `pool_block` is chosen in `Init`.

## What is checked

| Run | Bounds | What it shows |
|---|---|---|
| `redirect_chain` | 2 hosts (one with a `.netrc` login and in `no_proxy`), http, https and a scheme without adapter, 2 redirects; 9 calls that differ in logins, cookies, proxies and streaming against 13 replies, among them the 4 fates of a body, and every method with every body against every redirect status | `RedirectLimit`, `HistoryComplete`, `CredentialsStayHome`, `CookiesFollow`, `SessionCookiesFromServers`, `EnvironmentProxyUsed`, `NextAgrees`, `ConnectionsReturned`, `BodyFollows`, `FramingMatchesBody`, `TellableBodyWhole`, `Termination` (259,332 states) |
| `chain_noproxy` | as `redirect_chain` | violated: `NoProxyStripsProxies` |
| `chain_unrewindable` | as `redirect_chain` | violated: `UnrewindableHasBody` |
| `digest_auth` | 2 threads, 2 nonces, 1 redirect; programs of two of 8 requests: a file, one that stands at its start and one that does not, a tape, a pipe, a generator, a form, no body, and a file that is sent twice | `NonceCountsUp`, `OwnBodyWhole`, `OwnChallengeAnswered`, `CallsEnd` (313,183 states) |
| `digest_threads` | as `digest_auth` | violated: `AnyThreadMaySend` |
| `response_body` | 3 chunks of 7 kinds, 3 generators, no delimiter and 3 delimiters | `NoSilentTruncation`, `LateReadersWhole`, `ConnectionReleased`, `NoContentAfterStream`, `LinesWhole` (31,834 states) |
| `response_retry` | 3 chunks, 3 generators | violated: `ContentFullyRead` |
| `adapter_mounts` | 6 prefixes of 3 lengths, 2 adapters, 5 URLs | `LongestPrefixWins` (2,844 states) |
| `environ_proxies` | 2 threads with 2 calls each, 2 hosts, 2 shared dicts (a list and no proxy; a proxy switched off and a list of one empty entry), `no_proxy` unset and `NO_PROXY` with a network; addresses of 2 parts of 2 bits | `NothingLeftBehind`, `AsIfAlone`, `ArgumentProtects`, `OwnersChoiceKept`, `NetworksMatch` (131,043 states) |
| `session_settings` | 2 header names, one in 2 spellings, 1 value and `None`; 1 cookie name, 2 domains, 2 paths, 1 text, the empty text and `None`; no bound on the calls | `HeadersAreAMap`, `HeadersMerged`, `DictLike`, `RaisingChangesNothing` (50,692 states) |
| `connection_pool` | 2 plain and 2 chunked calls, pools of 2 places, 2 pools one after the other, blocking or not | `PlacesAccounted`, `WaitersServed` |
| `pool_uploads` | as `connection_pool` | violated: `PlacesComeBack` |

The properties are stated, with their meaning, at the end of each module;
`LinesWhole` and `NetworksMatch`, which are about operators composed with a state
machine, in `ResponseLines` and `NoProxyHosts`. The type invariant of each state machine is
checked in its first run.

Why the bounds are enough. Two redirects make three requests: a chain can leave
a host and come back, keep a body and then lose it, set a cookie and then
expire it, and the limit is met with a history that is neither empty nor a
single response. What a further hop does depends on the request, the response
and the jars, all of which already occur. With three generators two can race
while a third is made late; three chunks give a first, a middle and a last one
to fail, and every pair and triple of chunks that cut `\r\n` or a character.
Two requests with different bodies, prepared and sent by two threads in any
order, are enough for one to meet the position and the counter of the other; a
second send of the same request reaches every state of that counter. The pairs
have a file that does not stand at its start with every other kind of body, so
that a position left behind is a wrong one for each of them. Four calls on two places make a waiter of either kind
compete with another one, while uploads fail, responses stay open and the pool is
closed under any of them. Two calls inside `set_environ` at once are all it takes to lose the
old value, and a second call of the same thread sees what the first one left;
the two dicts are the two ways an owner's entry can matter. The settings have
no bound but the size of their domains: each operation looks at one key, and a
second name shows that the others are left alone; a cookie of another domain,
of another path and without either are the three kinds a lookup by name alone
can confuse. Networks are checked for every length, those out of range
included, and every address with two parts, since masks are built part by part.

`digest_auth`, `digest_threads` and `environ_proxies` do not check deadlock: a
program that has sent all its requests, or made its `MaxCalls` calls, stops.
`connection_pool` and `pool_uploads` do not either:
once every call has ended nothing is left to do. The other models stop nowhere, or stutter
explicitly (`Returned`).

### Fairness

`RedirectChain` has weak fairness of `Next`: one thread runs the call without
waiting for anything but the network, and every wait there ends, with a reply or
with a transport failure (a stalled read ends because the library's timeout or
the peer ends it; a call without any timeout on a peer that stays silent for
ever is excluded). Fairness does not say which: `Termination` holds for every
sequence of replies, redirect loops included, thanks to the limit.
`DigestAuth` has weak fairness of `Respond(t)` for the same reason, and none of
`Prepare` and `Send`: `CallsEnd` is only about calls that have begun.
`ConnectionPool` has, for each call, weak fairness of taking a connection, of
the answer (as above) and of `Release`: callers read or close what they get, as
`docs/user/advanced.rst` asks of those who stream. It has none of `GetConnection`
and `Discard`. `WaitersServed` excludes a pool that is closed under the waiter,
and one that lost a place to a failed upload: what happens then is the subject of
`pool_uploads`. `EnvironProxies`, `SessionSettings`, `ResponseBody` and
`AdapterMounts` state safety only: no step of theirs waits for another.

## Where code and documents disagree

- `rebuild_proxies` never removes a proxy. A chain that starts at a host
  outside `no_proxy` and is redirected to one inside goes on through the proxy
  (`chain_noproxy`).
- A redirect that drops the body leaves `_body_position`; if the new host has a
  `.netrc` login, `prepare_auth` puts `Content-Length: 0` back, and the call
  fails with `UnrewindableBodyError` (`chain_unrewindable`).
- A thread that has not prepared a request with a digest auth object cannot
  handle a refusal for it: `AttributeError` in `handle_401` (`digest_threads`).
- After a failed read, `content` returns the rest of the body as if it were the
  whole (`response_retry`).
- When a chunked upload fails, the comment at the end of that branch of
  `HTTPAdapter.send` promises to clean up the connection; it is closed, and its
  place in the pool is gone. With `pool_block` every failure leaves the pool one
  smaller, until the next call waits for ever (`pool_uploads`).

Seen while modelling digest authentication, the settings and the environment,
without a run of its own:

- `handle_401` seeks whenever the thread has a position. The body a redirect
  has dropped is `None`, and the challenge behind such a redirect raises
  `AttributeError` although nothing is to be rewound (`NoBody`, which
  `OwnChallengeAnswered` allows after a redirect only).
- A generator is sent again, used up, in the answer to a challenge and after a
  307; nothing raises. `OwnBodyWhole` is about its first transmission.
- `num_401_calls` is `None` when `tell` has raised in the first `__call__` of a
  thread, and the next challenge raises `TypeError` (`NoCount`).
- `set_environ` (`utils.py:613-617`) promises to restore the old value. It does
  for one thread, also after an exception (`NothingLeftBehind`); two calls that
  overlap restore each other's value, and a variable that was unset raises
  `KeyError` in whoever deletes it second. The docstring says nothing of threads.
- `merge_environment_settings` writes the environment's proxies into the dict the
  caller passed, where the next call finds them as if the caller had put them
  there. `OwnersChoiceKept` is what remains true. A key the owner set to `None`
  is removed by `merge_setting`, and returns on a redirect, where
  `rebuild_proxies` (`sessions.py:271`) sets what is missing.
- `docs/user/advanced.rst:42` says a method's parameters override the session's.
  `merge_cookies` makes a request's cookie replace the session's of that name
  only if that one has no domain and the path `/`, as one from a dict has; a
  cookie that a server set is sent as well, with its own value. `advanced.rst:73`
  says a value of `None` omits a key; `cookies={'a': None}` sends the name `a`
  without a value, beside the session's `a` where that has a domain or a path.
  So no property claims either: it could only be stated for the cases in which
  it happens to be true.
- The jar is not quite a dict: an empty value reads as a missing one; `in` says
  yes to a conflict; `popitem` always raises `KeyError`; the docstring of
  `__setitem__` says that it throws, which it does not; `multiple_domains` is true
  when two cookies share a domain; with a valueless cookie in between, whether a
  lookup conflicts depends on the order of iteration.
- `iter_lines` yields one empty line too many for each chunk that ends between
  `\r` and `\n`, or right behind the delimiter (`LinesWhole` counts them).
- `build_digest_header` counts before it gives up on a qop it does not implement,
  and keeps the old nonce: the count of that nonce then no longer says how often
  it was used. `NonceCountsUp` is about servers that ask for no such qop
  (`Unknowns` in `digest_auth.cfg`).
- `verify=True` on a call is overridden by `session.verify=False`. A login inside
  a URL hides an address from the matching of networks.

Seen while modelling the chain, without a run: a final
response whose content cannot be decoded raises from `r.content` and keeps its
connection out of the pool, although the call does not stream and its caller has
no response to close (`docs/user/advanced.rst:315` lets one expect that reading
releases it), and `ConnectionsReturned` names it as the exception; the response that a redirect loop drains
lists itself in its own history when it is not the first (`hist[1:]` is taken
after the append), which `HistoryComplete` does not cover because it is about
the response that is returned; a digest refusal is in the history of its answer
only until a redirect replaces that history; a `.netrc` login replaces the
caller's own on a redirect to the same host; a session cookie overrides a
request cookie of the same name on a redirect; `max_redirects=0` raises
`TooManyRedirects` also with `allow_redirects=False`; `Proxy-Authorization` is made from the entry of the bare
scheme only; a prefix mounted in upper case never matches; a pickled response
has no `_next`.

## What is proved

`RedirectChainProofs` proves, for any hosts, schemes, proxies, cookies, calls,
replies and limit that meet the `ASSUME`s of the modules:

- `TypeCorrect`: `Spec => []TypeOK`. The type of a response depends on `pc`: in
  `follow`, `next`, `read` and `deliver` there is a response to look at, in
  `send` the lists of requests and responses have equal lengths. `InStep` says
  so, and `TypeOK /\ InStep` is inductive. The lemmas before it give the types
  of the operators of `PreparedRequests`, `ProxyRules` and `CookieJars`.
- `LimitHolds`: `Spec => []RedirectLimit`. `LimitInv` strengthens it with the
  relation of `hist` to `sent`: in the outer loop `Len(hist) + 1 = Len(sent)`,
  in a nested send one response is still missing, and until the limit is reached
  `Len(hist)` is at most `MaxRedirects`. Without `hist` the bound on `sent` is
  not inductive: the guard of `TooManyRedirects` looks at `hist` only.
- `LoginsStayHome`: `Spec => []CredentialsStayHome`. `LoginInv` adds that the
  request about to be sent (`LoginReady`) has a login of its own host only, and
  the caller's only if every request so far went to the host of the call. It is
  `RebuildAuth` that keeps it: the header of another host goes, `.netrc` gives a
  login for the host of the new URL.

About the responses of the chain, lemmas say
what each step does to them: `OnlyLatest` (a step that sends nothing replaces at
most the latest response, and keeps what the server said), `DrainedFacts`,
`ReceiveFacts`.

- `ConnectionsComeBack`: `Spec => []ConnectionsReturned`. `OpenInv` adds that,
  while the call goes on, a response whose content was asked for is closed, so
  that a send starts with no connection held: the property alone does not say it
  of the latest response. The one step that asks for content and leaves the
  connection out, `ContentFails` of an undecodable body, ends the call; every
  pass of the loop closes an undecodable response before the next send.
- `HistoriesComplete`: `Spec => []HistoryComplete`. `Listed` says what `hist` is
  at every place (all responses before the one looked at), `AllLinked` that each
  request went where the response before it pointed.
- `NextAlwaysAgrees`: `Spec => []NextAgrees`. The stored and the sent request are
  made by the same operator from jars that could differ. `Settled` says they do
  not: once a response has arrived, taking its cookie in once more changes
  nothing. `NextKept` follows the stored request to the next send.
- `SessionRemembersServers`: `Spec => SessionCookiesFromServers`, an action
  property, which needs `Settled` too, for the second extraction in `Return`.

About the requests:

- `BodiesFollow`, `BodiesFramed`, `BodiesWhole`: `Spec => []BodyFollows`,
  `[]FramingMatchesBody`, `[]TellableBodyWhole`, from one invariant. `BodyInv`
  says of the request about to be sent what the properties say of those that
  were (`Carries`, `Framed`), that a body which can tell has a recorded position
  (`Positioned`), and that it stands there. `PrepareRequest` establishes it and
  `RedirectedRequest` keeps it, through every helper that touches a header.
- `CookiesAlwaysFollow`: `Spec => []CookiesFollow`. A cookie has two ways to the
  next request, the jar of the request and that of the session. `JarsKnow` says
  that both have what a host set last (`LastSetter`), the request's one response
  later; where the host expired it, neither may still have it.
- `EnvironmentProxiesUsed`: `Spec => []EnvironmentProxyUsed`. `ProxyInv` says that
  `rebuild_proxies` has filled in the dict the next request is sent with, and
  that no step ever gives a host a key of its own.

About the end of a call:

- `CallsComeToAnEnd`: `Spec => [][StatementsLeft' < StatementsLeft]_vars`, with
  `StatementsLeft` a natural number by `RedirectLimit`: five for each request that
  the limit still allows, and the places left in the current pass. A behaviour
  therefore has at most `5 * (MaxRedirects + 2) + 1` steps that change anything.

`DigestAuthProofs` proves, for any threads, requests and nonces:

- `TypeCorrect`, with `HasChallenge`: a thread with a saved nonce has a saved
  challenge, without which `__call__` could not build a header.
- `NoncesCountUp`: `Spec => []NonceCountsUp`, if the server asks for no qop that
  is not implemented. `CountInv` says that a thread's attributes hold the nonce
  and the count of its latest header; headers of other threads come in between.
- `OwnBodiesWhole`, `OwnChallengesAnswered`: `Spec => []OwnBodyWhole` and
  `[]OwnChallengeAnswered`, for bodies of every kind. `handle_401` reads attributes of the thread;
  `OwnInv` says that they are those of the request the thread prepared last
  (`Knows`), that nobody has moved its body before it is sent, and that its
  counter stands at one when the first answer comes. So a seek goes to the
  body's own place and fails only for a tape or a dropped body, the header
  is missing only where the challenge to the thread cannot be answered, and a
  generator is the only body that can go out used up, after its first
  transmission.
- `AnswersAreBounded`: each answer of the server lowers `AnswersLeft` of its call,
  and no step of another thread raises it: a redirect uses one of the allowed
  hops and resets the hook, a challenge uses the one answer the hook gives.

`ResponseBodyProofs` proves, for any number of chunks and any set of generators:

- `TypeCorrect`, with `Flags`: what is set is consumed, a generator over
  `_content` was made late, one that reached the end of the stream has said so.
  Without `Flags` a step of a generator over slices could index `False`.
- `ReleasedAlways`: `Spec => []ConnectionReleased`, which is inductive given the
  types.
- `StreamedOnce`: `Spec => NoContentAfterStream`, an action property, from
  `Flags`: such a body is consumed, and `ReadContent` needs one that is not.
- `LateReaders`: `Spec => []LateReadersWhole`. `PrefixesYielded` says that what a late
  generator has yielded is a prefix of `_content`, and all of it at its end.
- `LinesAreWhole`: `Spec => []LinesWhole`, for chunks of any bytes and any length
  and for every delimiter. The decoder, the scan for line ends and the scan for a
  delimiter are folds over a pair of what came out and what is still open. A
  shift lemma each (`DecodeShift`, `LineShift`, `PartShift`) says that starting
  from an open end equals putting that end in front of the text; so the line
  that `iter_lines` keeps in `pending` can be scanned again with the next chunk.
  `FedAtBreaks` and `FedAtDelimiter` are the invariant of its loop: after any
  number of chunks the lines yielded, without the empty ones, and `pending` are
  those of the text so far, and there is one line more for each boundary in
  `Splits`. `ChunksDecoded` reduces `decode_unicode` to the same statement: the
  decoded chunks put together are the decoded body.
- `NothingLost`: `Spec => []NoSilentTruncation`. `Partition` says, while no error
  and no close happened, that each chunk off the wire has exactly one holder, a
  chunk still on it none, and that a consumed body is wholly off the wire. The
  property alone is not inductive: it says nothing of a body half read.

`ConnectionPoolProofs` proves, for any finite set of calls, pool size and number
of pools:

- `TypeCorrect`: no queue goes below zero or above its size.
- `PlacesHold`: `Spec => []PlacesAccounted`. `Inv` adds `Known`, that a response
  that is open knows its pool: without it `Release` could drop a place. The
  lemmas `OneMore`, `OneLess` and `SameUsers` say how a step changes the number of
  connections in use.

`AdapterMountsProofs` proves, for any prefixes, URLs and adapters:

- `LongestPrefixMatches`: `Spec => LongestPrefixWins`, a refinement. `Tables` are
  the lists with each prefix once and no prefix longer than one before it; mounting
  keeps them so, and in such a list the first prefix that matches is the longest.
  Two prefixes of one URL that are equally long are the same, so the first is
  also the only one; without the order of the list `get_adapter` would be wrong.

`EnvironProxiesProofs` proves, for any number of threads, dicts, hosts and calls:

- `TypeCorrect`, which is inductive.
- `OwnersDecide`: `Spec => []OwnersChoiceKept`, from `EntriesKept`: no step
  overwrites an entry that was in a dict from the start.
- `NothingStays`: `Spec => []NothingLeftBehind`. `EnvironInv` says, until two calls
  overlap, that at most one thread is inside `set_environ`, that the environment
  is as it was before that thread sets it, and that `old` of a thread that will
  restore is the original value.
- `AloneIsRight`: `Spec => []AsIfAlone`, and `ListProtects`:
  `Spec => []ArgumentProtects`. `AnswerInv` follows one thread through its call:
  what `bypass` says at each place, and that a thread nobody came across reads
  the original environment.

- `NetworksAreExact`: `Spec => []NetworksMatch`, for addresses of any number of
  octets of any width and for both byte orders. Every bit has a
  weight of its own in the number `struct` makes of an address (`WeightsDiffer`,
  `NativeBits`), `dotted_netmask` has exactly the leading bits (`NetmaskBits`), so
  intersecting with it compares those (`SameNetwork`).

`SessionSettingsProofs` proves, for any names, spellings, values, domains, paths
and jars:

- `TypeCorrect`, with the sequence of items and `NamesOnce`: without it setting an
  item could leave another spelling behind.
- `MapImplemented`: `Spec => HeadersAreAMap`, a refinement: every call on the
  ordered list of items is a step of `HeaderMap` or changes no lookup.
- `ReadsLikeADict`: `Spec => []DictLike`, from `JarFollows`: a name that is not
  foreign is in the jar with one cookie at most, the one without domain and at
  the root, and with the value of `plain`.
- `HeadersAreMerged`: `Spec => []HeadersMerged`. `merge_setting` is two updates and
  a pass that removes what is `None`; lemmas say what a look-up finds after each
  of the folds, whatever headers the session and the request bring.
- `RaisingIsSafe`: `Spec => RaisingChangesNothing`.

`SequenceFolds` holds what those proofs need about sequences. Induction is stated
there for sets (`SetInduction`, `BoundedInduction`, `SequenceInduction`: a set with the
empty sequence and with every extension of its elements has every sequence), and
a fold with a function in the place of its operator (`Folded`), since the provers
do not take a theorem with an operator for a parameter. `FoldSteps` opens the fold
of the community modules, whose recursive function is a `CHOOSE`, by showing that
such a function exists; `FoldedAppend`, `FoldedConcat` and `FilterSelects` are what
the other modules cite.

All proofs assume only the named `ASSUME`s of the modules they are about; each is
evaluated by a run.

Only model-checked: `Termination`, `CallsEnd` and `WaitersServed`. They are liveness
under fairness, which needs `ENABLED` and is out of the proof system's reach;
`CallsComeToAnEnd` and `AnswersAreBounded` prove the part of the first two that is
not about fairness. That a chain which has not ended can always take a step is
TLC's check for deadlock in `redirect_chain`. Every other property of the passing
runs is a theorem.

## Not modelled

Verification and certificates (`verify`, `cert`) and timeouts are handed on
unread; `elapsed` is a measurement. The texts of URLs, headers and bodies, their
quoting and encoding, multipart, `json()`, `text` and the guessing of encodings
are functions of one argument without interplay, which unit tests reach. Cookies
have no expiry date, port or morsel. The functional API opens a session, makes
one call and closes it. Exceptions, status codes, packaging and diagnostics are
names and tables; documentation and tests were read as evidence.

The HTTP library (urllib3), `cookielib` and urllib's `proxy_bypass` are external:
`ResponseBody` models the raw stream by how `models.py` uses it,
`ConnectionPool` the queue by how `adapters.py` does, `CookieJars` and
`CookieDict` what `cookies.py` asks of the jar, `EnvironProxies` the variable that
`proxy_bypass` reads. The retries of `urlopen` (`max_retries`) are inside it and
are not seen here. A caller's own response hooks are the identity.

## Plan

Done: the chain and its operators, digest authentication, the response body with
its lines, the adapter table, the connection pool, the environment and the
settings, with the proofs of all their safety and action properties and of both
refinements. What is left, in this order:

1. The response hooks of a caller in the chain, which may replace a response.
2. The retries of `urlopen`, seen from `ConnectionPool`.
