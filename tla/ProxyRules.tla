----------------------------- MODULE ProxyRules -----------------------------
(***************************************************************************)
(* The proxy settings of a request: requests/utils.py (select_proxy,       *)
(* should_bypass_proxies, get_environ_proxies) and the two places of       *)
(* requests/sessions.py that combine them (merge_environment_settings when *)
(* a request is made, rebuild_proxies when it is redirected).              *)
(*                                                                         *)
(* A proxies dict is a function from its keys to proxies, None where the   *)
(* key is missing.  The key <<scheme, host>> is 'scheme://host', and None  *)
(* in its place leaves a part out: <<None, None>> is 'all'.  A key that a  *)
(* caller has set to Python's None is Off: it is there, and merging the    *)
(* settings takes it away.                                                 *)
(***************************************************************************)
EXTENDS URLs, Integers

CONSTANTS
    Off,            \* the None that a caller gives for a key
    Proxies,        \* proxy URLs
    AuthProxies,    \* the proxy URLs with a user name and a password in them
    TrustEnv,       \* Session.trust_env
    NoProxy,        \* the hosts the no_proxy environment variable matches
    EnvProxies,     \* what urllib's getproxies() reads from the environment
    SessionProxies  \* Session.proxies

ProxyKeys == (Schemes \cup {None}) \X (Hosts \cup {None})

ProxyTables == [ProxyKeys -> Proxies \cup {None}]

GivenTables == [ProxyKeys -> Proxies \cup {None, Off}]

ASSUME ProxyAssumption ==
    /\ None \notin Proxies
    /\ Off \notin Proxies
    /\ Off # None
    /\ AuthProxies \subseteq Proxies
    /\ TrustEnv \in BOOLEAN
    /\ NoProxy \subseteq Hosts
    /\ EnvProxies \in ProxyTables
    /\ SessionProxies \in GivenTables

NoProxies == [k \in ProxyKeys |-> None]

\* should_bypass_proxies: an explicit no_proxy list replaces the environment's.
ShouldBypass(host, noProxy) ==
    host \in IF noProxy = None THEN NoProxy ELSE noProxy

GetEnvironProxies(host, noProxy) ==
    IF ShouldBypass(host, noProxy) THEN NoProxies ELSE EnvProxies

\* dict.setdefault for every item of added.
SetDefaults(table, added) ==
    [k \in ProxyKeys |-> IF table[k] # None THEN table[k] ELSE added[k]]

\* Mutants: the keys set to None stay; they are taken out too early.
MergeSetting_KeepsOff(given) == SetDefaults(given, SessionProxies)

MergeSetting_OffFirst(given) ==
    [k \in ProxyKeys |-> IF given[k] \notin {None, Off} THEN given[k]
                         ELSE IF SessionProxies[k] = Off THEN None
                         ELSE SessionProxies[k]]

\* merge_setting: the given dict over the session's, without the Nones.
MergeSetting(given) ==
    LET merged == SetDefaults(given, SessionProxies)
    IN  [k \in ProxyKeys |-> IF merged[k] = Off THEN None ELSE merged[k]]

\* merge_environment_settings: the environment fills the caller's dict, and
\* the result overrides the session's.
MergeEnvironmentSettings(host, given, noProxy) ==
    MergeSetting(
        IF TrustEnv THEN SetDefaults(given, GetEnvironProxies(host, noProxy))
                    ELSE given)

\* dict.get(scheme, dict.get('all')).
GetOrAll(table, scheme) ==
    IF table[<<scheme, None>>] # None THEN table[<<scheme, None>>]
                                      ELSE table[<<None, None>>]

\* Mutant: the keys an earlier redirect went without are not filled in.
RebuildProxies_NoDefault(url, table, noProxy) == table

\* rebuild_proxies: the dict that the redirected request is sent with.
RebuildProxies(url, table, noProxy) ==
    IF TrustEnv /\ ~ShouldBypass(url.host, noProxy)
    THEN LET key == <<url.scheme, None>>
         IN  [table EXCEPT ![key] =
                 IF @ # None THEN @ ELSE GetOrAll(EnvProxies, url.scheme)]
    ELSE table

\* The Proxy-Authorization header of a redirected request: it is made from
\* the entry of the bare scheme alone.
ProxyAuthorization(url, table) ==
    LET proxy == table[<<url.scheme, None>>]
    IN  IF proxy \in AuthProxies THEN proxy ELSE None

\* select_proxy: the most specific key that is there decides.
SelectProxy(url, table) ==
    LET keys == << <<url.scheme, url.host>>, <<url.scheme, None>>,
                   <<None, url.host>>, <<None, None>> >>
        found == {i \in 1..4 : table[keys[i]] # None}
    IN  IF found = {} THEN None
        ELSE table[keys[CHOOSE i \in found : \A j \in found : i <= j]]
=============================================================================
