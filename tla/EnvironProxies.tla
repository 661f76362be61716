--------------------------- MODULE EnvironProxies ---------------------------
(***************************************************************************)
(* The proxies of a request as threads of one process work them out:       *)
(* requests/sessions.py merge_environment_settings, and                    *)
(* get_environ_proxies, should_bypass_proxies and set_environ of           *)
(* requests/utils.py.                                                      *)
(*                                                                         *)
(* Two things are shared.  The environment belongs to the process, and     *)
(* set_environ puts the call's no_proxy into it while urllib's             *)
(* proxy_bypass looks.  A proxies dict belongs to the caller, who may pass *)
(* it with many calls, and the environment's proxies are written into it.  *)
(* ProxyRules states the same computation as one operator; the module says *)
(* when the threads compute that operator.                                 *)
(*                                                                         *)
(* overlapped, disturbed and stale are history variables.                  *)
(*                                                                         *)
(* A definition named D_Variant is D as a plausible mistake would have it; *)
(* nothing uses it.                                                        *)
(***************************************************************************)
EXTENDS ProxyRules

CONSTANTS
    Threads,
    Dicts,        \* the proxies dicts of the callers
    Given,        \* Given[d]: what its owner put into dict d
    NoProxyOf,    \* NoProxyOf[d]: the hosts of its 'no_proxy' key, or None
    LowerNoProxy, \* the hosts of no_proxy in the environment, or None
    UpperNoProxy, \* the hosts of NO_PROXY in the environment
    MaxCalls      \* bound: the calls a thread makes

\* A no_proxy value is the set of hosts it matches; the empty string is {}.
NoProxyValues == (SUBSET Hosts) \cup {None}

\* os.environ.get('no_proxy') or os.environ.get('NO_PROXY')
GetNoProxy(value) == IF value \in {None, {}} THEN UpperNoProxy ELSE value

ASSUME EnvironAssumption ==
    /\ Given \in [Dicts -> GivenTables]
    /\ NoProxyOf \in [Dicts -> NoProxyValues]
    /\ LowerNoProxy \in NoProxyValues
    /\ UpperNoProxy \in SUBSET Hosts
    /\ NoProxy = GetNoProxy(LowerNoProxy)
    /\ TrustEnv
    /\ \A d \in Dicts : NoProxyOf[d] # None \/ Given[d] # NoProxies  \* not empty
    /\ MaxCalls \in Nat
    /\ None \notin Dicts

VARIABLES
    environ,     \* os.environ.get('no_proxy')
    tables,      \* tables[d]: the proxies dict d
    pc,          \* what a thread does next
    call,        \* its call: the dict (None: none was given) and the host
    old,         \* old_value of set_environ
    bypass,      \* "yes", "no", or "raised" or "KeyError" when it raised
    result,      \* the proxies it got last, or None when the call raised
    left,        \* the calls it has left
    overlapped,  \* history: two calls were inside set_environ at once
    disturbed,   \* history: another call was inside during this one
    stale        \* history: the dict had been written to by a call before

vars == <<environ, tables, pc, call, old, bypass, result, left,
          overlapped, disturbed, stale>>

CallSpace == [dict : Dicts \cup {None}, host : Hosts]

\* no_proxy_arg of the call, and what the caller's dict said at the start;
\* 'proxies or {}' makes a dict of its own for a call without one.
Argument(t) == IF call[t].dict = None THEN None ELSE NoProxyOf[call[t].dict]
Original(t) == IF call[t].dict = None THEN NoProxies ELSE Given[call[t].dict]

\* Between saving and restoring the variable.
Inside(t) == pc[t] \in {"set", "ask", "restore"} /\ Argument(t) # None

Init ==
    /\ environ = LowerNoProxy
    /\ tables = Given
    /\ pc = [t \in Threads |-> "idle"]
    /\ call \in [Threads -> {[dict |-> None, host |-> h] : h \in Hosts}]
    /\ old = [t \in Threads |-> None]
    /\ bypass = [t \in Threads |-> "no"]
    /\ result = [t \in Threads |-> None]
    /\ left = [t \in Threads |-> MaxCalls]
    /\ overlapped = FALSE
    /\ disturbed = [t \in Threads |-> FALSE]
    /\ stale = [t \in Threads |-> FALSE]

Goto(t, label) == pc' = [pc EXCEPT ![t] = label]

\* merge_environment_settings is called.
Begin(t, c) ==
    /\ pc[t] = "idle"
    /\ left[t] > 0
    /\ Goto(t, "look")
    /\ call' = [call EXCEPT ![t] = c]
    /\ old' = [old EXCEPT ![t] = None]
    /\ bypass' = [bypass EXCEPT ![t] = "no"]
    /\ left' = [left EXCEPT ![t] = @ - 1]
    /\ result' = [result EXCEPT ![t] = None]
    /\ disturbed' = [disturbed EXCEPT ![t] = \E u \in Threads \ {t} : Inside(u)]
    /\ stale' = [stale EXCEPT ![t] = FALSE]
    /\ UNCHANGED <<environ, tables, overlapped>>

\* Mutant: the environment's list is asked as well when one is given.
Look_AddsEnvironment(t) ==
    /\ pc[t] = "look"
    /\ LET noProxy == GetNoProxy(environ) \cup
                      (IF Argument(t) = None THEN {} ELSE Argument(t))
       IN  IF call[t].host \in noProxy
           THEN Goto(t, "merge") /\ bypass' = [bypass EXCEPT ![t] = "yes"]
           ELSE /\ Goto(t, IF Argument(t) = None THEN "ask" ELSE "save")
                /\ UNCHANGED bypass
    /\ UNCHANGED <<environ, tables, call, old, result, left, overlapped,
                   disturbed, stale>>

\* should_bypass_proxies: the argument, or else the environment, is matched.
Look(t) ==
    /\ pc[t] = "look"
    /\ LET noProxy == IF Argument(t) # None THEN Argument(t) ELSE GetNoProxy(environ)
       IN  IF call[t].host \in noProxy
           THEN Goto(t, "merge") /\ bypass' = [bypass EXCEPT ![t] = "yes"]
           ELSE /\ Goto(t, IF Argument(t) = None THEN "ask" ELSE "save")
                /\ UNCHANGED bypass
    /\ UNCHANGED <<environ, tables, call, old, result, left, overlapped,
                   disturbed, stale>>

\* set_environ: old_value = os.environ.get(env_name).
Save(t) ==
    /\ pc[t] = "save"
    /\ Goto(t, "set")
    /\ old' = [old EXCEPT ![t] = environ]
    /\ LET others == {u \in Threads \ {t} : Inside(u)}
       IN  /\ overlapped' = (overlapped \/ others # {})
           /\ disturbed' = [u \in Threads |->
                  disturbed[u] \/ IF u = t THEN others # {} ELSE TRUE]
    /\ UNCHANGED <<environ, tables, call, bypass, result, left, stale>>

\* set_environ: os.environ[env_name] = value.
SetEnviron(t) ==
    /\ pc[t] = "set"
    /\ environ' = Argument(t)
    /\ Goto(t, "ask")
    /\ UNCHANGED <<tables, call, old, bypass, result, left, overlapped,
                   disturbed, stale>>

\* urllib's proxy_bypass: the lower-case variable hides the other.
ProxyBypass(value, host) ==
    host \in IF value = None THEN UpperNoProxy ELSE value

\* proxy_bypass answers, raises TypeError or gaierror (which counts as no), or
\* raises something else.
Ask(t) ==
    /\ pc[t] = "ask"
    /\ \E answer \in {IF ProxyBypass(environ, call[t].host) THEN "yes" ELSE "no",
                      "no", "raised"} :
          bypass' = [bypass EXCEPT ![t] = answer]
    /\ Goto(t, "restore")
    /\ UNCHANGED <<environ, tables, call, old, result, left, overlapped,
                   disturbed, stale>>

\* Mutant: nothing is restored after an exception.
Restore_OnSuccess(t) ==
    /\ pc[t] = "restore"
    /\ IF Argument(t) # None /\ bypass[t] # "raised" THEN environ' = old[t]
                                                      ELSE UNCHANGED environ
    /\ Goto(t, IF bypass[t] = "raised" THEN "idle" ELSE "merge")
    /\ UNCHANGED <<tables, call, old, bypass, result, left, overlapped,
                   disturbed, stale>>

\* The finally clause of set_environ; deleting a variable that another call
\* has deleted is a KeyError.
Restore(t) ==
    /\ pc[t] = "restore"
    /\ LET lost == Argument(t) # None /\ old[t] = None /\ environ = None
       IN  /\ environ' = IF Argument(t) # None THEN old[t] ELSE environ
           /\ bypass' = IF lost THEN [bypass EXCEPT ![t] = "KeyError"] ELSE bypass
           /\ Goto(t, IF lost \/ bypass[t] = "raised" THEN "idle" ELSE "merge")
    /\ UNCHANGED <<tables, call, old, result, left, overlapped, disturbed, stale>>

\* Mutant: the environment's proxies are added for a bypassed host as well.
Merge_IgnoresBypass(t) ==
    /\ pc[t] = "merge"
    /\ LET seen   == IF call[t].dict = None THEN NoProxies ELSE tables[call[t].dict]
           filled == SetDefaults(seen, EnvProxies)
       IN  /\ tables' = [d \in Dicts |-> IF d = call[t].dict THEN filled ELSE tables[d]]
           /\ result' = [result EXCEPT ![t] = MergeSetting(filled)]
           /\ stale' = [stale EXCEPT ![t] = seen # Original(t)]
    /\ Goto(t, "idle")
    /\ UNCHANGED <<environ, call, old, bypass, left, overlapped, disturbed>>

\* get_environ_proxies returns; its proxies are written into the caller's dict
\* and the session's are merged in.  (Writing to a shared dict and reading it
\* back is one step: another call writes the same environment's values.)
Merge(t) ==
    /\ pc[t] = "merge"
    /\ LET seen   == IF call[t].dict = None THEN NoProxies ELSE tables[call[t].dict]
           filled == SetDefaults(seen, IF bypass[t] = "yes" THEN NoProxies
                                                            ELSE EnvProxies)
       IN  /\ tables' = [d \in Dicts |-> IF d = call[t].dict THEN filled ELSE tables[d]]
           /\ result' = [result EXCEPT ![t] = MergeSetting(filled)]
           /\ stale' = [stale EXCEPT ![t] = seen # Original(t)]
    /\ Goto(t, "idle")
    /\ UNCHANGED <<environ, call, old, bypass, left, overlapped, disturbed>>

Next ==
    \/ \E t \in Threads :
          \/ \E c \in CallSpace : Begin(t, c)
          \/ Look(t) \/ Save(t) \/ SetEnviron(t) \/ Ask(t) \/ Restore(t)
          \/ Merge(t)

Spec == Init /\ [][Next]_vars

-----------------------------------------------------------------------------
(* Properties.                                                             *)

\* Type invariant: the shared state and the locals of every thread.
TypeOK ==
    /\ environ \in NoProxyValues
    /\ tables \in [Dicts -> GivenTables]
    /\ pc \in [Threads -> {"idle", "look", "save", "set", "ask", "restore", "merge"}]
    /\ call \in [Threads -> CallSpace]
    /\ old \in [Threads -> NoProxyValues]
    /\ bypass \in [Threads -> {"yes", "no", "raised", "KeyError"}]
    /\ result \in [Threads -> ProxyTables \cup {None}]
    /\ left \in [Threads -> 0..MaxCalls]
    /\ overlapped \in BOOLEAN
    /\ disturbed \in [Threads -> BOOLEAN]
    /\ stale \in [Threads -> BOOLEAN]

\* set_environ leaves nothing behind: when no call is inside, the environment
\* is as it was, also after an exception, and no call fails over a variable
\* that is gone, unless two calls with a list of their own were inside at once.
NothingLeftBehind ==
    ~overlapped =>
        /\ (\A t \in Threads : ~Inside(t)) => environ = LowerNoProxy
        /\ \A t \in Threads : bypass[t] # "KeyError"

Answered(t) == pc[t] = "idle" /\ result[t] # None

\* A call that no other call came across gets what MergeEnvironmentSettings
\* says: the threads implement the operator that the redirect chain is built
\* on.  A no_proxy list that is given replaces the environment's.
AsIfAlone ==
    \A t \in Threads :
        Answered(t) /\ ~overlapped /\ ~disturbed[t] /\ ~stale[t] =>
            result[t] = MergeEnvironmentSettings(call[t].host, Original(t), Argument(t))

\* Whatever other threads do to the environment, a host in the list that a
\* call brings along gets no proxy from it (the list is matched before the
\* environment is touched), provided the dict is as its owner made it.
ArgumentProtects ==
    \A t \in Threads :
        Answered(t) /\ Argument(t) # None /\ call[t].host \in Argument(t) /\ ~stale[t] =>
            result[t] = MergeSetting(Original(t))

\* Under every interleaving and however often the dict is used again, a key
\* that its owner put there decides, and one set to None means no proxy.
OwnersChoiceKept ==
    \A t \in Threads : Answered(t) =>
        \A k \in ProxyKeys : Original(t)[k] # None =>
            result[t][k] = (IF Original(t)[k] = Off THEN None ELSE Original(t)[k])
=============================================================================
