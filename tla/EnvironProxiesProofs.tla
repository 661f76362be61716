------------------------ MODULE EnvironProxiesProofs ------------------------
(***************************************************************************)
(* What holds of EnvironProxies for any number of threads, dicts and       *)
(* calls.  The types and the owners' entries are inductive by themselves.  *)
(* What a call leaves behind needs to know who is inside set_environ and   *)
(* what was saved there (EnvironInv), and what a call gets needs in        *)
(* addition what a thread has found out so far (AnswerInv).  The networks  *)
(* of no_proxy are addresses of any width, as sets of bits.                *)
(***************************************************************************)
EXTENDS NoProxyHosts, SequenceFolds

USE EnvironAssumption, ProxyAssumption

-----------------------------------------------------------------------------
(* Lemmas about the operators of ProxyRules.                               *)

LEMMA NoProxiesType == NoProxies \in ProxyTables
  BY DEF NoProxies, ProxyTables

LEMMA ProxyTablesAreGiven == ProxyTables \subseteq GivenTables
  BY DEF ProxyTables, GivenTables

LEMMA SetDefaultsType ==
  ASSUME NEW table \in GivenTables, NEW added \in GivenTables
  PROVE  SetDefaults(table, added) \in GivenTables
  BY DEF SetDefaults, GivenTables

\* merge_setting removes every Off, so what is sent on is a plain table.
LEMMA MergeSettingType ==
  ASSUME NEW given \in GivenTables
  PROVE  MergeSetting(given) \in ProxyTables
  <1>1. SetDefaults(given, SessionProxies) \in GivenTables
    BY SetDefaultsType
  <1>. QED  BY <1>1 DEF MergeSetting, GivenTables, ProxyTables

\* A key that the given dict has decides.
LEMMA MergeSettingKeeps ==
  ASSUME NEW given \in GivenTables, NEW k \in ProxyKeys, given[k] # None
  PROVE  MergeSetting(given)[k] = IF given[k] = Off THEN None ELSE given[k]
  BY DEF MergeSetting, SetDefaults

LEMMA SetDefaultsNothing ==
  ASSUME NEW table \in GivenTables
  PROVE  SetDefaults(table, NoProxies) = table
  BY DEF SetDefaults, NoProxies, GivenTables

LEMMA OriginalType ==
  ASSUME TypeOK, NEW t \in Threads
  PROVE  Original(t) \in GivenTables
  BY NoProxiesType, ProxyTablesAreGiven DEF Original, TypeOK, CallSpace

LEMMA ArgumentType ==
  ASSUME TypeOK, NEW t \in Threads
  PROVE  Argument(t) \in NoProxyValues
  <1>1. None \in NoProxyValues
    BY DEF NoProxyValues
  <1>2. call[t].dict \in Dicts \cup {None}
    BY DEF TypeOK, CallSpace
  <1>. QED  BY <1>1, <1>2 DEF Argument

-----------------------------------------------------------------------------
(* Types.                                                                  *)

LEMMA InitTypes == Init => TypeOK
  <1> SUFFICES ASSUME Init PROVE TypeOK
    OBVIOUS
  <1>1. call \in [Threads -> CallSpace]
    BY DEF Init, CallSpace
  <1>2. None \in NoProxyValues
    BY DEF NoProxyValues
  <1>3. /\ pc \in [Threads -> {"idle", "look", "save", "set", "ask", "restore", "merge"}]
        /\ bypass \in [Threads -> {"yes", "no", "raised", "KeyError"}]
    BY DEF Init
  <1>4. /\ old \in [Threads -> NoProxyValues]
        /\ result \in [Threads -> ProxyTables \cup {None}]
        /\ left \in [Threads -> 0..MaxCalls]
    BY <1>2 DEF Init
  <1>5. /\ environ \in NoProxyValues
        /\ tables \in [Dicts -> GivenTables]
        /\ overlapped \in BOOLEAN
        /\ disturbed \in [Threads -> BOOLEAN]
        /\ stale \in [Threads -> BOOLEAN]
    BY DEF Init
  <1>. QED  BY <1>1, <1>3, <1>4, <1>5 DEF TypeOK

\* What Merge writes: the dict and the result.
LEMMA MergeTypes ==
  ASSUME TypeOK, NEW t \in Threads, Merge(t)
  PROVE  tables' \in [Dicts -> GivenTables] /\ result' \in [Threads -> ProxyTables \cup {None}]
  <1> DEFINE seen   == IF call[t].dict = None THEN NoProxies ELSE tables[call[t].dict]
             added  == IF bypass[t] = "yes" THEN NoProxies ELSE EnvProxies
             filled == SetDefaults(seen, added)
  <1>1. seen \in GivenTables
    BY NoProxiesType, ProxyTablesAreGiven DEF TypeOK, CallSpace
  <1>2. added \in GivenTables
    BY NoProxiesType, ProxyTablesAreGiven
  <1>3. filled \in GivenTables
    BY <1>1, <1>2, SetDefaultsType
  <1>4. MergeSetting(filled) \in ProxyTables
    BY <1>3, MergeSettingType
  <1>. HIDE DEF filled
  <1>5. /\ tables' = [d \in Dicts |-> IF d = call[t].dict THEN filled ELSE tables[d]]
        /\ result' = [result EXCEPT ![t] = MergeSetting(filled)]
    BY DEF Merge, filled
  <1>. QED  BY <1>3, <1>4, <1>5 DEF TypeOK

LEMMA StepTypes == TypeOK /\ [Next]_vars => TypeOK'
  <1> SUFFICES ASSUME TypeOK, [Next]_vars PROVE TypeOK'
    OBVIOUS
  <1>1. ASSUME NEW t \in Threads, NEW c \in CallSpace, Begin(t, c) PROVE TypeOK'
    <2>1. None \in NoProxyValues
      BY DEF NoProxyValues
    <2>2. left' \in [Threads -> 0..MaxCalls]
      BY <1>1 DEF TypeOK, Begin
    <2>. QED  BY <1>1, <2>1, <2>2 DEF TypeOK, Begin, Goto
  <1>2. ASSUME NEW t \in Threads, Look(t) PROVE TypeOK'
    BY <1>2 DEF TypeOK, Look, Goto
  <1>3. ASSUME NEW t \in Threads, Save(t) PROVE TypeOK'
    BY <1>3 DEF TypeOK, Save, Goto
  <1>4. ASSUME NEW t \in Threads, SetEnviron(t) PROVE TypeOK'
    BY <1>4, ArgumentType DEF TypeOK, SetEnviron, Goto
  <1>5. ASSUME NEW t \in Threads, Ask(t) PROVE TypeOK'
    BY <1>5 DEF TypeOK, Ask, Goto
  <1>6. ASSUME NEW t \in Threads, Restore(t) PROVE TypeOK'
    BY <1>6 DEF TypeOK, Restore, Goto
  <1>7. ASSUME NEW t \in Threads, Merge(t) PROVE TypeOK'
    BY <1>7, MergeTypes DEF TypeOK, Merge, Goto
  <1>8. CASE UNCHANGED vars
    BY <1>8 DEF TypeOK, vars
  <1>. QED  BY <1>1, <1>2, <1>3, <1>4, <1>5, <1>6, <1>7, <1>8 DEF Next

\* The environment, the dicts and the locals of every thread keep their types,
\* for any threads and dicts (merge_environment_settings, set_environ).
THEOREM TypeCorrect == Spec => []TypeOK
  BY InitTypes, StepTypes, PTL DEF Spec

-----------------------------------------------------------------------------
(* The entries an owner put into a dict.                                   *)

\* No step overwrites an entry that was there from the start.
EntriesKept ==
    \A d \in Dicts, k \in ProxyKeys :
        Given[d][k] # None => tables[d][k] = Given[d][k]

\* A call that has not come to its end has no result yet.
NoResultYet == \A t \in Threads : pc[t] # "idle" => result[t] = None

OwnersInv == EntriesKept /\ NoResultYet /\ OwnersChoiceKept

\* Filling in defaults keeps what is there, and merge_setting passes it on.
LEMMA MergeKeepsEntries ==
  ASSUME TypeOK, OwnersInv, NEW t \in Threads, Merge(t)
  PROVE  OwnersInv'
  <1> DEFINE seen   == IF call[t].dict = None THEN NoProxies ELSE tables[call[t].dict]
             added  == IF bypass[t] = "yes" THEN NoProxies ELSE EnvProxies
             filled == SetDefaults(seen, added)
  <1>1. seen \in GivenTables /\ added \in GivenTables
    BY NoProxiesType, ProxyTablesAreGiven DEF TypeOK, CallSpace
  <1>2. filled \in GivenTables
    BY <1>1, SetDefaultsType
  <1>3. ASSUME NEW k \in ProxyKeys, seen[k] # None PROVE filled[k] = seen[k]
    BY <1>3 DEF SetDefaults
  <1>4. ASSUME NEW k \in ProxyKeys, Original(t)[k] # None
        PROVE  seen[k] = Original(t)[k]
    BY <1>4 DEF Original, OwnersInv, EntriesKept, NoProxies, TypeOK, CallSpace
  <1>5. ASSUME NEW k \in ProxyKeys, Original(t)[k] # None
        PROVE  MergeSetting(filled)[k] = IF Original(t)[k] = Off THEN None ELSE Original(t)[k]
    BY <1>2, <1>3, <1>4, <1>5, MergeSettingKeeps
  <1>6. /\ tables' = [d \in Dicts |-> IF d = call[t].dict THEN filled ELSE tables[d]]
        /\ result' = [result EXCEPT ![t] = MergeSetting(filled)]
        /\ call' = call
        /\ pc' = [pc EXCEPT ![t] = "idle"]
    BY DEF Merge, Goto
  <1>7. EntriesKept'
    <2> SUFFICES ASSUME NEW d \in Dicts, NEW k \in ProxyKeys, Given[d][k] # None
                 PROVE  tables'[d][k] = Given[d][k]
      BY DEF EntriesKept
    <2>1. tables[d][k] = Given[d][k]
      BY DEF OwnersInv, EntriesKept
    <2>2. CASE d = call[t].dict
      <3>1. seen[k] = Given[d][k]
        BY <2>1, <2>2
      <3>2. filled[k] = Given[d][k]
        BY <1>3, <3>1
      <3>. QED  BY <1>6, <2>2, <3>2
    <2>3. CASE d # call[t].dict
      BY <1>6, <2>1, <2>3
    <2>. QED  BY <2>2, <2>3
  <1>8. OwnersChoiceKept'
    <2> SUFFICES ASSUME NEW u \in Threads, Answered(u)', NEW k \in ProxyKeys,
                        Original(u)[k] # None
                 PROVE  result'[u][k] = IF Original(u)[k] = Off THEN None ELSE Original(u)[k]
      BY <1>6 DEF OwnersChoiceKept, Original
    <2>1. CASE u = t
      BY <1>5, <1>6, <2>1 DEF TypeOK
    <2>2. CASE u # t
      BY <1>6, <2>2 DEF OwnersInv, OwnersChoiceKept, Answered, TypeOK
    <2>. QED  BY <2>1, <2>2
  <1>9. NoResultYet'
    BY <1>6 DEF NoResultYet, OwnersInv, TypeOK
  <1>. QED  BY <1>7, <1>8, <1>9 DEF OwnersInv

LEMMA OwnersStep == TypeOK /\ OwnersInv /\ [Next]_vars => OwnersInv'
  <1> SUFFICES ASSUME TypeOK, OwnersInv, [Next]_vars PROVE OwnersInv'
    OBVIOUS
  <1> USE DEF OwnersInv, EntriesKept, NoResultYet, OwnersChoiceKept, Answered, Original
  <1>1. ASSUME NEW t \in Threads, NEW c \in CallSpace, Begin(t, c) PROVE OwnersInv'
    BY <1>1 DEF TypeOK, Begin, Goto
  <1>2. ASSUME NEW t \in Threads,
               Look(t) \/ Save(t) \/ SetEnviron(t) \/ Ask(t)
        PROVE  OwnersInv'
    BY <1>2 DEF TypeOK, Look, Save, SetEnviron, Ask, Goto
  <1>3. ASSUME NEW t \in Threads, Restore(t) PROVE OwnersInv'
    BY <1>3 DEF TypeOK, Restore, Goto
  <1>4. ASSUME NEW t \in Threads, Merge(t) PROVE OwnersInv'
    BY <1>4, MergeKeepsEntries
  <1>5. CASE UNCHANGED vars
    BY <1>5 DEF vars
  <1>. QED  BY <1>1, <1>2, <1>3, <1>4, <1>5 DEF Next

\* Under every interleaving, what the owner of a dict put there decides, and a
\* key set to None gives no proxy (merge_environment_settings, merge_setting).
THEOREM OwnersDecide == Spec => []OwnersChoiceKept
  <1>1. Init => OwnersInv
    BY DEF Init, OwnersInv, EntriesKept, NoResultYet, OwnersChoiceKept, Answered
  <1>2. OwnersInv => OwnersChoiceKept
    BY DEF OwnersInv
  <1>. QED  BY <1>1, <1>2, TypeCorrect, OwnersStep, PTL DEF Spec

-----------------------------------------------------------------------------
(* The environment.                                                        *)

\* Only a call with a list of its own gets as far as saving the variable.
OwnListOnly == \A t \in Threads : pc[t] \in {"save", "set"} => Argument(t) # None

\* As long as no two calls were inside set_environ at once: at most one is,
\* it saved the value from before, and the variable is that value until it
\* has been set, and its own list from then on.
OneInside ==
    \A t, u \in Threads : Inside(t) /\ Inside(u) => t = u

Holder(t) ==
    /\ old[t] = LowerNoProxy
    /\ environ = IF pc[t] = "set" THEN LowerNoProxy ELSE Argument(t)

NobodyInside == \A t \in Threads : ~Inside(t)

EnvironInv ==
    /\ OwnListOnly
    /\ ~overlapped =>
          /\ OneInside
          /\ \A t \in Threads : Inside(t) => Holder(t)
          /\ NobodyInside => environ = LowerNoProxy
          /\ \A t \in Threads : bypass[t] # "KeyError"

\* Nothing that EnvironInv is about changes, except that thread t moves on
\* outside set_environ.
LEMMA MovesOutside ==
  ASSUME TypeOK, EnvironInv, NEW t \in Threads, ~Inside(t), ~Inside(t)', OwnListOnly',
         environ' = environ, overlapped' = overlapped,
         \A u \in Threads \ {t} : pc'[u] = pc[u] /\ call'[u] = call[u] /\ old'[u] = old[u],
         ~overlapped => \A u \in Threads : bypass'[u] # "KeyError"
  PROVE  EnvironInv'
  <1> SUFFICES ASSUME ~overlapped
               PROVE  /\ OneInside'
                      /\ \A u \in Threads : Inside(u)' => Holder(u)'
                      /\ NobodyInside' => environ' = LowerNoProxy
    BY DEF EnvironInv
  <1>1. ASSUME NEW u \in Threads, u # t
        PROVE  Inside(u)' = Inside(u) /\ Holder(u)' = Holder(u)
    BY <1>1 DEF Inside, Argument, Holder
  <1>. QED  BY <1>1 DEF EnvironInv, OneInside, NobodyInside

LEMMA SaveEnviron ==
  ASSUME TypeOK, EnvironInv, NEW t \in Threads, Save(t)
  PROVE  EnvironInv'
  <1>1. /\ pc' = [pc EXCEPT ![t] = "set"] /\ old' = [old EXCEPT ![t] = environ]
        /\ call' = call /\ environ' = environ /\ bypass' = bypass /\ pc[t] = "save"
        /\ overlapped' = (overlapped \/ {u \in Threads \ {t} : Inside(u)} # {})
    BY DEF Save, Goto
  <1>2. OwnListOnly'
    BY <1>1 DEF EnvironInv, OwnListOnly, Argument, TypeOK
  <1>3. ASSUME ~overlapped'
        PROVE  /\ OneInside'
               /\ \A u \in Threads : Inside(u)' => Holder(u)'
               /\ NobodyInside' => environ' = LowerNoProxy
               /\ \A u \in Threads : bypass'[u] # "KeyError"
    <2>1. ~overlapped /\ NobodyInside
      BY <1>1, <1>3 DEF NobodyInside, Inside
    <2>2. environ = LowerNoProxy
      BY <2>1 DEF EnvironInv
    <2>3. \A u \in Threads \ {t} : ~Inside(u)'
      BY <1>1, <2>1 DEF NobodyInside, Inside, Argument, TypeOK
    <2>4. Holder(t)'
      BY <1>1, <2>2 DEF Holder, TypeOK
    <2>. QED  BY <1>1, <2>1, <2>2, <2>3, <2>4 DEF OneInside, NobodyInside, EnvironInv
  <1>. QED  BY <1>2, <1>3 DEF EnvironInv

LEMMA SetsEnviron ==
  ASSUME TypeOK, EnvironInv, NEW t \in Threads, SetEnviron(t)
  PROVE  EnvironInv'
  <1>1. /\ pc' = [pc EXCEPT ![t] = "ask"] /\ environ' = Argument(t) /\ pc[t] = "set"
        /\ UNCHANGED <<call, old, bypass, overlapped>>
    BY DEF SetEnviron, Goto
  <1>2. \A u \in Threads : Argument(u)' = Argument(u) /\ Inside(u)' = Inside(u)
    BY <1>1 DEF Inside, Argument, TypeOK
  <1>3. OwnListOnly' /\ Inside(t)
    BY <1>1, <1>2 DEF EnvironInv, OwnListOnly, TypeOK, Inside
  <1>4. ASSUME ~overlapped PROVE \A u \in Threads : Inside(u)' => Holder(u)'
    BY <1>1, <1>2, <1>3, <1>4 DEF EnvironInv, OneInside, Holder, TypeOK
  <1>. QED  BY <1>1, <1>2, <1>3, <1>4 DEF EnvironInv, OneInside, NobodyInside

LEMMA Asks ==
  ASSUME TypeOK, EnvironInv, NEW t \in Threads, Ask(t)
  PROVE  EnvironInv'
  <1>1. /\ pc' = [pc EXCEPT ![t] = "restore"] /\ pc[t] = "ask"
        /\ UNCHANGED <<environ, call, old, overlapped>>
    BY DEF Ask, Goto
  <1>2. \A u \in Threads : bypass'[u] = "KeyError" => bypass[u] = "KeyError"
    BY DEF Ask, TypeOK
  <1>3. \A u \in Threads : Argument(u)' = Argument(u) /\ Inside(u)' = Inside(u)
    BY <1>1 DEF Inside, Argument, TypeOK
  <1>4. OwnListOnly'
    BY <1>1, <1>3 DEF EnvironInv, OwnListOnly, TypeOK
  <1>5. \A u \in Threads : Holder(u) => Holder(u)'
    BY <1>1, <1>3 DEF Holder, TypeOK
  <1>. QED  BY <1>1, <1>2, <1>3, <1>4, <1>5 DEF EnvironInv, OneInside, NobodyInside

LEMMA RestoresEnviron ==
  ASSUME TypeOK, EnvironInv, NEW t \in Threads, Restore(t)
  PROVE  EnvironInv'
  <1> DEFINE lost == Argument(t) # None /\ old[t] = None /\ environ = None
  <1>1. /\ \E l \in {"idle", "merge"} : pc' = [pc EXCEPT ![t] = l]
        /\ pc[t] = "restore"
        /\ environ' = IF Argument(t) # None THEN old[t] ELSE environ
        /\ bypass' = IF lost THEN [bypass EXCEPT ![t] = "KeyError"] ELSE bypass
        /\ UNCHANGED <<call, old, overlapped>>
    BY DEF Restore, Goto
  <1>2. \A u \in Threads : Argument(u)' = Argument(u)
    BY <1>1 DEF Argument
  <1>3. OwnListOnly' /\ ~Inside(t)'
    BY <1>1, <1>2 DEF EnvironInv, OwnListOnly, Inside, TypeOK
  <1>4. CASE Argument(t) = None
    BY <1>1, <1>3, <1>4, MovesOutside DEF Inside, EnvironInv
  <1>5. CASE Argument(t) # None
    <2>1. Inside(t)
      BY <1>1, <1>5 DEF Inside
    <2>2. \A u \in Threads \ {t} : Inside(u)' = Inside(u)
      BY <1>1, <1>2 DEF Inside, TypeOK
    <2> SUFFICES ASSUME ~overlapped
                 PROVE  /\ OneInside'
                        /\ \A u \in Threads : Inside(u)' => Holder(u)'
                        /\ NobodyInside' => environ' = LowerNoProxy
                        /\ \A u \in Threads : bypass'[u] # "KeyError"
      BY <1>1, <1>3 DEF EnvironInv
    <2>3. OneInside /\ Holder(t)
      BY <2>1 DEF EnvironInv
    <2>4. \A u \in Threads : ~Inside(u)'
      BY <1>3, <2>1, <2>2, <2>3 DEF OneInside
    <2>5. ~lost
      BY <1>1, <1>5, <2>3 DEF Holder
    <2>. QED  BY <1>1, <1>5, <2>3, <2>4, <2>5 DEF OneInside, NobodyInside, Holder, EnvironInv
  <1>. QED  BY <1>4, <1>5

LEMMA EnvironStep == TypeOK /\ EnvironInv /\ [Next]_vars => EnvironInv'
  <1> SUFFICES ASSUME TypeOK, EnvironInv, [Next]_vars PROVE EnvironInv'
    OBVIOUS
  <1>1. ASSUME NEW t \in Threads, NEW c \in CallSpace, Begin(t, c) PROVE EnvironInv'
    <2>1. /\ pc[t] = "idle" /\ pc' = [pc EXCEPT ![t] = "look"]
          /\ call' = [call EXCEPT ![t] = c] /\ old' = [old EXCEPT ![t] = None]
          /\ bypass' = [bypass EXCEPT ![t] = "no"]
          /\ UNCHANGED <<environ, overlapped>>
      BY <1>1 DEF Begin, Goto
    <2>2. OwnListOnly'
      BY <2>1 DEF EnvironInv, OwnListOnly, Argument, TypeOK
    <2>3. ~Inside(t) /\ ~Inside(t)'
      BY <2>1 DEF Inside, TypeOK
    <2>4. ~overlapped => \A u \in Threads : bypass'[u] # "KeyError"
      BY <2>1 DEF EnvironInv, TypeOK
    <2>. QED  BY <2>1, <2>2, <2>3, <2>4, MovesOutside DEF TypeOK
  <1>2. ASSUME NEW t \in Threads, Look(t) PROVE EnvironInv'
    <2>1. /\ pc[t] = "look"
          /\ \/ pc' = [pc EXCEPT ![t] = "merge"] /\ bypass' = [bypass EXCEPT ![t] = "yes"]
             \/ pc' = [pc EXCEPT ![t] = "ask"] /\ Argument(t) = None /\ bypass' = bypass
             \/ pc' = [pc EXCEPT ![t] = "save"] /\ Argument(t) # None /\ bypass' = bypass
          /\ UNCHANGED <<environ, call, old, overlapped>>
      BY <1>2 DEF Look, Goto
    <2>2. \A u \in Threads : Argument(u)' = Argument(u)
      BY <2>1 DEF Argument
    <2>3. OwnListOnly'
      BY <2>1, <2>2 DEF EnvironInv, OwnListOnly, TypeOK
    <2>4. ~Inside(t) /\ ~Inside(t)'
      BY <2>1, <2>2 DEF Inside, TypeOK
    <2>5. ~overlapped => \A u \in Threads : bypass'[u] # "KeyError"
      BY <2>1 DEF EnvironInv, TypeOK
    <2>. QED  BY <2>1, <2>3, <2>4, <2>5, MovesOutside DEF TypeOK
  <1>3. ASSUME NEW t \in Threads, Merge(t) PROVE EnvironInv'
    <2>1. /\ pc[t] = "merge" /\ pc' = [pc EXCEPT ![t] = "idle"]
          /\ UNCHANGED <<environ, call, old, bypass, overlapped>>
      BY <1>3 DEF Merge, Goto
    <2>2. OwnListOnly'
      BY <2>1 DEF EnvironInv, OwnListOnly, Argument, TypeOK
    <2>3. ~Inside(t) /\ ~Inside(t)'
      BY <2>1 DEF Inside, TypeOK
    <2>. QED  BY <2>1, <2>2, <2>3, MovesOutside DEF TypeOK, EnvironInv
  <1>4. CASE UNCHANGED vars
    BY <1>4 DEF vars, EnvironInv, OwnListOnly, OneInside, NobodyInside, Holder, Inside, Argument
  <1>. QED
    BY <1>1, <1>2, <1>3, <1>4, SaveEnviron, SetsEnviron, Asks, RestoresEnviron DEF Next

\* set_environ leaves the environment as it was, also after an exception, and
\* no call fails over a variable that is gone, for any number of threads, as
\* long as no two of them were inside it at once with lists of their own.
THEOREM NothingStays == Spec => []NothingLeftBehind
  <1>1. Init => EnvironInv
    BY DEF Init, EnvironInv, OwnListOnly, OneInside, NobodyInside, Inside
  <1>2. EnvironInv => NothingLeftBehind
    BY DEF EnvironInv, NothingLeftBehind, NobodyInside
  <1>. QED  BY <1>1, <1>2, TypeCorrect, EnvironStep, PTL DEF Spec

-----------------------------------------------------------------------------
(* What a call gets.                                                       *)

ToBypass(t) == ShouldBypass(call[t].host, Argument(t))

\* A call that is under way and was not disturbed is the only one inside.
Undisturbed ==
    \A t \in Threads : pc[t] # "idle" /\ ~disturbed[t] =>
        \A u \in Threads \ {t} : ~Inside(u)

\* What an undisturbed call has found out agrees with should_bypass_proxies
\* as one operator.
Found(t) ==
    /\ pc[t] \in {"save", "set", "ask"} => ~ToBypass(t)
    /\ pc[t] = "restore" => ~ToBypass(t) /\ bypass[t] # "yes"
    /\ pc[t] = "merge" => (bypass[t] = "yes" <=> ToBypass(t))

\* A host in the list that came with the call is found there at once.
Protected(t) == Argument(t) # None /\ call[t].host \in Argument(t)

FoundAtOnce(t) ==
    /\ pc[t] \in {"idle", "look", "merge"}
    /\ pc[t] = "merge" => bypass[t] = "yes"

Right(t) == result[t] = MergeEnvironmentSettings(call[t].host, Original(t), Argument(t))

AnswerInv ==
    /\ NoResultYet
    /\ Undisturbed
    /\ \A t \in Threads : ~overlapped /\ ~disturbed[t] => Found(t)
    /\ \A t \in Threads : Protected(t) => FoundAtOnce(t)
    /\ AsIfAlone
    /\ ArgumentProtects

\* The parts of AnswerInv that belong to one thread.
Mine(t) ==
    /\ pc[t] # "idle" => result[t] = None
    /\ ~overlapped /\ ~disturbed[t] => Found(t)
    /\ Protected(t) => FoundAtOnce(t)
    /\ Answered(t) /\ ~overlapped /\ ~disturbed[t] /\ ~stale[t] => Right(t)
    /\ Answered(t) /\ Protected(t) /\ ~stale[t] => result[t] = MergeSetting(Original(t))

LEMMA AnswerParts == AnswerInv <=> Undisturbed /\ \A t \in Threads : Mine(t)
  BY DEF AnswerInv, Mine, NoResultYet, AsIfAlone, ArgumentProtects, Right, Protected

\* A step of one thread leaves the others' parts alone.
LEMMA OthersKeepTheirs ==
  ASSUME TypeOK, NEW u \in Threads, Mine(u),
         pc'[u] = pc[u], call'[u] = call[u], bypass'[u] = bypass[u],
         result'[u] = result[u], stale'[u] = stale[u],
         overlapped => overlapped', disturbed[u] => disturbed'[u]
  PROVE  Mine(u)'
  <1>1. /\ Argument(u)' = Argument(u) /\ Original(u)' = Original(u)
        /\ Protected(u)' = Protected(u) /\ ToBypass(u)' = ToBypass(u)
    BY DEF Argument, Original, Protected, ToBypass
  <1>2. /\ Found(u)' = Found(u) /\ FoundAtOnce(u)' = FoundAtOnce(u)
        /\ Answered(u)' = Answered(u) /\ Right(u)' = Right(u)
    BY <1>1 DEF Found, FoundAtOnce, Answered, Right
  <1>. QED  BY <1>1, <1>2 DEF Mine, TypeOK

\* The environment that an undisturbed call reads.
LEMMA EnvironRead ==
  ASSUME TypeOK, EnvironInv, Undisturbed, NEW t \in Threads,
         ~overlapped, ~disturbed[t], pc[t] \in {"look", "ask"}
  PROVE  /\ Argument(t) = None => environ = LowerNoProxy
         /\ pc[t] = "ask" /\ Argument(t) # None => environ = Argument(t)
  <1>1. \A u \in Threads \ {t} : ~Inside(u)
    BY DEF Undisturbed
  <1>2. CASE Argument(t) = None
    BY <1>1, <1>2 DEF Inside, EnvironInv, NobodyInside
  <1>3. CASE pc[t] = "ask" /\ Argument(t) # None
    BY <1>3 DEF Inside, EnvironInv, Holder
  <1>. QED  BY <1>2, <1>3

LEMMA UndisturbedStep == TypeOK /\ Undisturbed /\ [Next]_vars => Undisturbed'
  <1> SUFFICES ASSUME TypeOK, Undisturbed, [Next]_vars PROVE Undisturbed'
    OBVIOUS
  <1> USE DEF Undisturbed, Inside, Argument
  <1>1. ASSUME NEW t \in Threads, NEW c \in CallSpace, Begin(t, c) PROVE Undisturbed'
    BY <1>1 DEF TypeOK, Begin, Goto
  <1>2. ASSUME NEW t \in Threads, Look(t) PROVE Undisturbed'
    BY <1>2 DEF TypeOK, Look, Goto
  <1>3. ASSUME NEW t \in Threads, Save(t) PROVE Undisturbed'
    <2> SUFFICES ASSUME NEW u \in Threads, NEW v \in Threads \ {u},
                        pc'[u] # "idle", ~disturbed'[u]
                 PROVE  ~Inside(v)'
      OBVIOUS
    <2>1. u = t /\ ~Inside(v)
      BY <1>3 DEF TypeOK, Save
    <2>. QED  BY <1>3, <2>1 DEF TypeOK, Save, Goto
  <1>4. ASSUME NEW t \in Threads, SetEnviron(t) \/ Ask(t) PROVE Undisturbed'
    BY <1>4 DEF TypeOK, SetEnviron, Ask, Goto
  <1>5. ASSUME NEW t \in Threads, Restore(t) PROVE Undisturbed'
    BY <1>5 DEF TypeOK, Restore, Goto
  <1>6. ASSUME NEW t \in Threads, Merge(t) PROVE Undisturbed'
    BY <1>6 DEF TypeOK, Merge, Goto
  <1>7. CASE UNCHANGED vars
    BY <1>7 DEF vars
  <1>. QED  BY <1>1, <1>2, <1>3, <1>4, <1>5, <1>6, <1>7 DEF Next

LEMMA LookFinds ==
  ASSUME TypeOK, EnvironInv, Undisturbed, NEW t \in Threads, Mine(t), Look(t)
  PROVE  Mine(t)'
  <1> DEFINE noProxy == IF Argument(t) # None THEN Argument(t) ELSE GetNoProxy(environ)
  <1>1. /\ pc[t] = "look"
        /\ \/ /\ call[t].host \in noProxy
              /\ pc' = [pc EXCEPT ![t] = "merge"] /\ bypass' = [bypass EXCEPT ![t] = "yes"]
           \/ /\ call[t].host \notin noProxy
              /\ pc' = [pc EXCEPT ![t] = IF Argument(t) = None THEN "ask" ELSE "save"]
              /\ bypass' = bypass
        /\ UNCHANGED <<call, result, disturbed, overlapped, stale>>
    BY DEF Look, Goto
  <1>2. /\ Argument(t)' = Argument(t) /\ ToBypass(t)' = ToBypass(t)
        /\ Protected(t)' = Protected(t) /\ ~Answered(t)' /\ result'[t] = None
    BY <1>1 DEF Argument, ToBypass, Protected, Answered, Mine, TypeOK
  <1>3. ASSUME ~overlapped, ~disturbed[t]
        PROVE  call[t].host \in noProxy <=> ToBypass(t)
    BY <1>1, <1>3, EnvironRead DEF ToBypass, ShouldBypass
  <1>4. ~overlapped' /\ ~disturbed'[t] => Found(t)'
    BY <1>1, <1>2, <1>3 DEF Found, TypeOK
  <1>5. Protected(t)' => FoundAtOnce(t)'
    BY <1>1, <1>2 DEF Protected, FoundAtOnce, TypeOK
  <1>. QED  BY <1>2, <1>4, <1>5 DEF Mine

LEMMA AskFinds ==
  ASSUME TypeOK, EnvironInv, Undisturbed, NEW t \in Threads, Mine(t), Ask(t)
  PROVE  Mine(t)'
  <1>1. /\ pc[t] = "ask" /\ pc' = [pc EXCEPT ![t] = "restore"]
        /\ bypass'[t] \in {IF ProxyBypass(environ, call[t].host) THEN "yes" ELSE "no",
                           "no", "raised"}
        /\ UNCHANGED <<call, result, disturbed, overlapped, stale>>
    BY DEF Ask, Goto, TypeOK
  <1>2. /\ Argument(t)' = Argument(t) /\ ToBypass(t)' = ToBypass(t)
        /\ Protected(t)' = Protected(t) /\ ~Answered(t)' /\ result'[t] = None
    BY <1>1 DEF Argument, ToBypass, Protected, Answered, Mine, TypeOK
  <1>3. ASSUME ~overlapped, ~disturbed[t]
        PROVE  ~ToBypass(t) /\ ~ProxyBypass(environ, call[t].host)
    <2>1. call[t].host \notin (IF Argument(t) = None THEN GetNoProxy(LowerNoProxy)
                                                     ELSE Argument(t))
      BY <1>1, <1>3 DEF Mine, Found, ToBypass, ShouldBypass
    <2>2. environ = IF Argument(t) = None THEN LowerNoProxy ELSE Argument(t)
      BY <1>1, <1>3, EnvironRead
    <2>3. ~ToBypass(t)
      BY <1>1, <1>3 DEF Mine, Found
    <2>4. ~ProxyBypass(environ, call[t].host)
      BY <2>1, <2>2 DEF ProxyBypass, GetNoProxy
    <2>. QED  BY <2>3, <2>4
  <1>4. ~overlapped' /\ ~disturbed'[t] => Found(t)'
    BY <1>1, <1>2, <1>3 DEF Found, TypeOK
  <1>5. ~Protected(t)
    BY <1>1 DEF Mine, FoundAtOnce
  <1>. QED  BY <1>2, <1>4, <1>5 DEF Mine

LEMMA RestoreFinds ==
  ASSUME TypeOK, EnvironInv, NEW t \in Threads, Mine(t), Restore(t)
  PROVE  Mine(t)'
  <1>1. /\ pc[t] = "restore"
        /\ \/ pc' = [pc EXCEPT ![t] = "idle"]
           \/ pc' = [pc EXCEPT ![t] = "merge"] /\ bypass' = bypass
        /\ UNCHANGED <<call, result, disturbed, overlapped, stale>>
    BY DEF Restore, Goto
  <1>2. /\ ToBypass(t)' = ToBypass(t) /\ Protected(t)' = Protected(t)
        /\ ~Answered(t)' /\ result'[t] = None
    BY <1>1 DEF Argument, ToBypass, Protected, Answered, Mine, TypeOK
  <1>3. ~overlapped' /\ ~disturbed'[t] => Found(t)'
    BY <1>1, <1>2 DEF Found, Mine, TypeOK
  <1>4. ~Protected(t)
    BY <1>1 DEF Mine, FoundAtOnce
  <1>. QED  BY <1>2, <1>3, <1>4 DEF Mine

LEMMA MergeAnswers ==
  ASSUME TypeOK, NEW t \in Threads, Mine(t), Merge(t)
  PROVE  Mine(t)'
  <1> DEFINE seen   == IF call[t].dict = None THEN NoProxies ELSE tables[call[t].dict]
             added  == IF bypass[t] = "yes" THEN NoProxies ELSE EnvProxies
  <1>1. /\ pc[t] = "merge" /\ pc' = [pc EXCEPT ![t] = "idle"]
        /\ result'[t] = MergeSetting(SetDefaults(seen, added))
        /\ stale'[t] = (seen # Original(t))
        /\ UNCHANGED <<call, bypass, disturbed, overlapped>>
    BY DEF Merge, Goto, TypeOK
  <1>2. /\ Argument(t)' = Argument(t) /\ Original(t)' = Original(t)
        /\ Protected(t)' = Protected(t)
    BY <1>1 DEF Argument, Original, Protected
  <1>3. ASSUME ~overlapped, ~disturbed[t], seen = Original(t) PROVE Right(t)'
    <2>1. added = GetEnvironProxies(call[t].host, Argument(t))
      BY <1>1, <1>3 DEF Mine, Found, ToBypass, GetEnvironProxies
    <2>. QED  BY <1>1, <1>2, <1>3, <2>1 DEF Right, MergeEnvironmentSettings
  <1>4. ASSUME Protected(t), seen = Original(t) PROVE result'[t] = MergeSetting(Original(t))
    <2>1. added = NoProxies
      BY <1>1, <1>4 DEF Mine, FoundAtOnce
    <2>. QED  BY <1>1, <1>4, <2>1, OriginalType, SetDefaultsNothing
  <1>5. pc'[t] = "idle" /\ Found(t)' /\ FoundAtOnce(t)'
    BY <1>1 DEF Found, FoundAtOnce, TypeOK
  <1>. QED  BY <1>1, <1>2, <1>3, <1>4, <1>5 DEF Mine

LEMMA AnswerStep == TypeOK /\ EnvironInv /\ AnswerInv /\ [Next]_vars => AnswerInv'
  <1> SUFFICES ASSUME TypeOK, EnvironInv, AnswerInv, [Next]_vars PROVE AnswerInv'
    OBVIOUS
  <1>0. Undisturbed /\ Undisturbed' /\ \A t \in Threads : Mine(t)
    BY AnswerParts, UndisturbedStep
  <1> SUFFICES ASSUME NEW u \in Threads PROVE Mine(u)'
    BY <1>0 DEF AnswerInv, Mine, NoResultYet, AsIfAlone, ArgumentProtects, Right, Protected
  <1>1. ASSUME NEW t \in Threads, NEW c \in CallSpace, Begin(t, c) PROVE Mine(u)'
    <2>1. CASE u = t
      <3>1. pc'[t] = "look" /\ result'[t] = None
        BY <1>1 DEF Begin, Goto, TypeOK
      <3>. QED  BY <2>1, <3>1 DEF Mine, Found, FoundAtOnce, Answered
    <2>2. CASE u # t
      BY <1>0, <1>1, <2>2, OthersKeepTheirs DEF Begin, Goto, TypeOK
    <2>. QED  BY <2>1, <2>2
  <1>2. ASSUME NEW t \in Threads, Look(t) PROVE Mine(u)'
    <2>1. CASE u # t
      BY <1>0, <1>2, <2>1, OthersKeepTheirs DEF Look, Goto, TypeOK
    <2>. QED  BY <1>0, <1>2, <2>1, LookFinds
  <1>3. ASSUME NEW t \in Threads, Save(t) PROVE Mine(u)'
    <2>1. CASE u = t
      <3>1. /\ pc[t] = "save" /\ pc' = [pc EXCEPT ![t] = "set"]
            /\ (overlapped => overlapped') /\ (disturbed[t] => disturbed'[t])
            /\ UNCHANGED <<call, bypass, result, stale>>
        BY <1>3 DEF Save, Goto, TypeOK
      <3>2. ToBypass(t)' = ToBypass(t) /\ Protected(t)' = Protected(t) /\ ~Answered(t)'
        BY <3>1 DEF Argument, ToBypass, Protected, Answered, TypeOK
      <3>3. ~Protected(t)
        BY <1>0, <3>1 DEF Mine, FoundAtOnce
      <3>. QED  BY <1>0, <2>1, <3>1, <3>2, <3>3 DEF Mine, Found, TypeOK
    <2>2. CASE u # t
      BY <1>0, <1>3, <2>2, OthersKeepTheirs DEF Save, Goto, TypeOK
    <2>. QED  BY <2>1, <2>2
  <1>4. ASSUME NEW t \in Threads, SetEnviron(t) PROVE Mine(u)'
    <2>1. CASE u = t
      <3>1. /\ pc[t] = "set" /\ pc' = [pc EXCEPT ![t] = "ask"]
            /\ UNCHANGED <<call, bypass, result, stale, overlapped, disturbed>>
        BY <1>4 DEF SetEnviron, Goto
      <3>2. ToBypass(t)' = ToBypass(t) /\ Protected(t)' = Protected(t) /\ ~Answered(t)'
        BY <3>1 DEF Argument, ToBypass, Protected, Answered, TypeOK
      <3>3. ~Protected(t)
        BY <1>0, <3>1 DEF Mine, FoundAtOnce
      <3>. QED  BY <1>0, <2>1, <3>1, <3>2, <3>3 DEF Mine, Found, TypeOK
    <2>2. CASE u # t
      BY <1>0, <1>4, <2>2, OthersKeepTheirs DEF SetEnviron, Goto, TypeOK
    <2>. QED  BY <2>1, <2>2
  <1>5. ASSUME NEW t \in Threads, Ask(t) PROVE Mine(u)'
    <2>1. CASE u # t
      BY <1>0, <1>5, <2>1, OthersKeepTheirs DEF Ask, Goto, TypeOK
    <2>. QED  BY <1>0, <1>5, <2>1, AskFinds
  <1>6. ASSUME NEW t \in Threads, Restore(t) PROVE Mine(u)'
    <2>1. CASE u # t
      BY <1>0, <1>6, <2>1, OthersKeepTheirs DEF Restore, Goto, TypeOK
    <2>. QED  BY <1>0, <1>6, <2>1, RestoreFinds
  <1>7. ASSUME NEW t \in Threads, Merge(t) PROVE Mine(u)'
    <2>1. CASE u # t
      BY <1>0, <1>7, <2>1, OthersKeepTheirs DEF Merge, Goto, TypeOK
    <2>. QED  BY <1>0, <1>7, <2>1, MergeAnswers
  <1>8. CASE UNCHANGED vars
    BY <1>0, <1>8, OthersKeepTheirs DEF vars
  <1>. QED  BY <1>1, <1>2, <1>3, <1>4, <1>5, <1>6, <1>7, <1>8 DEF Next

LEMMA AnswerInvariant == Spec => []AnswerInv
  <1>1. Init => AnswerInv
    BY DEF Init, AnswerInv, NoResultYet, Undisturbed, Found, FoundAtOnce, AsIfAlone,
           ArgumentProtects, Answered
  <1>2. Init => EnvironInv
    BY DEF Init, EnvironInv, OwnListOnly, OneInside, NobodyInside, Inside
  <1>. QED  BY <1>1, <1>2, TypeCorrect, EnvironStep, AnswerStep, PTL DEF Spec

\* A call that no other call came across gets what ProxyRules says: any number
\* of threads implement the operator that the redirect chain is built on.
THEOREM AloneIsRight == Spec => []AsIfAlone
  <1>1. AnswerInv => AsIfAlone
    BY DEF AnswerInv
  <1>. QED  BY <1>1, AnswerInvariant, PTL

\* A host in the list a call brings along gets no proxy from the environment,
\* under every interleaving (should_bypass_proxies).
THEOREM ListProtects == Spec => []ArgumentProtects
  <1>1. AnswerInv => ArgumentProtects
    BY DEF AnswerInv
  <1>. QED  BY <1>1, AnswerInvariant, PTL

-----------------------------------------------------------------------------
(* Networks: what address_in_network computes from the numbers of two      *)
(* addresses is a matter of their leading bits, in either byte order.      *)

LEMMA Multiples ==
  ASSUME NEW m \in Nat, NEW n \in Nat, NEW size \in Nat, m < n
  PROVE  m * size + size <= n * size
  <1> DEFINE c == n - m - 1
  <1>1. c \in Nat /\ n = m + 1 + c
    OBVIOUS
  <1>. HIDE DEF c
  <1>2. (m + 1 + c) * size = m * size + size + c * size
    BY <1>1
  <1>3. c * size \in Nat /\ m * size \in Nat
    BY <1>1
  <1>. QED  BY <1>1, <1>2, <1>3

\* No two bits of an address have the same weight.
LEMMA WeightsDiffer ==
  ASSUME NEW i \in 1..Octets, NEW j \in 1..Octets, NEW k \in Bits, NEW m \in Bits,
         Weight(i, k) = Weight(j, m)
  PROVE  i = j /\ k = m
  <1>1. /\ Octets - i \in Nat /\ Octets - j \in Nat /\ OctetBits \in Nat
        /\ (Octets - i) * OctetBits \in Nat /\ (Octets - j) * OctetBits \in Nat
    BY WidthAssumption
  <1>2. (Octets - i) * OctetBits + k = (Octets - j) * OctetBits + m
    BY DEF Weight
  <1>3. k \in Nat /\ m \in Nat /\ k < OctetBits /\ m < OctetBits
    BY WidthAssumption DEF Bits
  <1>4. ~(Octets - i < Octets - j)
    <2>1. Octets - i < Octets - j
              => (Octets - i) * OctetBits + OctetBits <= (Octets - j) * OctetBits
      BY <1>1, Multiples
    <2>. QED  BY <1>1, <1>2, <1>3, <2>1
  <1>5. ~(Octets - j < Octets - i)
    <2>1. Octets - j < Octets - i
              => (Octets - j) * OctetBits + OctetBits <= (Octets - i) * OctetBits
      BY <1>1, Multiples
    <2>. QED  BY <1>1, <1>2, <1>3, <2>1
  <1>6. i = j
    <2>1. i \in Int /\ j \in Int /\ Octets \in Int
      BY WidthAssumption
    <2>2. ~(i > j) /\ ~(j > i)
      BY <1>4, <1>5, <2>1
    <2>. QED  BY <2>1, <2>2
  <1>. QED  BY <1>1, <1>2, <1>3, <1>6

LEMMA NumberBits ==
  ASSUME NEW octets \in Addresses, NEW i \in 1..Octets, NEW k \in Bits
  PROVE  Weight(i, k) \in BigEndian(octets) <=> k \in octets[i]
  <1>1. k \in octets[i] => Weight(i, k) \in BigEndian(octets)
    BY DEF BigEndian
  <1>2. ASSUME Weight(i, k) \in BigEndian(octets)
        PROVE  k \in octets[i]
    <2>1. PICK j \in 1..Octets : \E m \in octets[j] : Weight(i, k) = Weight(j, m)
      BY <1>2 DEF BigEndian
    <2>2. PICK m \in octets[j] : Weight(i, k) = Weight(j, m)
      BY <2>1
    <2>3. m \in Bits
      BY DEF Addresses
    <2>. QED  BY <2>2, <2>3, WeightsDiffer
  <1>. QED  BY <1>1, <1>2

\* Where the machine reads octet i.
Place(i) == IF LittleEndian THEN Octets + 1 - i ELSE i

LEMMA NativeBits ==
  ASSUME NEW octets \in Addresses
  PROVE  /\ \A i \in 1..Octets, k \in Bits :
                Weight(Place(i), k) \in Native(octets) <=> k \in octets[i]
         /\ \A w \in Native(octets) :
                \E i \in 1..Octets, k \in Bits : w = Weight(Place(i), k)
  <1> DEFINE r == IF LittleEndian THEN Reverse(octets) ELSE octets
  <1>1. \A i \in 1..Octets : Place(i) \in 1..Octets /\ Place(Place(i)) = i
    BY WidthAssumption DEF Place
  <1>2. r \in Addresses /\ \A i \in 1..Octets : r[Place(i)] = octets[i]
    <2>1. DOMAIN octets = 1..Octets /\ Octets \in Nat
      BY WidthAssumption DEF Addresses
    <2>2. Len(octets) = Octets
      BY <2>1
    <2>3. CASE LittleEndian
      <3>1. r = [i \in 1..Octets |-> octets[Octets - i + 1]]
        BY <2>2, <2>3 DEF Reverse
      <3>2. \A i \in 1..Octets : Octets - i + 1 \in 1..Octets
        BY <2>1
      <3>3. r \in Addresses
        BY <3>1, <3>2 DEF Addresses
      <3>. HIDE DEF r
      <3>4. ASSUME NEW i \in 1..Octets
            PROVE  r[Place(i)] = octets[i]
        <4>1. Octets - Place(i) + 1 = i
          BY <2>1, <2>3 DEF Place
        <4>. QED  BY <1>1, <3>1, <4>1
      <3>. QED  BY <3>3, <3>4
    <2>4. CASE ~LittleEndian
      BY <2>4 DEF Place
    <2>. QED  BY <2>3, <2>4
  <1>3. Native(octets) = BigEndian(r)
    BY DEF Native
  <1>. HIDE DEF r
  <1>4. ASSUME NEW i \in 1..Octets, NEW k \in Bits
        PROVE  Weight(Place(i), k) \in Native(octets) <=> k \in octets[i]
    BY <1>1, <1>2, <1>3, NumberBits
  <1>5. ASSUME NEW w \in Native(octets)
        PROVE  \E i \in 1..Octets, k \in Bits : w = Weight(Place(i), k)
    <2>1. PICK j \in 1..Octets : \E k \in r[j] : w = Weight(j, k)
      BY <1>3, <1>5 DEF BigEndian
    <2>2. PICK k \in r[j] : w = Weight(j, k)
      BY <2>1
    <2>3. k \in Bits
      BY <1>2 DEF Addresses
    <2>. QED  BY <1>1, <2>2, <2>3
  <1>. QED  BY <1>4, <1>5

\* The leading bits, and those alone, are in the netmask.
LEMMA NetmaskBits ==
  ASSUME NEW mask \in 1..Width
  PROVE  /\ DottedNetmask(mask) \in Addresses
         /\ \A i \in 1..Octets, k \in Bits : k \in DottedNetmask(mask)[i]
                <=> (i - 1) * OctetBits + (OctetBits - k) <= mask
  <1> DEFINE bits == Xor(Ones(Width), Ones(Width - mask))
  <1>1. DottedNetmask(mask) = [i \in 1..Octets |-> {k \in Bits : Weight(i, k) \in bits}]
    BY DEF DottedNetmask
  <1>2. Width \in Nat
    BY WidthAssumption DEF Width
  <1>3. \A w \in Int : w \in bits <=> w \in 0..(Width - 1) /\ Width - w <= mask
    BY <1>2 DEF Xor, Ones
  <1>. HIDE DEF bits
  <1>4. ASSUME NEW i \in 1..Octets, NEW k \in Bits
        PROVE  k \in DottedNetmask(mask)[i]
                   <=> (i - 1) * OctetBits + (OctetBits - k) <= mask
    <2>1. k \in Nat /\ k < OctetBits /\ Octets - i \in Nat /\ OctetBits \in Nat
          /\ Octets \in Nat
      BY WidthAssumption DEF Bits
    <2>2. (Octets - i) * OctetBits \in Nat
      BY <2>1
    <2>3. (Octets - i) * OctetBits = Octets * OctetBits - i * OctetBits
      BY <2>1
    <2>4. (i - 1) * OctetBits = i * OctetBits - OctetBits
      BY <2>1
    <2>5. i * OctetBits \in Nat /\ OctetBits <= i * OctetBits
      <3>1. (i - 1) * OctetBits \in Nat
        BY <2>1
      <3>2. i * OctetBits \in Int
        BY <2>1
      <3>. QED  BY <2>1, <2>4, <3>1, <3>2
    <2>6. Weight(i, k) = Width - i * OctetBits + k
      BY <2>3 DEF Weight, Width
    <2>7. Weight(i, k) \in 0..(Width - 1)
      <3>1. Weight(i, k) >= 0
        BY <2>1, <2>2 DEF Weight
      <3>. QED  BY <1>2, <2>1, <2>5, <2>6, <3>1
    <2>8. Width - Weight(i, k) = (i - 1) * OctetBits + (OctetBits - k)
      BY <1>2, <2>1, <2>4, <2>5, <2>6
    <2>9. k \in DottedNetmask(mask)[i] <=> Weight(i, k) \in bits
      BY <1>1
    <2>. QED  BY <1>3, <2>7, <2>8, <2>9
  <1>. QED  BY <1>1, <1>4 DEF Addresses

\* address_in_network compares the leading bits.
LEMMA SameNetwork ==
  ASSUME NEW ip \in Addresses, NEW net \in Addresses, NEW bits \in 1..Width
  PROVE  AddressInNetwork(ip, [text |-> net, bits |-> bits]) <=> SameStart(ip, net, bits)
  <1> DEFINE mask == DottedNetmask(bits)
  <1>1. mask \in Addresses /\ \A i \in 1..Octets, k \in Bits :
            k \in mask[i] <=> (i - 1) * OctetBits + (OctetBits - k) <= bits
    BY NetmaskBits
  <1>2. SameStart(ip, net, bits) <=> \A i \in 1..Octets, k \in Bits :
            k \in mask[i] => (k \in ip[i] <=> k \in net[i])
    BY <1>1 DEF SameStart
  <1>3. AddressInNetwork(ip, [text |-> net, bits |-> bits])
            <=> \A w \in Native(mask) : w \in Native(ip) <=> w \in Native(net)
    BY DEF AddressInNetwork
  <1>. HIDE DEF mask
  <1>4. (\A w \in Native(mask) : w \in Native(ip) <=> w \in Native(net))
            <=> \A i \in 1..Octets, k \in Bits :
                    k \in mask[i] => (k \in ip[i] <=> k \in net[i])
    <2>1. \A octets \in {ip, net, mask}, i \in 1..Octets, k \in Bits :
              Weight(Place(i), k) \in Native(octets) <=> k \in octets[i]
      BY <1>1, NativeBits
    <2>2. \A w \in Native(mask) :
              \E i \in 1..Octets, k \in Bits : w = Weight(Place(i), k)
      BY <1>1, NativeBits
    <2>. QED  BY <2>1, <2>2
  <1>. QED  BY <1>2, <1>3, <1>4

LEMMA BeforeColonText ==
  ASSUME NEW S, NEW netloc \in Seq(S)
  PROVE  BeforeColon(netloc) \in Seq(S)
  <1> DEFINE colons == {i \in DOMAIN netloc : netloc[i] = Colon}
             first  == CHOOSE i \in colons : \A j \in colons : i <= j
  <1>1. BeforeColon(netloc) = IF colons = {} THEN netloc ELSE SubSeq(netloc, 1, first - 1)
    BY DEF BeforeColon
  <1>2. CASE colons # {}
    <2>1. DOMAIN netloc = 1..Len(netloc) /\ Len(netloc) \in Nat
      OBVIOUS
    <2>2. colons \in SUBSET Nat
      BY <2>1
    <2>. HIDE DEF colons
    <2>3. \E i \in colons : \A j \in colons : i <= j
      BY <1>2, <2>2, MinExists
    <2>4. first \in colons
      BY <2>3
    <2>. HIDE DEF first
    <2>5. first \in 1..Len(netloc)
      BY <2>1, <2>4 DEF colons
    <2>. QED  BY <1>1, <1>2, <2>5
  <1>. QED  BY <1>1, <1>2

\* An address is in a network exactly when their leading bits agree, whatever
\* the width of an address and the byte order of the machine.
THEOREM NetworksAreExact == Spec => []NetworksMatch
  <1>1. TypeOK => NetworksMatch
    <2>. SUFFICES ASSUME TypeOK, NEW t \in Threads
                  PROVE  InItsNetworks[call[t].host]
      BY DEF NetworksMatch
    <2> DEFINE h  == call[t].host
               ip == BeforeColon(Netloc[h])
    <2>1. h \in Hosts
      BY DEF TypeOK, CallSpace
    <2>. HIDE DEF h
    <2>. SUFFICES ASSUME NEW net \in Addresses, NEW bits \in 0..(Width + 1), IsAddress(ip)
                  PROVE  ListMatches({[text |-> net, bits |-> bits]}, Netloc[h])
                             <=> bits \in 1..Width /\ SameStart(ip, net, bits)
      BY <2>1 DEF InItsNetworks, h
    <2> DEFINE entry == [text |-> net, bits |-> bits]
    <2>2. ip \in Seq(Letters \cup SUBSET Bits)
      BY <2>1, NetlocAssumption, BeforeColonText
    <2>3. ip \in Addresses /\ net \in Addresses
      BY <2>2 DEF IsAddress, Addresses
    <2>4. IsAddress(net)
      BY WidthAssumption DEF IsAddress, Addresses
    <2>5. entry.bits # NoSlash
      BY WidthAssumption DEF Width
    <2>6. IsValidCidr(entry) <=> bits \in 1..Width
      BY <2>4, <2>5 DEF IsValidCidr
    <2>7. ListMatches({entry}, Netloc[h])
              <=> IsValidCidr(entry) /\ AddressInNetwork(ip, entry)
      BY <2>5 DEF ListMatches, IsEmpty
    <2>. QED  BY <2>3, <2>6, <2>7, SameNetwork
  <1>. QED  BY <1>1, TypeCorrect, PTL
=============================================================================
