--------------------------- MODULE ConnectionPool ---------------------------
(***************************************************************************)
(* requests/adapters.py HTTPAdapter: calls of several threads that share   *)
(* the pool of connections of one host.  A body of known length goes       *)
(* through urlopen of the HTTP library, which gives the connection back    *)
(* when it fails; a chunked one is sent by HTTPAdapter.send itself over a  *)
(* connection it takes from the pool.                                      *)
(*                                                                         *)
(* The pool is external: a queue of pool_maxsize places.  Taking one from  *)
(* an empty queue makes another connection, or waits without a limit if    *)
(* the pool blocks; one that comes back to a full or a closed pool is      *)
(* dropped.  Closing a pool empties its queue, and who waits on it waits   *)
(* on.                                                                     *)
(*                                                                         *)
(* A definition named D_Variant is D as a plausible mistake would have it; *)
(* nothing uses it.                                                        *)
(***************************************************************************)
EXTENDS Naturals, FiniteSets

CONSTANTS
    Calls,      \* the calls of send, each by a thread of its own
    Chunked,    \* the calls whose body is sent in chunks
    MaxSize,    \* pool_maxsize
    MaxPools    \* bound: how many pools the host gets, one after the other

ASSUME PoolAssumption ==
    /\ IsFiniteSet(Calls)
    /\ Chunked \subseteq Calls
    /\ MaxSize \in Nat \ {0}
    /\ MaxPools \in Nat \ {0}

Pools == 1..MaxPools

VARIABLES
    block,     \* pool_block
    current,   \* the pool that connection_from_url gives; the later are not made
    shut,      \* the pools that were closed
    free,      \* free[p]: the places in the queue of pool p
    pc,        \* pc[c]: where call c is
    pool,      \* pool[c]: conn, the pool that call c was given
    returns,   \* the responses that know the pool of their connection
    lost       \* lost[p]: connections that were closed and not given back

vars == <<block, current, shut, free, pc, pool, returns, lost>>

\* "new"; "given" a pool; "waiting" for a connection; "sending"; "open", a
\* response that holds its connection; "over", read or closed; "failed".
TypeOK ==
    /\ block \in BOOLEAN
    /\ current \in Pools
    /\ shut \subseteq Pools
    /\ free \in [Pools -> 0..MaxSize]
    /\ pc \in [Calls -> {"new", "given", "waiting", "sending", "open", "over",
                         "failed"}]
    /\ pool \in [Calls -> Pools]
    /\ returns \subseteq Calls
    /\ lost \in [Pools -> Nat]

Init ==
    /\ block \in BOOLEAN
    /\ current = 1
    /\ shut = {}
    /\ free = [p \in Pools |-> MaxSize]
    /\ pc = [c \in Calls |-> "new"]
    /\ pool = [c \in Calls |-> 1]
    /\ returns = {}
    /\ lost = [p \in Pools |-> 0]

At(c, place) == pc[c] = place
Goes(c, place) == pc' = [pc EXCEPT ![c] = place]

-----------------------------------------------------------------------------
(* The pool of the HTTP library.                                           *)

Take(p) == free' = [free EXCEPT ![p] = @ - 1]

\* A connection comes back to pool p.
Put(p) ==
    free' = IF p \in shut \/ free[p] = MaxSize THEN free
            ELSE [free EXCEPT ![p] = @ + 1]

-----------------------------------------------------------------------------
\* get_connection.
GetConnection(c) ==
    /\ At(c, "new")
    /\ pool' = [pool EXCEPT ![c] = current]
    /\ Goes(c, "given")
    /\ UNCHANGED <<block, current, shut, free, returns, lost>>

\* Mutant: a connection is taken without a look at the queue.
Ask_NeverWaits(c) ==
    /\ At(c, "given")
    /\ pool[c] \notin shut
    /\ free' = [free EXCEPT ![pool[c]] = IF block \/ @ > 0 THEN @ - 1 ELSE @]
    /\ Goes(c, "sending")
    /\ UNCHANGED <<block, current, shut, pool, returns, lost>>

\* _get_conn, by urlopen or by the chunked branch of send.
Ask(c) ==
    /\ At(c, "given")
    /\ pool[c] \notin shut
    /\ \/ /\ free[pool[c]] > 0
          /\ Take(pool[c])
          /\ Goes(c, "sending")
       \/ /\ free[pool[c]] = 0
          /\ Goes(c, IF block THEN "waiting" ELSE "sending")
          /\ UNCHANGED free
    /\ UNCHANGED <<block, current, shut, pool, returns, lost>>

\* ClosedPoolError: the pool was closed after get_connection; ConnectionError.
PoolClosed(c) ==
    /\ At(c, "given")
    /\ pool[c] \in shut
    /\ Goes(c, "failed")
    /\ UNCHANGED <<block, current, shut, free, pool, returns, lost>>

Served(c) ==
    /\ At(c, "waiting")
    /\ pool[c] \notin shut /\ free[pool[c]] > 0
    /\ Take(pool[c])
    /\ Goes(c, "sending")
    /\ UNCHANGED <<block, current, shut, pool, returns, lost>>

\* Mutant: from_httplib is not told the pool.
Responds_WithoutPool(c) ==
    /\ At(c, "sending")
    /\ returns' = IF c \in Chunked THEN returns ELSE returns \cup {c}
    /\ Goes(c, "open")
    /\ UNCHANGED <<block, current, shut, free, pool, lost>>

\* A response comes; it gives the connection back when it is read or closed.
Responds(c) ==
    /\ At(c, "sending")
    /\ returns' = returns \cup {c}
    /\ Goes(c, "open")
    /\ UNCHANGED <<block, current, shut, free, pool, lost>>

\* urlopen raises: the connection is back in the pool.
SendFails(c) ==
    /\ At(c, "sending")
    /\ c \notin Chunked
    /\ Put(pool[c])
    /\ Goes(c, "failed")
    /\ UNCHANGED <<block, current, shut, pool, returns, lost>>

\* The chunked branch raises: its connection is closed and stays out.
ChunkedFails(c) ==
    /\ At(c, "sending")
    /\ c \in Chunked
    /\ lost' = [lost EXCEPT ![pool[c]] = @ + 1]
    /\ Goes(c, "failed")
    /\ UNCHANGED <<block, current, shut, free, pool, returns>>

\* The caller reads the response to its end or closes it.
Release(c) ==
    /\ At(c, "open")
    /\ IF c \in returns THEN Put(pool[c]) ELSE UNCHANGED free
    /\ Goes(c, "over")
    /\ UNCHANGED <<block, current, shut, pool, returns, lost>>

\* HTTPAdapter.close, or a host too many for pool_connections: the pool is
\* closed, and the next call to this host makes a new one.
Discard ==
    /\ current < MaxPools
    /\ shut' = shut \cup {current}
    /\ free' = [free EXCEPT ![current] = 0]
    /\ current' = current + 1
    /\ UNCHANGED <<block, pc, pool, returns, lost>>

Answer(c) == Responds(c) \/ SendFails(c) \/ ChunkedFails(c)

Next ==
    \/ Discard
    \/ \E c \in Calls :
          \/ GetConnection(c)
          \/ Ask(c)
          \/ PoolClosed(c)
          \/ Served(c)
          \/ Answer(c)
          \/ Release(c)

(***************************************************************************)
(* Threads run, servers answer or the transport fails, and callers read or *)
(* close what they get.  (A call need not be made, a pool not be closed.)  *)
(***************************************************************************)
Fairness ==
    \A c \in Calls :
        /\ WF_vars(Ask(c) \/ PoolClosed(c))
        /\ WF_vars(Served(c))
        /\ WF_vars(Answer(c))
        /\ WF_vars(Release(c))

Spec == Init /\ [][Next]_vars /\ Fairness

-----------------------------------------------------------------------------
(* Properties.                                                             *)

Users(p) == {c \in Calls : pool[c] = p /\ pc[c] \in {"sending", "open"}}

\* Every place of an open pool is in the queue, in use or lost to a failed
\* upload; a pool that blocks never has more connections out than places.
PlacesAccounted ==
    \A p \in Pools \ shut :
        LET sum == free[p] + Cardinality(Users(p)) + lost[p]
        IN  sum >= MaxSize /\ (block => sum = MaxSize)

\* A call that waits for a connection gets one (send has no time limit for
\* it), if its pool stays open and loses no place to a failed upload.
WaitersServed ==
    \A c \in Calls :
        []( At(c, "waiting") => pool[c] \notin shut /\ lost[pool[c]] = 0 )
            => ( At(c, "waiting") ~> ~At(c, "waiting") )

\* What the comment in the chunked branch of send says, "If we hit any problems
\* here, clean up the connection": when nobody uses a pool that blocks, every
\* place is there for the next call, which would otherwise wait for ever.
PlacesComeBack ==
    \A p \in Pools \ shut :
        /\ block
        /\ \A c \in Calls : pool[c] = p => pc[c] \in {"new", "over", "failed"}
        => free[p] = MaxSize
=============================================================================
