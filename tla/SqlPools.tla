------------------------------ MODULE SqlPools ------------------------------
(***************************************************************************)
(* The connection pool cache of drivers/sqlserver.js.                      *)
(*                                                                         *)
(* poolCache maps a connection string to the promise of its pool, which is *)
(* cached while it is still connecting, so that concurrent first requests  *)
(* share one pool.  A failed attempt removes itself from the cache, unless *)
(* the entry is by then another attempt's.  closeSqlServerPools takes what *)
(* is cached, clears the cache and closes what it took.                    *)
(*                                                                         *)
(* The event loop interleaves the callers, the connection attempts and the *)
(* closers (one for each shutdown signal) between their awaits: each       *)
(* action below is what the code does between two of them.  The mssql pool *)
(* is external: it connects or fails, and closes or fails to.              *)
(***************************************************************************)
EXTENDS Naturals, FiniteSets

CONSTANTS
  Conns,     (* Connection strings.                                         *)
  Callers,   (* Tool calls that run a query, one at a time each.            *)
  Shutdowns, (* Bound: calls of closeSqlServerPools.                        *)
  MaxAttempts (* Bound: pool promises ever created.                         *)

ASSUME ConnsAssumption == Conns # {}
ASSUME ShutdownsAssumption == Shutdowns \in Nat
ASSUME MaxAttemptsAssumption == MaxAttempts \in Nat

(* Pool promises are numbered in the order getPool creates them.           *)
Attempts == 1 .. MaxAttempts
None == 0

(* Calls of closeSqlServerPools, numbered in the order they start.         *)
Closers == 1 .. Shutdowns

VARIABLES
  created,   (* How many pool promises getPool has created.                 *)
  poolCache, (* The cached promise of each connection string, or None.      *)
  pool,      (* The life of each pool promise and of its pool.              *)
  owner,     (* The connection string a promise was created for.            *)
  pc,        (* Where each caller is: idle, waiting for a pool, using it.   *)
  handle,    (* The promise a caller waits for or has resolved.             *)
  closer,    (* Where each closer is: idle, closing, done.                  *)
  taken      (* pendingPools: the promises a closer took from the cache.    *)

poolVars == <<created, poolCache, pool, owner, pc, handle, closer, taken>>

(***************************************************************************)
(* "failing" lies between the failure of the connection and the microtask  *)
(* of the .catch that evicts the promise and rejects it.  "broken" is a    *)
(* pool whose close() rejected.                                            *)
(***************************************************************************)
Fulfilled == {"open", "closing", "closed", "broken"}
Settled   == {"rejected", "closed", "broken"}
PoolState == {"unused", "connecting", "failing"} \cup Fulfilled \cup Settled

(* A promise that has, or may still get, a connected pool nobody closes.   *)
Live(a) == pool[a] \in {"connecting", "failing", "open"}

PoolInit ==
  /\ created = 0
  /\ poolCache = [conn \in Conns |-> None]
  /\ pool = [a \in Attempts |-> "unused"]
  /\ owner = [a \in Attempts |-> CHOOSE conn \in Conns : TRUE]
  /\ pc = [c \in Callers |-> "idle"]
  /\ handle = [c \in Callers |-> None]
  /\ closer = [k \in Closers |-> "idle"]
  /\ taken = [k \in Closers |-> {}]

(***************************************************************************)
(* Callers: getPool, then await, then the query.                           *)
(***************************************************************************)

(* getPool starts connecting to conn and caches the pending promise.       *)
StartConnecting(c, conn) ==
  LET a == created + 1
  IN /\ a \in Attempts
     /\ created' = a
     /\ pool' = [pool EXCEPT ![a] = "connecting"]
     /\ owner' = [owner EXCEPT ![a] = conn]
     /\ poolCache' = [poolCache EXCEPT ![conn] = a]
     /\ handle' = [handle EXCEPT ![c] = a]

ShareCached(c, conn) ==
  /\ handle' = [handle EXCEPT ![c] = poolCache[conn]]
  /\ UNCHANGED <<created, poolCache, pool, owner>>

GetPool(c, conn) ==
  /\ pc[c] = "idle"
  /\ pc' = [pc EXCEPT ![c] = "waiting"]
  /\ \/ poolCache[conn] # None /\ ShareCached(c, conn)
     \/ poolCache[conn] = None /\ StartConnecting(c, conn)
  /\ UNCHANGED <<closer, taken>>

(* `await getPool(...)` resumes with the pool: it may be closed by now.    *)
PoolReady(c) ==
  /\ pc[c] = "waiting"
  /\ pool[handle[c]] \in Fulfilled
  /\ pc' = [pc EXCEPT ![c] = "using"]
  /\ UNCHANGED <<created, poolCache, pool, owner, handle, closer, taken>>

(* `await getPool(...)` throws: the caller reports the error.              *)
PoolRefused(c) ==
  /\ pc[c] = "waiting"
  /\ pool[handle[c]] = "rejected"
  /\ pc' = [pc EXCEPT ![c] = "idle"]
  /\ handle' = [handle EXCEPT ![c] = None]
  /\ UNCHANGED <<created, poolCache, pool, owner, closer, taken>>

(* The query ends, with a result or an error.                              *)
Finish(c) ==
  /\ pc[c] = "using"
  /\ pc' = [pc EXCEPT ![c] = "idle"]
  /\ handle' = [handle EXCEPT ![c] = None]
  /\ UNCHANGED <<created, poolCache, pool, owner, closer, taken>>

(***************************************************************************)
(* Connection attempts.                                                    *)
(***************************************************************************)

Connected(a) ==
  /\ pool[a] = "connecting"
  /\ pool' = [pool EXCEPT ![a] = "open"]
  /\ UNCHANGED <<created, poolCache, owner, pc, handle, closer, taken>>

ConnectFails(a) ==
  /\ pool[a] = "connecting"
  /\ pool' = [pool EXCEPT ![a] = "failing"]
  /\ UNCHANGED <<created, poolCache, owner, pc, handle, closer, taken>>

(* Mutated form: the failure evicts whatever is cached for its connection. *)
EvictBlindly(a) ==
  /\ pool[a] = "failing"
  /\ pool' = [pool EXCEPT ![a] = "rejected"]
  /\ poolCache' = [poolCache EXCEPT ![owner[a]] = None]
  /\ UNCHANGED <<created, owner, pc, handle, closer, taken>>

(* Mutated form: the failed promise stays cached.                          *)
RejectOnly(a) ==
  /\ pool[a] = "failing"
  /\ pool' = [pool EXCEPT ![a] = "rejected"]
  /\ UNCHANGED <<created, poolCache, owner, pc, handle, closer, taken>>

(* The .catch of getPool: evict the promise if it is the cached one, then  *)
(* rethrow, which rejects it.                                              *)
EvictAndReject(a) ==
  /\ pool[a] = "failing"
  /\ pool' = [pool EXCEPT ![a] = "rejected"]
  /\ poolCache' = [poolCache EXCEPT ![owner[a]] = IF @ = a THEN None ELSE @]
  /\ UNCHANGED <<created, owner, pc, handle, closer, taken>>

(***************************************************************************)
(* closeSqlServerPools.                                                    *)
(***************************************************************************)
IsNextCloser(k) ==
  closer[k] = "idle" /\ \A j \in 1 .. k - 1 : closer[j] # "idle"

(* Mutated form: a connection string without a promise is taken as one.    *)
CachedOrNot == {poolCache[conn] : conn \in Conns}

Cached == {poolCache[conn] : conn \in Conns} \ {None}

(* Mutated form: the cache is cleared only after the closes, too late for  *)
(* a second closer.                                                        *)
TakeUncleared(k) ==
  /\ IsNextCloser(k)
  /\ closer' = [closer EXCEPT ![k] = "closing"]
  /\ taken' = [taken EXCEPT ![k] = Cached]
  /\ UNCHANGED <<created, poolCache, pool, owner, pc, handle>>

(* Copies the cached promises and clears the cache, in one synchronous step *)
TakePools(k) ==
  /\ IsNextCloser(k)
  /\ closer' = [closer EXCEPT ![k] = "closing"]
  /\ taken' = [taken EXCEPT ![k] = Cached]
  /\ poolCache' = [conn \in Conns |-> None]
  /\ UNCHANGED <<created, pool, owner, pc, handle>>

(* `await pendingPool` resumed with a pool: its close() is called.         *)
CloseTaken(k, a) ==
  /\ closer[k] = "closing"
  /\ a \in taken[k]
  /\ pool[a] = "open"
  /\ pool' = [pool EXCEPT ![a] = "closing"]
  /\ UNCHANGED <<created, poolCache, owner, pc, handle, closer, taken>>

CloseSettles(a) ==
  /\ pool[a] = "closing"
  /\ \E outcome \in {"closed", "broken"} : pool' = [pool EXCEPT ![a] = outcome]
  /\ UNCHANGED <<created, poolCache, owner, pc, handle, closer, taken>>

(* Promise.allSettled resolves once every taken promise was refused or its *)
(* pool's close() settled, however it did.                                 *)
CloseReturns(k) ==
  /\ closer[k] = "closing"
  /\ \A a \in taken[k] : pool[a] \in Settled
  /\ closer' = [closer EXCEPT ![k] = "done"]
  /\ UNCHANGED <<created, poolCache, pool, owner, pc, handle, taken>>

----------------------------------------------------------------------------

PoolNext ==
  \/ \E c \in Callers, conn \in Conns : GetPool(c, conn)
  \/ \E c \in Callers : PoolReady(c) \/ PoolRefused(c) \/ Finish(c)
  \/ \E a \in Attempts :
       Connected(a) \/ ConnectFails(a) \/ EvictAndReject(a) \/ CloseSettles(a)
  \/ \E k \in Closers : TakePools(k) \/ CloseReturns(k)
  \/ \E k \in Closers, a \in Attempts : CloseTaken(k, a)

PoolSpec == PoolInit /\ [][PoolNext]_poolVars

----------------------------------------------------------------------------

PoolTypeOK ==
  /\ created \in 0 .. MaxAttempts
  /\ poolCache \in [Conns -> Attempts \cup {None}]
  /\ pool \in [Attempts -> PoolState]
  /\ owner \in [Attempts -> Conns]
  /\ pc \in [Callers -> {"idle", "waiting", "using"}]
  /\ handle \in [Callers -> Attempts \cup {None}]
  /\ closer \in [Closers -> {"idle", "closing", "done"}]
  /\ taken \in [Closers -> SUBSET Attempts]

BeingClosed(a) == \E k \in Closers : closer[k] = "closing" /\ a \in taken[k]

(* No pool leaks: a connection that is open, or may still open, is either  *)
(* the cached one of its connection string or held by a closer that has    *)
(* not returned (getPool and closeSqlServerPools, whatever their order).   *)
NoPoolLeak ==
  \A a \in Attempts :
    Live(a) => poolCache[owner[a]] = a \/ BeingClosed(a)

(* "Concurrent first requests to a target share a single connection pool"  *)
(* (CHANGELOG): two callers of the same connection string hold the same    *)
(* promise, unless one of the two was taken by a shutdown or has failed.   *)
CallersShareOnePool ==
  \A c, d \in Callers :
    /\ handle[c] # None /\ handle[d] # None
    /\ owner[handle[c]] = owner[handle[d]]
    /\ Live(handle[c]) /\ Live(handle[d])
    => \/ handle[c] = handle[d]
       \/ BeingClosed(handle[c])
       \/ BeingClosed(handle[d])

(* What getPool finds cached is worth waiting for: never a promise already *)
(* refused ("a failed connection attempt is no longer cached"), and never  *)
(* a pool that a shutdown has begun to close.                              *)
CacheIsUsable ==
  \A conn \in Conns : poolCache[conn] # None => Live(poolCache[conn])

(* Overlapping shutdowns close each pool once: no promise is taken by two  *)
(* closers, whatever callers reopened and attempts failed between the two, *)
(* and none that was taken is still, or again, cached for a caller to get. *)
ClosedOnce ==
  /\ \A j, k \in Closers : j # k => taken[j] \cap taken[k] = {}
  /\ \A k \in Closers, conn \in Conns : poolCache[conn] \notin taken[k]

(* The late failure of an attempt never evicts the healthy pool of a newer *)
(* one: a live promise leaves the cache only into the hands of a closer,   *)
(* or because it is the one that fails.                                    *)
EvictsOnlyItself ==
  [][\A conn \in Conns :
       LET a == poolCache[conn]
       IN a # None /\ poolCache'[conn] # a
            => \/ pool[a] = "failing"
               \/ \E k \in Closers : a \in taken'[k] \ taken[k]]_poolVars

=============================================================================
