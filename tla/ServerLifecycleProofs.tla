----------------------- MODULE ServerLifecycleProofs -----------------------
(***************************************************************************)
(* Proofs about Sessions and about ServerLifecycle, for any number of      *)
(* sessions, tool calls, connection strings and overlapping shutdowns.     *)
(*                                                                         *)
(* First of the sessions alone: what is open is held, and a session leaves *)
(* the store only for cause.  Then of the pools alone: none leaks.  Then   *)
(* the composition, which is one of Sessions and SqlPools, so that what is *)
(* proved of each holds of both together, and the process exits in order.  *)
(***************************************************************************)
EXTENDS ServerLifecycle, TLAPS

(* A session a stop() drained, or met, has left the store for good: its    *)
(* transport was initialized before and is never initialized again.        *)
Gone(s) == s \notin stored /\ transport[s] \in {"open", "closed"}

DrainedAreGone == \A k \in Stops : \A s \in drained[k] \cup met[k] :
                    stopper[k] # "idle" => Gone(s)

IdleHasNone == \A k \in Stops : stopper[k] = "idle" => drained[k] = {} /\ met[k] = {}

(* Renewed by every use: the store never expires a session early.          *)
ExpiryIsRenewed ==
  \A s \in stored :
    expiresAt[s] = IF ttl = 0 THEN NoExpiry ELSE lastUse[s] + ttl

SessionsInv ==
  TypeOK /\ OpenIsHeld /\ DrainedAreGone /\ IdleHasNone /\ ExpiryIsRenewed

----------------------------------------------------------------------------

(* The types hold initially and no step leaves them.                       *)
LEMMA TypesInitially == Init => TypeOK
  BY TtlsAssumption, MaxTimeAssumption DEF Init, TypeOK

LEMMA TypesAreKept == TypeOK /\ [Next]_vars => TypeOK'
  <1> SUFFICES ASSUME TypeOK, [Next]_vars PROVE TypeOK'
    OBVIOUS
  <1> USE TtlsAssumption, MaxTimeAssumption DEF TypeOK, history
  <1>1. CASE Tick
    BY <1>1 DEF Tick
  <1>2. CASE Sweep
    BY <1>2 DEF Sweep
  <1>3. ASSUME NEW s \in SessionIds, SessionNext(s) PROVE TypeOK'
    <2>1. ExpiryFrom(now) \in Nat
      BY DEF ExpiryFrom, NoExpiry
    <2> QED
      BY <1>3, <2>1 DEF SessionNext, InitializeRequest, SessionInitialized,
                        InitializeFails, FoundExpired, Lapse,
                        Served, ServedWhileExpiring, Deleted
  <1>4. ASSUME NEW k \in Stops, StopNext(k) PROVE TypeOK'
    BY <1>4 DEF StopNext, StopDrains, StopCloses, StopTurnsToPools, StopReturns
  <1>5. CASE UNCHANGED vars
    BY <1>5 DEF vars
  <1> QED
    BY <1>1, <1>2, <1>3, <1>4, <1>5 DEF Next

LEMMA InvInitially == Init => SessionsInv
  BY TypesInitially DEF Init, SessionsInv, OpenIsHeld, DrainedAreGone,
                        IdleHasNone, ExpiryIsRenewed

LEMMA InvIsKept == SessionsInv /\ [Next]_vars => SessionsInv'
  <1> SUFFICES ASSUME SessionsInv, [Next]_vars PROVE SessionsInv'
    OBVIOUS
  <1>0. TypeOK'
    BY TypesAreKept DEF SessionsInv
  <1> USE DEF SessionsInv, TypeOK, OpenIsHeld, DrainedAreGone, IdleHasNone,
              ExpiryIsRenewed, Gone, history
  <1>1. CASE Tick
    BY <1>0, <1>1 DEF Tick
  <1>2. CASE Sweep
    BY <1>0, <1>2 DEF Sweep
  <1>3. ASSUME NEW s \in SessionIds, SessionNext(s) PROVE SessionsInv'
    <2>1. CASE InitializeRequest(s)
      BY <1>0, <2>1 DEF InitializeRequest
    <2>2. CASE SessionInitialized(s)
      BY <1>0, <2>2 DEF SessionInitialized, ExpiryFrom
    <2>3. CASE InitializeFails(s)
      BY <1>0, <2>3 DEF InitializeFails
    <2>4. CASE FoundExpired(s)
      BY <1>0, <2>4 DEF FoundExpired, Lapse
    <2>5. CASE Served(s)
      BY <1>0, <2>5 DEF Served, ExpiryFrom
    <2>6. CASE ServedWhileExpiring(s)
      BY <1>0, <2>6 DEF ServedWhileExpiring, Lapse
    <2>7. CASE Deleted(s)
      BY <1>0, <2>7 DEF Deleted
    <2> QED
      BY <1>3, <2>1, <2>2, <2>3, <2>4, <2>5, <2>6, <2>7 DEF SessionNext
  <1>4. ASSUME NEW k \in Stops, StopNext(k) PROVE SessionsInv'
    <2>1. CASE StopDrains(k)
      BY <1>0, <2>1 DEF StopDrains
    <2>2. ASSUME NEW s \in SessionIds, StopCloses(k, s) PROVE SessionsInv'
      BY <1>0, <2>2 DEF StopCloses
    <2>3. CASE StopTurnsToPools(k)
      BY <1>0, <2>3 DEF StopTurnsToPools
    <2>4. CASE StopReturns(k)
      BY <1>0, <2>4 DEF StopReturns
    <2> QED
      BY <1>4, <2>1, <2>2, <2>3, <2>4 DEF StopNext
  <1>5. CASE UNCHANGED vars
    BY <1>0, <1>5 DEF vars
  <1> QED
    BY <1>1, <1>2, <1>3, <1>4, <1>5 DEF Next

(* The invariant of the sessions holds always.                             *)
THEOREM SessionsInvariant == Spec => []SessionsInv
  BY InvInitially, InvIsKept, PTL DEF Spec

(* A request is only handed to an open transport, and somebody will close  *)
(* every open one (resolveSession, the sweep, stop()).                     *)
THEOREM OpenSessionsAreHeld == Spec => []OpenIsHeld
  <1>1. SessionsInv => OpenIsHeld
    BY DEF SessionsInv
  <1> QED
    BY <1>1, SessionsInvariant, PTL

----------------------------------------------------------------------------

(* A step that takes a session out of the store has cause to.              *)
LEMMA LeavingHasCause ==
  ASSUME SessionsInv, [Next]_vars, NEW s \in stored \ stored'
  PROVE  \/ s \in deleted' \/ (\E k \in Stops : s \in drained'[k])
         \/ ttl # 0 /\ now' >= lastUse[s] + ttl
  <1> USE DEF SessionsInv, TypeOK, ExpiryIsRenewed, ExpiredAt, NoExpiry, history
  <1>1. CASE Tick
    BY <1>1 DEF Tick
  <1>2. CASE Sweep
    BY <1>2 DEF Sweep
  <1>3. ASSUME NEW t \in SessionIds, SessionNext(t)
        PROVE  s \in deleted' \/ (ttl # 0 /\ now' >= lastUse[s] + ttl)
    BY <1>3 DEF SessionNext, InitializeRequest, SessionInitialized,
                InitializeFails, FoundExpired, Lapse, Served,
                ServedWhileExpiring, Deleted
  <1>4. ASSUME NEW k \in Stops, StopNext(k) PROVE \E j \in Stops : s \in drained'[j]
    BY <1>4 DEF StopNext, StopDrains, StopCloses, StopTurnsToPools, StopReturns
  <1>5. CASE UNCHANGED vars
    BY <1>5 DEF vars
  <1> QED
    BY <1>1, <1>2, <1>3, <1>4, <1>5 DEF Next

(* A session leaves the store because its client deleted it, a stop() took *)
(* it, or it went a full time to live without a request; never the last    *)
(* when the time to live is 0.                                             *)
THEOREM SessionsLeaveForCause == Spec => LeavesForCause
  <1>1. SessionsInv /\ [Next]_vars =>
          [\A s \in stored \ stored' :
             \/ s \in deleted' \/ (\E k \in Stops : s \in drained'[k])
             \/ ttl # 0 /\ now' >= lastUse[s] + ttl]_vars
    BY LeavingHasCause
  <1> QED
    BY <1>1, SessionsInvariant, PTL DEF Spec, LeavesForCause

----------------------------------------------------------------------------
(***************************************************************************)
(* The pools alone, for any sets of connection strings and callers and any *)
(* number of connection attempts and shutdowns.                            *)
(***************************************************************************)

(* A cached promise was created, and for the connection it is cached under.*)
CacheOwned ==
  \A conn \in Conns :
    poolCache[conn] # None =>
      poolCache[conn] <= created /\ owner[poolCache[conn]] = conn

(* Closers take promises that were created.                                *)
TakenCreated == \A k \in Closers : \A a \in taken[k] : a <= created

(* A promise not yet created is in no other state than "unused".           *)
FreshUnused == \A a \in Attempts : a > created => pool[a] = "unused"

(***************************************************************************)
(* The inductive invariant.  The properties alone are not inductive: that  *)
(* a new promise cannot be mistaken for an old one needs FreshUnused and   *)
(* TakenCreated, and that an eviction hits no other promise CacheOwned.    *)
(***************************************************************************)
PoolsInv ==
  /\ PoolTypeOK
  /\ CacheOwned
  /\ TakenCreated
  /\ FreshUnused
  /\ NoPoolLeak
  /\ CacheIsUsable
  /\ ClosedOnce

LEMMA PoolsInitially == PoolInit => PoolsInv
<1> SUFFICES ASSUME PoolInit PROVE PoolsInv
  OBVIOUS
<1> USE DEF PoolInit, Attempts, Closers, None
<1>1. PoolTypeOK
  BY ConnsAssumption, MaxAttemptsAssumption, ShutdownsAssumption
     DEF PoolTypeOK, PoolState, Fulfilled, Settled
<1>2. CacheOwned /\ TakenCreated /\ FreshUnused
  BY DEF CacheOwned, TakenCreated, FreshUnused
<1>3. NoPoolLeak /\ CacheIsUsable /\ ClosedOnce
  BY DEF NoPoolLeak, CacheIsUsable, ClosedOnce, Live
<1> QED
  BY <1>1, <1>2, <1>3 DEF PoolsInv

(* Steps that leave the cache, the pools and the closers alone.            *)
LEMMA CallerStepInv ==
  ASSUME PoolsInv, PoolTypeOK', UNCHANGED <<created, poolCache, pool, owner, closer, taken>>
  PROVE  PoolsInv'
BY DEF PoolsInv, CacheOwned, TakenCreated, FreshUnused, NoPoolLeak,
       CacheIsUsable, ClosedOnce, BeingClosed, Live, Attempts

LEMMA GetPoolInv ==
  ASSUME PoolsInv, NEW c \in Callers, NEW conn \in Conns, GetPool(c, conn)
  PROVE  PoolsInv'
<1> USE DEF None
<1>1. CASE poolCache[conn] # None /\ ShareCached(c, conn)
  <2>1. PoolTypeOK'
    BY <1>1 DEF PoolsInv, PoolTypeOK, GetPool, ShareCached
  <2> QED
    BY <1>1, <2>1, CallerStepInv DEF GetPool, ShareCached
<1>2. CASE poolCache[conn] = None /\ StartConnecting(c, conn)
  <2> DEFINE a == created + 1
  <2>1. /\ a \in Attempts
        /\ created' = a
        /\ pool' = [pool EXCEPT ![a] = "connecting"]
        /\ owner' = [owner EXCEPT ![a] = conn]
        /\ poolCache' = [poolCache EXCEPT ![conn] = a]
        /\ handle' = [handle EXCEPT ![c] = a]
        /\ UNCHANGED <<closer, taken>>
    BY <1>2 DEF GetPool, StartConnecting
  <2>2. created \in Nat /\ a > created /\ a \in Nat \ {0}
    BY <2>1, MaxAttemptsAssumption DEF PoolsInv, PoolTypeOK, Attempts
  <2>3. PoolTypeOK'
    BY <2>1, <2>2
       DEF PoolsInv, PoolTypeOK, GetPool, PoolState, Attempts
  <2>4. \A k \in Closers : taken[k] \subseteq Attempts /\ a \notin taken[k]
    BY <2>1, <2>2 DEF PoolsInv, PoolTypeOK, TakenCreated
  <2>5. \A d \in Conns : poolCache[d] # a
    BY <2>2 DEF PoolsInv, PoolTypeOK, CacheOwned
  <2>6. CacheOwned' /\ TakenCreated' /\ FreshUnused'
    BY <2>1, <2>2, <2>4, <2>5
       DEF PoolsInv, PoolTypeOK, CacheOwned, TakenCreated, FreshUnused, Attempts
  <2>7. NoPoolLeak'
    <3> SUFFICES ASSUME NEW b \in Attempts, Live(b)'
                 PROVE  poolCache'[owner'[b]] = b \/ BeingClosed(b)'
      BY DEF NoPoolLeak
    <3>1. CASE b = a
      BY <3>1, <2>1 DEF PoolsInv, PoolTypeOK
    <3>2. CASE b # a
      <4>1. Live(b) /\ owner'[b] = owner[b]
        BY <3>2, <2>1 DEF PoolsInv, PoolTypeOK, Live
      <4>2. poolCache[owner[b]] = b \/ BeingClosed(b)
        BY <4>1 DEF PoolsInv, NoPoolLeak
      <4>3. b # 0
        BY DEF Attempts
      <4> QED
        BY <4>1, <4>2, <4>3, <1>2, <2>1 DEF PoolsInv, PoolTypeOK, BeingClosed
    <3> QED BY <3>1, <3>2
  <2>8. CacheIsUsable'
    BY <2>1, <2>5 DEF PoolsInv, PoolTypeOK, CacheIsUsable, Live
  <2>9. ClosedOnce'
    BY <2>1, <2>4 DEF PoolsInv, PoolTypeOK, ClosedOnce
  <2> QED
    BY <2>3, <2>6, <2>7, <2>8, <2>9 DEF PoolsInv
<1> QED
  BY <1>1, <1>2 DEF GetPool

(* A pool that goes from one state to the next, while nothing else moves.  *)
(* It is the attempt's own step (connecting to open or failing), or a step *)
(* of its close (open to closing, closing to settled).                     *)
LEMMA PoolStepInv ==
  ASSUME PoolsInv, NEW a \in Attempts, NEW s,
         pool' = [pool EXCEPT ![a] = s],
         \/ pool[a] = "connecting" /\ s \in {"failing", "open"}
         \/ /\ pool[a] \in {"open", "closing"}
            /\ s \in {"closing", "closed", "broken"}
            /\ \A conn \in Conns : poolCache[conn] # a,
         UNCHANGED <<created, poolCache, owner, pc, handle, closer, taken>>
  PROVE  PoolsInv'
<1> USE DEF None
<1>1. PoolTypeOK'
  BY DEF PoolsInv, PoolTypeOK, PoolState, Fulfilled
<1>2. CacheOwned' /\ TakenCreated' /\ FreshUnused'
  BY DEF PoolsInv, PoolTypeOK, CacheOwned, TakenCreated, FreshUnused
<1>3. NoPoolLeak'
  BY DEF PoolsInv, PoolTypeOK, NoPoolLeak, Live, BeingClosed
<1>4. CacheIsUsable'
  BY DEF PoolsInv, PoolTypeOK, CacheIsUsable, Live
<1>5. ClosedOnce'
  BY DEF PoolsInv, ClosedOnce
<1> QED
  BY <1>1, <1>2, <1>3, <1>4, <1>5 DEF PoolsInv

LEMMA EvictInv ==
  ASSUME PoolsInv, NEW a \in Attempts, EvictAndReject(a)
  PROVE  PoolsInv'
<1> USE DEF None
<1>1. /\ pool[a] = "failing"
      /\ pool' = [pool EXCEPT ![a] = "rejected"]
      /\ poolCache' = [poolCache EXCEPT
                         ![owner[a]] = IF poolCache[owner[a]] = a THEN 0
                                       ELSE poolCache[owner[a]]]
      /\ UNCHANGED <<created, owner, pc, handle, closer, taken>>
  BY DEF EvictAndReject
<1>2. \A conn \in Conns :
        poolCache'[conn] = IF poolCache[conn] = a THEN 0 ELSE poolCache[conn]
  BY <1>1 DEF PoolsInv, PoolTypeOK, CacheOwned, Attempts
<1>3. PoolTypeOK'
  BY <1>1 DEF PoolsInv, PoolTypeOK, PoolState, Settled
<1>4. CacheOwned' /\ TakenCreated' /\ FreshUnused'
  BY <1>1, <1>2
     DEF PoolsInv, PoolTypeOK, CacheOwned, TakenCreated, FreshUnused
<1>5. NoPoolLeak'
  BY <1>1, <1>2
     DEF PoolsInv, PoolTypeOK, NoPoolLeak, Live, BeingClosed
<1>6. CacheIsUsable'
  BY <1>1, <1>2 DEF PoolsInv, PoolTypeOK, CacheIsUsable, Live
<1>7. ClosedOnce'
  <2>1. \A k \in Closers : 0 \notin taken[k]
    BY DEF PoolsInv, PoolTypeOK, Attempts
  <2> QED
    BY <1>1, <1>2, <2>1 DEF PoolsInv, PoolTypeOK, ClosedOnce
<1> QED
  BY <1>3, <1>4, <1>5, <1>6, <1>7 DEF PoolsInv

LEMMA TakePoolsInv ==
  ASSUME PoolsInv, NEW k \in Closers, TakePools(k)
  PROVE  PoolsInv'
<1> USE DEF None
<1>1. /\ closer[k] = "idle"
      /\ closer' = [closer EXCEPT ![k] = "closing"]
      /\ taken' = [taken EXCEPT ![k] = Cached]
      /\ poolCache' = [conn \in Conns |-> 0]
      /\ UNCHANGED <<created, pool, owner, pc, handle>>
  BY DEF TakePools, IsNextCloser
<1>2. Cached \subseteq Attempts
  BY DEF PoolsInv, PoolTypeOK, Cached
<1>3. PoolTypeOK'
  BY <1>1, <1>2 DEF PoolsInv, PoolTypeOK
<1>4. CacheOwned' /\ FreshUnused' /\ CacheIsUsable'
  BY <1>1 DEF PoolsInv, CacheOwned, FreshUnused, CacheIsUsable
<1>5. TakenCreated'
  BY <1>1 DEF PoolsInv, PoolTypeOK, TakenCreated, CacheOwned, Cached
<1>6. NoPoolLeak'
  <2> SUFFICES ASSUME NEW a \in Attempts, Live(a) PROVE BeingClosed(a)'
    BY <1>1 DEF NoPoolLeak, Live
  <2>1. CASE poolCache[owner[a]] = a
    <3>1. a \in Cached
      BY <2>1 DEF PoolsInv, PoolTypeOK, Cached, Attempts
    <3> QED
      BY <3>1, <1>1 DEF PoolsInv, PoolTypeOK, BeingClosed
  <2>2. CASE BeingClosed(a)
    BY <2>2, <1>1 DEF PoolsInv, PoolTypeOK, BeingClosed
  <2> QED
    BY <2>1, <2>2 DEF PoolsInv, NoPoolLeak
<1>7. ClosedOnce'
  <2>1. \A j \in Closers : 0 \notin taken'[j]
    BY <1>1, <1>2 DEF PoolsInv, PoolTypeOK, Attempts
  <2>2. \A j \in Closers : Cached \cap taken[j] = {}
    BY DEF PoolsInv, ClosedOnce, Cached
  <2> QED
    BY <1>1, <2>1, <2>2 DEF PoolsInv, PoolTypeOK, ClosedOnce
<1> QED
  BY <1>3, <1>4, <1>5, <1>6, <1>7 DEF PoolsInv

LEMMA CloseReturnsInv ==
  ASSUME PoolsInv, NEW k \in Closers, CloseReturns(k)
  PROVE  PoolsInv'
<1> USE DEF None
<1>1. /\ closer[k] = "closing"
      /\ \A a \in taken[k] : pool[a] \in Settled
      /\ closer' = [closer EXCEPT ![k] = "done"]
      /\ UNCHANGED <<created, poolCache, pool, owner, pc, handle, taken>>
  BY DEF CloseReturns
<1>2. PoolTypeOK'
  BY <1>1 DEF PoolsInv, PoolTypeOK
<1>3. CacheOwned' /\ TakenCreated' /\ FreshUnused' /\ CacheIsUsable' /\ ClosedOnce'
  BY <1>1
     DEF PoolsInv, CacheOwned, TakenCreated, FreshUnused, CacheIsUsable, ClosedOnce, Live
<1>4. NoPoolLeak'
  BY <1>1
     DEF PoolsInv, PoolTypeOK, NoPoolLeak, BeingClosed, Live, Settled
<1> QED
  BY <1>2, <1>3, <1>4 DEF PoolsInv

LEMMA PoolsAreKept == PoolsInv /\ [PoolNext]_poolVars => PoolsInv'
<1> SUFFICES ASSUME PoolsInv, [PoolNext]_poolVars PROVE PoolsInv'
  OBVIOUS
<1>1. ASSUME NEW c \in Callers, NEW conn \in Conns, GetPool(c, conn) PROVE PoolsInv'
  BY <1>1, GetPoolInv
<1>2. ASSUME NEW c \in Callers, PoolReady(c) \/ PoolRefused(c) \/ Finish(c)
      PROVE  PoolsInv'
  <2>1. PoolTypeOK'
    BY <1>2 DEF PoolsInv, PoolTypeOK, PoolReady, PoolRefused, Finish
  <2> QED
    BY <1>2, <2>1, CallerStepInv DEF PoolReady, PoolRefused, Finish
<1>3. ASSUME NEW a \in Attempts, Connected(a) PROVE PoolsInv'
  BY <1>3, PoolStepInv DEF Connected
<1>4. ASSUME NEW a \in Attempts, ConnectFails(a) PROVE PoolsInv'
  BY <1>4, PoolStepInv DEF ConnectFails
<1>5. ASSUME NEW a \in Attempts, EvictAndReject(a) PROVE PoolsInv'
  BY <1>5, EvictInv
<1>6. ASSUME NEW a \in Attempts, CloseSettles(a) PROVE PoolsInv'
  <2>1. PICK s \in {"closed", "broken"} : pool' = [pool EXCEPT ![a] = s]
    BY <1>6 DEF CloseSettles
  <2>2. \A conn \in Conns : poolCache[conn] # a
    BY <1>6
       DEF CloseSettles, PoolsInv, CacheIsUsable, Live, Attempts, None
  <2> QED
    BY <1>6, <2>1, <2>2, PoolStepInv DEF CloseSettles
<1>7. ASSUME NEW k \in Closers, TakePools(k) PROVE PoolsInv'
  BY <1>7, TakePoolsInv
<1>8. ASSUME NEW k \in Closers, CloseReturns(k) PROVE PoolsInv'
  BY <1>8, CloseReturnsInv
<1>9. ASSUME NEW k \in Closers, NEW a \in Attempts, CloseTaken(k, a)
      PROVE  PoolsInv'
  <2>1. \A conn \in Conns : poolCache[conn] # a
    BY <1>9 DEF CloseTaken, PoolsInv, ClosedOnce
  <2> QED
    BY <1>9, <2>1, PoolStepInv DEF CloseTaken
<1>10. CASE UNCHANGED poolVars
  <2>1. PoolTypeOK'
    BY <1>10 DEF PoolsInv, PoolTypeOK, poolVars
  <2> QED
    BY <1>10, <2>1, CallerStepInv DEF poolVars
<1> QED
  BY <1>1, <1>2, <1>3, <1>4, <1>5, <1>6, <1>7, <1>8, <1>9, <1>10 DEF PoolNext

(* Every reachable state of the driver satisfies the inductive invariant.  *)
THEOREM PoolsInvariant == PoolSpec => []PoolsInv
BY PoolsInitially, PoolsAreKept, PTL DEF PoolSpec

(* The variables of the driver stay within their types.                    *)
THEOREM PoolTypesHold == PoolSpec => []PoolTypeOK
<1>1. PoolsInv => PoolTypeOK
  BY DEF PoolsInv
<1> QED
  BY <1>1, PoolsInvariant, PTL

(* getPool and closeSqlServerPools never drop a pool that is, or may yet   *)
(* be, connected: it is cached, or a closer still waits to close it.       *)
THEOREM PoolsDoNotLeak == PoolSpec => []NoPoolLeak
<1>1. PoolsInv => NoPoolLeak
  BY DEF PoolsInv
<1> QED
  BY <1>1, PoolsInvariant, PTL

(* Callers of one connection string never hold two live pools of it, but   *)
(* for one that a shutdown is closing.                                     *)
THEOREM OnePoolEach == PoolSpec => []CallersShareOnePool
<1>1. PoolsInv => CallersShareOnePool
  BY DEF PoolsInv, PoolTypeOK, NoPoolLeak, CallersShareOnePool
<1> QED
  BY <1>1, PoolsInvariant, PTL

(* getPool never finds a refused promise, or a pool that is being closed.  *)
THEOREM CachedPoolsAreUsable == PoolSpec => []CacheIsUsable
<1>1. PoolsInv => CacheIsUsable
  BY DEF PoolsInv
<1> QED
  BY <1>1, PoolsInvariant, PTL

(* Overlapping shutdowns take, and so close, each pool once.               *)
THEOREM PoolsCloseOnce == PoolSpec => []ClosedOnce
<1>1. PoolsInv => ClosedOnce
  BY DEF PoolsInv
<1> QED
  BY <1>1, PoolsInvariant, PTL

(* No step evicts a live promise other than the failing one's own .catch   *)
(* and a shutdown that takes it.                                           *)
THEOREM PoolsEvictThemselves == PoolSpec => EvictsOnlyItself
<1> DEFINE Keeps ==
      \A conn \in Conns :
        LET a == poolCache[conn]
        IN a # None /\ poolCache'[conn] # a
             => \/ pool[a] = "failing"
                \/ \E k \in Closers : a \in taken'[k] \ taken[k]
<1>1. PoolsInv /\ [PoolNext]_poolVars => [Keeps]_poolVars
  <2> SUFFICES ASSUME PoolsInv, PoolNext PROVE Keeps
    OBVIOUS
  <2> SUFFICES ASSUME NEW conn \in Conns, poolCache[conn] # None,
                      poolCache'[conn] # poolCache[conn]
               PROVE  \/ pool[poolCache[conn]] = "failing"
                      \/ \E k \in Closers :
                           poolCache[conn] \in taken'[k] \ taken[k]
    OBVIOUS
  <2>1. ASSUME NEW c \in Callers, NEW d \in Conns, GetPool(c, d) PROVE FALSE
    BY <2>1
       DEF GetPool, ShareCached, StartConnecting, PoolsInv, PoolTypeOK
  <2>2. ASSUME NEW a \in Attempts, EvictAndReject(a)
        PROVE  pool[poolCache[conn]] = "failing"
    BY <2>2 DEF EvictAndReject, PoolsInv, PoolTypeOK
  <2>3. ASSUME NEW k \in Closers, TakePools(k)
        PROVE  poolCache[conn] \in taken'[k] \ taken[k]
    BY <2>3 DEF TakePools, PoolsInv, PoolTypeOK, ClosedOnce, Cached
  <2> QED
    BY <2>1, <2>2, <2>3
       DEF PoolNext, PoolReady, PoolRefused, Finish, Connected, ConnectFails,
           CloseSettles, CloseReturns, CloseTaken
<1> QED
  BY <1>1, PoolsInvariant, PTL DEF PoolSpec, EvictsOnlyItself


----------------------------------------------------------------------------
(***************************************************************************)
(* The composition.                                                        *)
(***************************************************************************)

(* Which call of closeSqlServerPools each shutdown waits, or waited, for.  *)
ClosersNumbered ==
  \A k \in Stops :
    /\ stopper[k] \in {"pools", "done"} =>
         closerOf[k] \in Closers /\ closer[closerOf[k]] \in {"closing", "done"}
    /\ stopper[k] = "done" => closer[closerOf[k]] = "done"

(* What is cached after a shutdown took the cache was made after it.       *)
CachedAreNewer ==
  \A k \in Stops :
    /\ newest[k] <= created
    /\ stopper[k] \in {"pools", "done"} =>
         \A conn \in Conns : poolCache[conn] # None => poolCache[conn] > newest[k]

(* The session of a tool call was initialized, and may be closed by now.   *)
CallsHaveSessions ==
  \A c \in Callers : by[c] # NoSession => transport[by[c]] \in {"open", "closed"}

(* Nothing is busy when the process ends.                                  *)
ExitsIdle ==
  /\ httpCloser # NoStop => stopper[httpCloser] = "done"
  /\ exited => httpCloser # NoStop /\ ~Answering

OwnTypes ==
  /\ by \in [Callers -> SessionIds \cup {NoSession}]
  /\ httpCloser \in Stops \cup {NoStop}
  /\ closerOf \in [Stops -> Closers \cup {NoStop}]
  /\ newest \in [Stops -> 0 .. MaxAttempts]
  /\ streams \in SUBSET SessionIds
  /\ exited \in BOOLEAN

(***************************************************************************)
(* The inductive invariant: those of the parts, and what ties them.        *)
(* ExitIsOrderly is not inductive: that a pool the exiting shutdown leaves *)
(* open is a newer one needs CachedAreNewer with the pools' NoPoolLeak,    *)
(* and that a session it met is closed the sessions' DrainedAreGone.       *)
(***************************************************************************)
ServerInv ==
  /\ SessionsInv
  /\ PoolsInv
  /\ OwnTypes
  /\ ClosersNumbered
  /\ CachedAreNewer
  /\ CallsHaveSessions
  /\ ExitsIdle

----------------------------------------------------------------------------
(***************************************************************************)
(* Every step of the server is a step of its sessions and of its pools.    *)
(***************************************************************************)

LEMMA StepsOfSessions == [ServerNext]_serverVars => [Next]_vars
  <1> SUFFICES ASSUME ServerNext PROVE [Next]_vars
    BY DEF serverVars
  <1>1. CASE SessionStep
    BY <1>1 DEF SessionStep, Next
  <1>2. ASSUME NEW s \in SessionIds, StreamOpens(s) \/ StreamEnds(s) PROVE [Next]_vars
    BY <1>2 DEF StreamOpens, StreamEnds, Next, SessionNext
  <1>3. ASSUME NEW c \in Callers, NEW s \in SessionIds, CallBegins(c, s) PROVE [Next]_vars
    BY <1>3 DEF CallBegins, Next, SessionNext
  <1>4. ASSUME NEW c \in Callers, CallGetsPool(c) \/ CallEnds(c) PROVE [Next]_vars
    BY <1>4 DEF CallGetsPool, CallEnds
  <1>5. CASE PoolStep \/ Exits
    BY <1>5 DEF PoolStep, Exits
  <1>6. ASSUME NEW k \in Stops, ShutdownNext(k) PROVE [Next]_vars
    BY <1>6 DEF ShutdownNext, StopClosesSessions, StopTakesPools,
                StopPoolsClosed, StopEnds, HttpCloses, Next, StopNext
  <1> QED
    BY <1>1, <1>2, <1>3, <1>4, <1>5, <1>6 DEF ServerNext, RunningNext

LEMMA StepsOfPools ==
  ASSUME ClosersNumbered, [ServerNext]_serverVars
  PROVE  PoolNext \/ UNCHANGED poolVars
  <1> SUFFICES ASSUME ServerNext PROVE PoolNext \/ UNCHANGED poolVars
    BY DEF serverVars
  <1> USE DEF Attempts, Closers, None
  <1>1. CASE SessionStep \/ Exits
    BY <1>1 DEF SessionStep, Exits
  <1>2. ASSUME NEW s \in SessionIds, StreamOpens(s) \/ StreamEnds(s)
        PROVE  UNCHANGED poolVars
    BY <1>2 DEF StreamOpens, StreamEnds
  <1>3. ASSUME NEW c \in Callers, NEW s \in SessionIds, CallBegins(c, s)
        PROVE  UNCHANGED poolVars
    BY <1>3 DEF CallBegins
  <1>4. ASSUME NEW c \in Callers, CallGetsPool(c) \/ CallEnds(c)
        PROVE  PoolNext \/ UNCHANGED poolVars
    <2>1. ASSUME NEW conn \in Conns, GetPool(c, conn) PROVE PoolNext
      BY <2>1 DEF GetPool, ShareCached, StartConnecting, PoolNext
    <2>2. CASE PoolReady(c) \/ PoolRefused(c) \/ Finish(c)
      BY <2>2 DEF PoolReady, PoolRefused, Finish, Fulfilled, PoolNext
    <2> QED
      BY <1>4, <2>1, <2>2 DEF CallGetsPool, CallEnds
  <1>5. CASE PoolStep
    <2>1. ASSUME NEW a \in Attempts,
                 Connected(a) \/ ConnectFails(a)
                   \/ EvictAndReject(a) \/ CloseSettles(a)
          PROVE  PoolNext
      BY <2>1 DEF Connected, ConnectFails, EvictAndReject, CloseSettles, PoolNext
    <2>2. ASSUME NEW j \in Closers, NEW a \in Attempts, CloseTaken(j, a)
          PROVE  PoolNext
      BY <2>2 DEF CloseTaken, PoolNext
    <2> QED
      BY <1>5, <2>1, <2>2 DEF PoolStep
  <1>6. ASSUME NEW k \in Stops, ShutdownNext(k)
        PROVE  PoolNext \/ UNCHANGED poolVars
    <2>1. ASSUME NEW j \in Closers, TakePools(j) PROVE PoolNext
      BY <2>1 DEF TakePools, IsNextCloser, Cached, PoolNext
    <2>2. ASSUME StopPoolsClosed(k) PROVE PoolNext
      BY <2>2 DEF StopPoolsClosed, ClosersNumbered, CloseReturns, Settled,
                  PoolNext
    <2> QED
      BY <1>6, <2>1, <2>2 DEF ShutdownNext, StopClosesSessions, StopTakesPools,
                              StopEnds, HttpCloses
  <1> QED
    BY <1>1, <1>2, <1>3, <1>4, <1>5, <1>6 DEF ServerNext, RunningNext

(***************************************************************************)
(* The invariant.                                                          *)
(***************************************************************************)

LEMMA ServerInvInitially == ServerInit => ServerInv
  <1> SUFFICES ASSUME ServerInit PROVE ServerInv
    OBVIOUS
  <1>1. SessionsInv
    BY InvInitially DEF ServerInit
  <1>2. PoolInit
    BY DEF ServerInit
  <1>3. PoolsInv
    BY <1>2, StopsAssumption, ShutdownsAssumption, MaxAttemptsAssumption, PoolsInitially
  <1>4. OwnTypes
    <2>1. exited \in BOOLEAN
      BY DEF ServerInit
    <2>2. newest \in [Stops -> 0 .. MaxAttempts]
      BY MaxAttemptsAssumption DEF ServerInit
    <2> QED
      BY <2>1, <2>2 DEF ServerInit, OwnTypes
  <1>5. ClosersNumbered /\ CachedAreNewer /\ CallsHaveSessions /\ ExitsIdle
    BY DEF ServerInit, Init, PoolInit, ClosersNumbered, CachedAreNewer,
           CallsHaveSessions, ExitsIdle
  <1> QED
    BY <1>1, <1>3, <1>4, <1>5 DEF ServerInv

(* What is proved of the parts is kept, whatever step the server takes.    *)
LEMMA PartsAreKept ==
  ASSUME ServerInv, [ServerNext]_serverVars
  PROVE  SessionsInv' /\ PoolsInv'
  <1>1. SessionsInv'
    BY StepsOfSessions, InvIsKept DEF ServerInv
  <1>2. PoolNext \/ UNCHANGED poolVars
    BY StepsOfPools DEF ServerInv
  <1>3. PoolsInv'
    BY <1>2, StopsAssumption, ShutdownsAssumption, MaxAttemptsAssumption, PoolsAreKept
       DEF poolVars, ServerInv
  <1> QED
    BY <1>1, <1>3

(* A session step leaves the calls to sessions that were initialized.      *)
LEMMA TransportsAdvance ==
  ASSUME SessionsInv, [Next]_vars, NEW s \in SessionIds,
         transport[s] \in {"open", "closed"}
  PROVE  transport'[s] \in {"open", "closed"}
  <1> USE DEF SessionsInv, TypeOK, history
  <1>1. CASE Tick \/ UNCHANGED vars
    BY <1>1 DEF Tick, vars
  <1>2. CASE Sweep
    BY <1>2 DEF Sweep
  <1>3. ASSUME NEW r \in SessionIds, SessionNext(r)
        PROVE  transport'[s] \in {"open", "closed"}
    BY <1>3 DEF SessionNext, InitializeRequest, SessionInitialized,
                InitializeFails, FoundExpired, Served,
                ServedWhileExpiring, Deleted
  <1>4. ASSUME NEW k \in Stops, StopNext(k)
        PROVE  transport'[s] \in {"open", "closed"}
    BY <1>4 DEF StopNext, StopDrains, StopCloses, StopTurnsToPools, StopReturns
  <1> QED
    BY <1>1, <1>2, <1>3, <1>4 DEF Next

(* Steps of the sessions and of their calls, which leave the shutdowns,    *)
(* the pools and the end of the process where they are.                    *)
LEMMA RequestStepsKeep ==
  ASSUME ServerInv, SessionsInv', PoolsInv', [Next]_vars, ~exited,
         UNCHANGED <<stopper, created, poolCache, closer, httpCloser, exited, closerOf, newest>>,
         streams' \in SUBSET SessionIds, by' \in [Callers -> SessionIds \cup {NoSession}],
         \A c \in Callers : \/ by'[c] = by[c]
                            \/ by'[c] = NoSession
                            \/ by'[c] \in stored
  PROVE  ServerInv'
  <1>1. OwnTypes'
    BY DEF ServerInv, OwnTypes, Closers
  <1>2. ClosersNumbered' /\ CachedAreNewer'
    BY DEF ServerInv, ClosersNumbered, CachedAreNewer, Closers, None
  <1>3. CallsHaveSessions'
    BY TransportsAdvance
       DEF ServerInv, CallsHaveSessions, OwnTypes, SessionsInv, OpenIsHeld, TypeOK
  <1>4. ExitsIdle'
    BY DEF ServerInv, ExitsIdle
  <1> QED
    BY <1>1, <1>2, <1>3, <1>4 DEF ServerInv

(* Steps of the pools alone: what a connection or a call in progress does. *)
LEMMA PoolStepsKeep ==
  ASSUME ServerInv, PoolsInv', ~exited,
         UNCHANGED <<vars, streams, httpCloser, exited, closerOf, newest>>,
         UNCHANGED closer, created' \in {created, created + 1},
         \A conn \in Conns : poolCache'[conn] \in {poolCache[conn], None, created + 1},
         by' \in [Callers -> SessionIds \cup {NoSession}],
         \A c \in Callers : by'[c] \in {by[c], NoSession}
  PROVE  ServerInv'
  <1>0. created \in Nat /\ newest \in [Stops -> Nat]
    BY MaxAttemptsAssumption DEF ServerInv, OwnTypes, PoolsInv, PoolTypeOK
  <1>1. OwnTypes' /\ SessionsInv'
    BY DEF ServerInv, OwnTypes, Closers, SessionsInv, TypeOK, OpenIsHeld,
           DrainedAreGone, IdleHasNone, ExpiryIsRenewed, Gone, vars,
           history
  <1>2. ClosersNumbered'
    BY DEF ServerInv, ClosersNumbered, Closers, vars
  <1>3. CachedAreNewer'
    BY <1>0 DEF ServerInv, CachedAreNewer, None, vars
  <1>4. CallsHaveSessions' /\ ExitsIdle'
    BY DEF ServerInv, CallsHaveSessions, ExitsIdle, vars
  <1> QED
    BY <1>1, <1>2, <1>3, <1>4 DEF ServerInv

(* Steps of one shutdown.                                                  *)
LEMMA ShutdownStepsKeep ==
  ASSUME ServerInv, SessionsInv', PoolsInv', ~exited, NEW k \in Stops, ShutdownNext(k),
         [Next]_vars
  PROVE  ServerInv'
  <1>0. /\ created \in 0 .. MaxAttempts
        /\ closer \in [Closers -> {"idle", "closing", "done"}]
        /\ newest \in [Stops -> 0 .. MaxAttempts]
    BY DEF ServerInv, OwnTypes, PoolsInv, PoolTypeOK, Closers
  <1>1. CallsHaveSessions'
    <2>1. UNCHANGED by
      BY DEF ShutdownNext, StopClosesSessions, StopTakesPools, StopPoolsClosed,
             StopEnds, HttpCloses
    <2> QED
      BY <2>1, TransportsAdvance DEF ServerInv, CallsHaveSessions, OwnTypes
  <1>2. CASE StopClosesSessions(k)
    <2>1. /\ UNCHANGED <<poolVars, by, httpCloser, exited, closerOf, newest>>
          /\ streams' \in SUBSET SessionIds
      BY <1>2 DEF StopClosesSessions, StreamsOfOpen, ServerInv, OwnTypes
    <2>2. \A j \in Stops : stopper'[j] \in {"pools", "done"} => stopper'[j] = stopper[j]
      BY <1>2
         DEF StopClosesSessions, StopDrains, StopCloses, ServerInv, SessionsInv, TypeOK
    <2>3. \A j \in Stops : stopper[j] = "done" => stopper'[j] = "done"
      BY <1>2
         DEF StopClosesSessions, StopDrains, StopCloses, ServerInv, SessionsInv, TypeOK
    <2> QED
      BY <1>1, <2>1, <2>2, <2>3 DEF ServerInv, OwnTypes, ClosersNumbered,
                                    CachedAreNewer,
                                    ExitsIdle,
                                    poolVars,
                                    Closers, None
  <1>3. CASE StopTakesPools(k)
    <2>1. PICK j \in Closers :
            TakePools(j) /\ closerOf' = [closerOf EXCEPT ![k] = j]
      BY <1>3 DEF StopTakesPools
    <2>2. /\ stopper[k] = "sessions" /\ stopper' = [stopper EXCEPT ![k] = "pools"]
          /\ newest' = [newest EXCEPT ![k] = created]
          /\ UNCHANGED <<by, streams, httpCloser, exited, created>>
          /\ closer[j] = "idle" /\ closer' = [closer EXCEPT ![j] = "closing"]
          /\ poolCache' = [conn \in Conns |-> None]
      BY <1>3, <2>1
         DEF StopTakesPools, StopTurnsToPools, TakePools, IsNextCloser
    <2>3. OwnTypes'
      BY <1>0, <2>1, <2>2 DEF ServerInv, OwnTypes, Closers
    <2>4. ClosersNumbered'
      BY <1>0, <2>1, <2>2 DEF ServerInv, SessionsInv, TypeOK, OwnTypes,
                              ClosersNumbered, Closers
    <2>5. CachedAreNewer'
      BY <1>0, <2>2 DEF ServerInv, SessionsInv, TypeOK, CachedAreNewer, None
    <2>6. ExitsIdle'
      BY <2>2 DEF ServerInv, SessionsInv, TypeOK, ExitsIdle
    <2> QED
      BY <1>1, <2>3, <2>4, <2>5, <2>6 DEF ServerInv
  <1>4. CASE StopPoolsClosed(k)
    <2>1. /\ UNCHANGED <<vars, by, streams, httpCloser, exited, closerOf, newest,
                         created, poolCache>>
          /\ closer' = [closer EXCEPT ![closerOf[k]] = "done"]
      BY <1>4 DEF StopPoolsClosed, CloseReturns
    <2>2. OwnTypes' /\ CachedAreNewer' /\ ExitsIdle'
      BY <2>1
         DEF ServerInv, OwnTypes, CachedAreNewer, ExitsIdle, Closers, None, vars
    <2>3. ClosersNumbered'
      BY <1>0, <2>1 DEF ServerInv, OwnTypes, ClosersNumbered, Closers, vars
    <2> QED
      BY <1>1, <2>2, <2>3 DEF ServerInv
  <1>5. CASE StopEnds(k)
    BY <1>1, <1>5 DEF StopEnds, StopReturns, ServerInv, SessionsInv, TypeOK,
                      OwnTypes, ClosersNumbered,
                      CachedAreNewer, ExitsIdle, poolVars,
                      Closers, None
  <1>6. CASE HttpCloses(k)
    BY <1>1, <1>6 DEF HttpCloses, ServerInv, OwnTypes, ClosersNumbered,
                      CachedAreNewer, ExitsIdle, vars,
                      poolVars, Closers, None
  <1> QED
    BY <1>2, <1>3, <1>4, <1>5, <1>6 DEF ShutdownNext

LEMMA ServerInvIsKept == ServerInv /\ [ServerNext]_serverVars => ServerInv'
  <1> SUFFICES ASSUME ServerInv, [ServerNext]_serverVars PROVE ServerInv'
    OBVIOUS
  <1>1. SessionsInv' /\ PoolsInv' /\ [Next]_vars
    BY PartsAreKept, StepsOfSessions
  <1>2. CASE UNCHANGED serverVars
    BY <1>1, <1>2 DEF serverVars, poolVars, vars, ServerInv, OwnTypes,
                      ClosersNumbered, CachedAreNewer,
                      CallsHaveSessions, ExitsIdle, Answering,
                      Closers, None
  <1>3. CASE ServerNext
    <2>0. ~exited
      BY <1>3 DEF ServerNext
    <2>1. CASE SessionStep
      <3>1. UNCHANGED <<stopper, poolVars, by, httpCloser, exited, closerOf, newest>>
        BY <2>1 DEF SessionStep, Tick, Sweep, SessionNext, InitializeRequest,
                    SessionInitialized, InitializeFails,
                    FoundExpired, Served, ServedWhileExpiring,
                    Deleted
      <3>2. streams' \in SUBSET SessionIds
        BY <2>1 DEF SessionStep, StreamsOfOpen, ServerInv, OwnTypes
      <3> QED
        BY <1>1, <2>0, <3>1, <3>2, RequestStepsKeep DEF poolVars, ServerInv, OwnTypes
    <2>2. ASSUME NEW s \in SessionIds, StreamOpens(s) \/ StreamEnds(s) PROVE ServerInv'
      <3>1. /\ UNCHANGED <<stopper, poolVars, by, httpCloser, exited, closerOf, newest>>
            /\ streams' \in SUBSET SessionIds
        BY <2>2 DEF StreamOpens, StreamEnds, Served, vars, ServerInv, OwnTypes
      <3> QED
        BY <1>1, <2>0, <3>1, RequestStepsKeep DEF poolVars, ServerInv, OwnTypes
    <2>3. ASSUME NEW c \in Callers, NEW s \in SessionIds, CallBegins(c, s)
          PROVE  ServerInv'
      <3>1. /\ UNCHANGED <<stopper, poolVars, streams, httpCloser, exited, closerOf, newest>>
            /\ by' = [by EXCEPT ![c] = s] /\ s \in stored
        BY <2>3 DEF CallBegins, Served
      <3>2. /\ by' \in [Callers -> SessionIds \cup {NoSession}]
            /\ \A d \in Callers : by'[d] = by[d] \/ by'[d] \in stored
        BY <3>1 DEF ServerInv, OwnTypes
      <3> QED
        BY <1>1, <2>0, <3>1, <3>2, RequestStepsKeep DEF poolVars, ServerInv, OwnTypes
    <2>4. ASSUME NEW c \in Callers, CallGetsPool(c) \/ CallEnds(c) PROVE ServerInv'
      <3>1. /\ UNCHANGED <<vars, streams, httpCloser, exited, closerOf, newest, closer>>
            /\ \/ UNCHANGED by
               \/ by' = [by EXCEPT ![c] = NoSession]
        BY <2>4 DEF CallGetsPool, CallEnds, GetPool, PoolReady, PoolRefused,
                    Finish, poolVars
      <3>2. /\ by' \in [Callers -> SessionIds \cup {NoSession}]
            /\ \A d \in Callers : by'[d] \in {by[d], NoSession}
        BY <3>1 DEF ServerInv, OwnTypes
      <3>3. /\ created' \in {created, created + 1}
            /\ \A conn \in Conns :
                 poolCache'[conn] \in {poolCache[conn], None, created + 1}
        BY <2>4 DEF CallGetsPool, CallEnds, GetPool, PoolReady, PoolRefused,
                    Finish, ShareCached, StartConnecting,
                    poolVars, ServerInv, PoolsInv, PoolTypeOK
      <3> QED
        BY <1>1, <2>0, <3>1, <3>2, <3>3, PoolStepsKeep
    <2>5. CASE PoolStep
      <3>1. /\ UNCHANGED <<vars, by, streams, httpCloser, exited, closerOf, newest, closer,
                           created>>
            /\ \A conn \in Conns : poolCache'[conn] \in {poolCache[conn], None}
        BY <2>5 DEF PoolStep, Connected, ConnectFails, EvictAndReject,
                    CloseSettles, CloseTaken, ServerInv,
                    PoolsInv, PoolTypeOK
      <3>2. /\ by' \in [Callers -> SessionIds \cup {NoSession}]
            /\ \A d \in Callers : by'[d] \in {by[d], NoSession}
        BY <3>1 DEF ServerInv, OwnTypes
      <3> QED
        BY <1>1, <2>0, <3>1, <3>2, PoolStepsKeep
    <2>6. ASSUME NEW k \in Stops, ShutdownNext(k) PROVE ServerInv'
      BY <1>1, <2>0, <2>6, ShutdownStepsKeep
    <2>7. CASE Exits
      BY <1>1, <2>7 DEF Exits, ServerInv, OwnTypes, ClosersNumbered,
                        CachedAreNewer, CallsHaveSessions,
                        ExitsIdle, Answering, vars, poolVars,
                        Closers, None
    <2> QED
      BY <1>3, <2>1, <2>2, <2>3, <2>4, <2>5, <2>6, <2>7 DEF ServerNext, RunningNext
  <1> QED
    BY <1>2, <1>3

(* The invariants of the sessions, of the pools and of their composition   *)
(* hold together in every state of the server.                             *)
THEOREM ServerInvariant == ServerSpec => []ServerInv
  BY ServerInvInitially, ServerInvIsKept, PTL DEF ServerSpec

----------------------------------------------------------------------------

(* Sessions, pools, streams and shutdowns keep their types, for any number *)
(* of each.                                                                *)
THEOREM ServerTypesHold == ServerSpec => []ServerTypeOK
  <1>1. ServerInv => ServerTypeOK
    BY DEF ServerInv, SessionsInv, OwnTypes, ServerTypeOK, PoolsInv, PoolTypeOK,
           PoolState, Fulfilled, Settled, Attempts, None, Closers
  <1> QED
    BY <1>1, ServerInvariant, PTL

(* The server, its streams and its end change nothing of how the sessions  *)
(* and stop() work: every behaviour of the server is one of Sessions, so   *)
(* that a session leaves the store only for cause.                         *)
THEOREM ServerSessionsLeaveForCause == ServerSpec => LeavesForCause
  <1>1. ServerInit => Init
    BY DEF ServerInit
  <1>2. ServerSpec => Spec
    BY <1>1, StepsOfSessions, PTL DEF ServerSpec, Spec
  <1> QED
    BY <1>2, SessionsLeaveForCause

(* In the server as in the store: what is stored is open, what is open is  *)
(* held (resolveSession, the sweep, stop()).                               *)
THEOREM ServerSessionsAreHeld == ServerSpec => []OpenIsHeld
  <1>1. ServerInv => OpenIsHeld
    BY DEF ServerInv, SessionsInv
  <1> QED
    BY <1>1, ServerInvariant, PTL

(* No pool leaks while shutdowns, requests and expiring sessions overlap:  *)
(* what may still be connected is cached or being closed (getPool and      *)
(* closeSqlServerPools under stop()).                                      *)
THEOREM ServerPoolsDoNotLeak == ServerSpec => []NoPoolLeak
  <1>1. ServerInv => NoPoolLeak
    BY DEF ServerInv, PoolsInv, NoPoolLeak, Live, BeingClosed, Attempts, Closers
  <1> QED
    BY <1>1, ServerInvariant, PTL

(* When the process exits, the shutdown that ends it leaves only pools     *)
(* made after it took the cache, sessions out of its reach, what another   *)
(* shutdown holds, and calls whose session is closed (startServer's close  *)
(* and the signal handlers, for any number of signals and requests).       *)
THEOREM ServerExitsInOrder == ServerSpec => []ExitIsOrderly
  <1>1. ASSUME ServerInv, exited PROVE ExitIsOrderly
    <2>1. /\ httpCloser \in Stops /\ stopper[httpCloser] = "done"
          /\ closer[closerOf[httpCloser]] = "done" /\ ~Answering
      BY <1>1 DEF ServerInv, OwnTypes, ExitsIdle, ClosersNumbered
    <2>2. ASSUME NEW a \in Attempts, Live(a)
          PROVE  \/ a > newest[httpCloser]
                 \/ \E j \in Closers \ {closerOf[httpCloser]} :
                      closer[j] = "closing" /\ a \in taken[j]
      <3>1. poolCache[owner[a]] = a \/ \E j \in Closers : closer[j] = "closing" /\ a \in taken[j]
        BY <1>1, <2>2 DEF ServerInv, PoolsInv, NoPoolLeak, Live, BeingClosed,
                          Attempts, Closers
      <3>2. owner[a] \in Conns /\ a # None
        BY <1>1, <2>2 DEF ServerInv, PoolsInv, PoolTypeOK, Attempts, None
      <3> QED
        BY <1>1, <2>1, <3>1, <3>2 DEF ServerInv, CachedAreNewer
    <2>3. ASSUME NEW s \in SessionIds, transport[s] = "open", s \in met[httpCloser]
          PROVE  \/ s \in lapsed \cup unclosed
                 \/ \E k \in Stops : stopper[k] = "sessions" /\ s \in drained[k]
      BY <1>1, <2>1, <2>3 DEF ServerInv, SessionsInv, OpenIsHeld, DrainedAreGone, Gone
    <2>4. ASSUME NEW c \in Callers, by[c] # NoSession PROVE transport[by[c]] = "closed"
      BY <1>1, <2>1, <2>4 DEF ServerInv, CallsHaveSessions, Answering
    <2> QED
      BY <2>2, <2>3, <2>4 DEF ExitIsOrderly
  <1>2. ServerInv => ExitIsOrderly
    BY <1>1 DEF ExitIsOrderly
  <1> QED
    BY <1>2, ServerInvariant, PTL

=============================================================================
