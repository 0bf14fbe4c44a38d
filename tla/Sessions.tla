------------------------------ MODULE Sessions ------------------------------
(***************************************************************************)
(* The MCP sessions of server.js and lib/session-store.js, and stop().     *)
(*                                                                         *)
(* An initialize request makes a transport and, once the transport has     *)
(* given itself an id, stores it with a time to live that every later      *)
(* request renews.  A session leaves the store when its transport closes   *)
(* (DELETE, or onclose), when the sweep timer finds it expired and closes  *)
(* it, when a request finds it expired, or when stop() drains the store.   *)
(* The transports belong to the MCP SDK and are external: they initialize  *)
(* or fail, and close, which calls onclose, or throw.                      *)
(*                                                                         *)
(* The HTTP server goes on accepting requests while stop() runs, and each  *)
(* SIGINT or SIGTERM starts a stop() of its own: ServerLifecycle composes  *)
(* this module with the pools and with the end of the process.             *)
(***************************************************************************)
EXTENDS Naturals, FiniteSets

CONSTANTS
  SessionIds, (* Session ids, each initialized at most once.                *)
  Stops,      (* Calls of stop(), one for each signal.                      *)
  Ttls,       (* Possible SESSION_TTL_MS; 0 is never.                       *)
  MaxTime     (* Bound: the clock.                                          *)

ASSUME TtlsAssumption == Ttls \subseteq Nat /\ Ttls # {}
ASSUME MaxTimeAssumption == MaxTime \in Nat

VARIABLES
  ttl,       (* config.sessionTtlMs.                                        *)
  now,       (* Date.now().                                                 *)
  transport, (* The life of each transport.                                 *)
  stored,    (* The ids in the session store.                               *)
  expiresAt, (* Their time of expiry, NoExpiry when ttl is 0.               *)
  sweeping,  (* The sweep timer is set.                                     *)
  stopper,   (* Where each call of stop() is.                               *)
  drained    (* activeSessions: the sessions it still has to close.         *)

(* History variables, which no action of the code reads.                   *)
VARIABLES
  lastUse,   (* When a session was initialized or last given a request.     *)
  lapsed,    (* Sessions a request found expired and took out of the store. *)
  unclosed,  (* Sessions whose close() threw ("session.close_failed").      *)
  deleted,   (* Sessions a client deleted.                                  *)
  met        (* The sessions that were open when a stop() drained the store *)

history == <<lastUse, lapsed, unclosed, deleted, met>>
vars == <<ttl, now, transport, stored, expiresAt, sweeping, stopper, drained, history>>

(* The null of an entry that never expires: a real time of expiry is > 0.  *)
NoExpiry == 0

(* entry.expiresAt <= now, for a stored session.                           *)
ExpiredAt(s, time) == expiresAt[s] # NoExpiry /\ expiresAt[s] <= time

ExpiryFrom(time) == IF ttl = 0 THEN NoExpiry ELSE time + ttl

Init ==
  /\ ttl \in Ttls
  /\ now = 0
  /\ transport = [s \in SessionIds |-> "none"]
  /\ stored = {}
  /\ expiresAt = [s \in SessionIds |-> 0]
  /\ sweeping = TRUE
  /\ stopper = [k \in Stops |-> "idle"]
  /\ drained = [k \in Stops |-> {}]
  /\ lastUse = [s \in SessionIds |-> 0]
  /\ lapsed = {}
  /\ unclosed = {}
  /\ deleted = {}
  /\ met = [k \in Stops |-> {}]

Tick ==
  /\ now < MaxTime
  /\ now' = now + 1
  /\ UNCHANGED <<ttl, transport, stored, expiresAt, sweeping, stopper, drained, history>>

(***************************************************************************)
(* POST without a session id: createTransportForInitialization.            *)
(***************************************************************************)
InitializeRequest(s) ==
  /\ transport[s] = "none"
  /\ transport' = [transport EXCEPT ![s] = "connecting"]
  /\ UNCHANGED <<ttl, now, stored, expiresAt, sweeping, stopper, drained, history>>

(* onsessioninitialized: sessionStore.set.                                 *)
SessionInitialized(s) ==
  /\ transport[s] = "connecting"
  /\ transport' = [transport EXCEPT ![s] = "open"]
  /\ stored' = stored \cup {s}
  /\ expiresAt' = [expiresAt EXCEPT ![s] = ExpiryFrom(now)]
  /\ lastUse' = [lastUse EXCEPT ![s] = now]
  /\ UNCHANGED <<ttl, now, sweeping, stopper, drained,
                 lapsed, unclosed, deleted, met>>

(* server.connect or handleRequest fails first: no session was made.       *)
InitializeFails(s) ==
  /\ transport[s] = "connecting"
  /\ transport' = [transport EXCEPT ![s] = "closed"]
  /\ UNCHANGED <<ttl, now, stored, expiresAt, sweeping, stopper, drained, history>>

(***************************************************************************)
(* A request with a session id: resolveSession, which is get then touch.   *)
(* The clock may tick between the two, so that touch finds expired what    *)
(* get did not.                                                            *)
(***************************************************************************)

(* get, or touch, deletes an expired entry without closing its transport.  *)
Lapse(s) ==
  /\ stored' = stored \ {s}
  /\ lapsed' = lapsed \cup {s}

(* The request is answered 404.                                            *)
FoundExpired(s) ==
  /\ s \in stored
  /\ ExpiredAt(s, now)
  /\ Lapse(s)
  /\ UNCHANGED <<ttl, now, transport, expiresAt, sweeping, stopper, drained,
                 lastUse, unclosed, deleted, met>>

(* Mutated form: the session is served and not touched.                    *)
ServedUntouched(s) ==
  /\ s \in stored
  /\ ~ExpiredAt(s, now)
  /\ lastUse' = [lastUse EXCEPT ![s] = now]
  /\ UNCHANGED <<ttl, now, transport, stored, expiresAt, sweeping, stopper, drained,
                 lapsed, unclosed, deleted, met>>

(* The request is handed to the transport and the time to live renewed.    *)
Served(s) ==
  /\ s \in stored
  /\ ~ExpiredAt(s, now)
  /\ expiresAt' = [expiresAt EXCEPT ![s] = ExpiryFrom(now)]
  /\ lastUse' = [lastUse EXCEPT ![s] = now]
  /\ UNCHANGED <<ttl, now, transport, stored, sweeping, stopper, drained,
                 lapsed, unclosed, deleted, met>>

(* Served as well, but touch comes a tick after get and too late.          *)
ServedWhileExpiring(s) ==
  /\ s \in stored
  /\ ~ExpiredAt(s, now)
  /\ now < MaxTime
  /\ now' = now + 1
  /\ ExpiredAt(s, now')
  /\ Lapse(s)
  /\ lastUse' = [lastUse EXCEPT ![s] = now]
  /\ UNCHANGED <<ttl, transport, expiresAt, sweeping, stopper, drained,
                 unclosed, deleted, met>>

(* DELETE: the transport that was resolved closes itself, and its onclose  *)
(* deletes the session from the store.                                     *)
Deleted(s) ==
  /\ s \in stored
  /\ ~ExpiredAt(s, now)
  /\ transport' = [transport EXCEPT ![s] = "closed"]
  /\ stored' = stored \ {s}
  /\ deleted' = deleted \cup {s}
  /\ UNCHANGED <<ttl, now, expiresAt, sweeping, stopper, drained,
                 lastUse, lapsed, unclosed, met>>

(***************************************************************************)
(* The sweep timer: pruneExpired, then safeCloseTransport of each, which   *)
(* logs the close that throws.                                             *)
(***************************************************************************)

(* Mutated form: an expired session is pruned and its transport dropped.   *)
SweepWithoutClose ==
  LET expired == {s \in stored : ExpiredAt(s, now)}
  IN /\ sweeping
     /\ expired # {}
     /\ stored' = stored \ expired
     /\ UNCHANGED <<ttl, now, transport, expiresAt, sweeping, stopper, drained, history>>

Sweep ==
  LET expired == {s \in stored : ExpiredAt(s, now)}
  IN /\ sweeping
     /\ expired # {}
     /\ stored' = stored \ expired
     /\ \E failing \in SUBSET expired :
          /\ transport' = [s \in SessionIds |->
                             IF s \in expired \ failing THEN "closed" ELSE transport[s]]
          /\ unclosed' = unclosed \cup failing
     /\ UNCHANGED <<ttl, now, expiresAt, sweeping, stopper, drained,
                    lastUse, lapsed, deleted, met>>

(***************************************************************************)
(* stop(): clear the timer, drain the store, close the sessions one by     *)
(* one, then close the SQL pools, then flush the catalogs.  A close that   *)
(* throws is logged and the next one follows.                              *)
(***************************************************************************)

(* Mutated form: the store is emptied first, and then asked for what it    *)
(* holds.                                                                  *)
StopDrainsEmptied(k) ==
  /\ stopper[k] = "idle"
  /\ stopper' = [stopper EXCEPT ![k] = "sessions"]
  /\ sweeping' = FALSE
  /\ stored' = {}
  /\ drained' = [drained EXCEPT ![k] = stored']
  /\ met' = [met EXCEPT ![k] = {s \in SessionIds : transport[s] = "open"}]
  /\ UNCHANGED <<ttl, now, transport, expiresAt, lastUse, lapsed, unclosed, deleted>>

StopDrains(k) ==
  /\ stopper[k] = "idle"
  /\ stopper' = [stopper EXCEPT ![k] = "sessions"]
  /\ sweeping' = FALSE
  /\ drained' = [drained EXCEPT ![k] = stored]
  /\ stored' = {}
  /\ met' = [met EXCEPT ![k] = {s \in SessionIds : transport[s] = "open"}]
  /\ UNCHANGED <<ttl, now, transport, expiresAt, lastUse, lapsed, unclosed, deleted>>

StopCloses(k, s) ==
  /\ stopper[k] = "sessions"
  /\ s \in drained[k]
  /\ drained' = [drained EXCEPT ![k] = @ \ {s}]
  /\ \/ transport' = [transport EXCEPT ![s] = "closed"] /\ UNCHANGED unclosed
     \/ unclosed' = unclosed \cup {s} /\ UNCHANGED transport
  /\ UNCHANGED <<ttl, now, stored, expiresAt, sweeping, stopper,
                 lastUse, lapsed, deleted, met>>

(* Every session was closed: closeSqlPools is called and awaited.          *)
StopTurnsToPools(k) ==
  /\ stopper[k] = "sessions"
  /\ drained[k] = {}
  /\ stopper' = [stopper EXCEPT ![k] = "pools"]
  /\ UNCHANGED <<ttl, now, transport, stored, expiresAt, sweeping, drained, history>>

(* closeSqlPools settled, flushCatalogs was called, stop() returns.        *)
StopReturns(k) ==
  /\ stopper[k] = "pools"
  /\ stopper' = [stopper EXCEPT ![k] = "done"]
  /\ UNCHANGED <<ttl, now, transport, stored, expiresAt, sweeping, drained, history>>

----------------------------------------------------------------------------

SessionNext(s) ==
  \/ InitializeRequest(s) \/ SessionInitialized(s) \/ InitializeFails(s)
  \/ FoundExpired(s) \/ Served(s) \/ ServedWhileExpiring(s) \/ Deleted(s)

StopNext(k) ==
  \/ StopDrains(k)
  \/ \E s \in SessionIds : StopCloses(k, s)
  \/ StopTurnsToPools(k)
  \/ StopReturns(k)

Next ==
  \/ Tick
  \/ Sweep
  \/ \E s \in SessionIds : SessionNext(s)
  \/ \E k \in Stops : StopNext(k)

Spec == Init /\ [][Next]_vars

----------------------------------------------------------------------------

TypeOK ==
  /\ ttl \in Ttls
  /\ now \in 0 .. MaxTime
  /\ transport \in [SessionIds -> {"none", "connecting", "open", "closed"}]
  /\ stored \in SUBSET SessionIds
  /\ expiresAt \in [SessionIds -> Nat]
  /\ sweeping \in BOOLEAN
  /\ stopper \in [Stops -> {"idle", "sessions", "pools", "done"}]
  /\ drained \in [Stops -> SUBSET SessionIds]
  /\ lastUse \in [SessionIds -> 0 .. MaxTime]
  /\ lapsed \in SUBSET SessionIds
  /\ unclosed \in SUBSET SessionIds
  /\ deleted \in SUBSET SessionIds
  /\ met \in [Stops -> SUBSET SessionIds]

(* A request is only ever handed to an open transport: whatever closes a   *)
(* session, between any two requests, also takes it out of the store.  And *)
(* somebody will close an open transport: the store holds it for the sweep *)
(* and for stop(), or a stop() does, unless a request took it out of the   *)
(* store as expired or its close has already failed.                       *)
OpenIsHeld ==
  /\ \A s \in stored : transport[s] = "open"
  /\ \A s \in SessionIds :
       transport[s] = "open" =>
         \/ s \in stored
         \/ \E k \in Stops : stopper[k] = "sessions" /\ s \in drained[k]
         \/ s \in lapsed \cup unclosed

(* A session leaves the store only because its client deleted it, because  *)
(* a stop() took it, or after a full time to live without a new request,   *)
(* and never the last when sessions do not expire.                         *)
LeavesForCause ==
  [][\A s \in stored \ stored' :
       \/ s \in deleted' \/ (\E k \in Stops : s \in drained'[k])
       \/ ttl # 0 /\ now' >= lastUse[s] + ttl]_vars

=============================================================================
