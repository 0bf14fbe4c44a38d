--------------------------- MODULE ServerLifecycle ---------------------------
(***************************************************************************)
(* The process of server.js: the sessions and stop() of Sessions, the      *)
(* connection pools of SqlPools, the requests that use both, the event     *)
(* streams clients keep open, and the end of the process.                  *)
(*                                                                         *)
(* Each SIGINT or SIGTERM starts a shutdown: stop(), which closes the      *)
(* sessions, then the pools, then flushes the catalogs; then               *)
(* server.close(), which waits for the connections that are busy; then     *)
(* process.exit(0).  The server accepts requests until server.close(), and *)
(* a connection that is kept alive may carry one after it, so that a       *)
(* session can begin after the store was drained and a pool after the      *)
(* cache was taken.  A second signal starts a second shutdown, and the     *)
(* first of them to reach the end takes the process with it.               *)
(*                                                                         *)
(* The HTTP server and the transports are external (Node and the MCP SDK): *)
(* a connection is busy while a request on it is unanswered or its event   *)
(* stream is open, and closing a transport ends the responses it holds     *)
(* while the tool calls behind them run on.                                *)
(***************************************************************************)
EXTENDS Sessions, SqlPools

ASSUME StopsAssumption == Stops = 1 .. Shutdowns

VARIABLES
  by,         (* The session of each tool call that is in progress.         *)
  streams,    (* The sessions whose client holds its event stream open.     *)
  httpCloser, (* The shutdown that called server.close() first.             *)
  exited,     (* The process has ended.                                     *)
  closerOf,   (* The call of closeSqlServerPools of each shutdown.          *)
  newest      (* History: the last pool made when a shutdown took the cache *)

serverVars == <<vars, poolVars, by, streams, httpCloser, exited, closerOf, newest>>

NoSession == "none"
NoStop == 0

ServerInit ==
  /\ Init
  /\ PoolInit
  /\ by = [c \in Callers |-> NoSession]
  /\ streams = {}
  /\ httpCloser = NoStop
  /\ exited = FALSE
  /\ closerOf = [k \in Stops |-> NoStop]
  /\ newest = [k \in Stops |-> 0]

(***************************************************************************)
(* Sessions and their event streams.  A transport that closes ends the     *)
(* stream it holds.                                                        *)
(***************************************************************************)
StreamsOfOpen == streams' = {s \in streams : transport'[s] = "open"}

(* What a session does by itself: initialize, lapse, be deleted, be swept. *)
SessionStep ==
  /\ Tick \/ Sweep \/ \E s \in SessionIds : SessionNext(s)
  /\ StreamsOfOpen
  /\ UNCHANGED <<poolVars, by, httpCloser, exited, closerOf, newest>>

(* GET: the transport of a session takes one event stream at a time.       *)
StreamOpens(s) ==
  /\ s \notin streams
  /\ Served(s)
  /\ streams' = streams \cup {s}
  /\ UNCHANGED <<poolVars, by, httpCloser, exited, closerOf, newest>>

StreamEnds(s) ==
  /\ s \in streams
  /\ streams' = streams \ {s}
  /\ UNCHANGED <<vars, poolVars, by, httpCloser, exited, closerOf, newest>>

(***************************************************************************)
(* Tool calls: a POST to a session, which asks for a pool, awaits it and   *)
(* queries.  The handler runs to its end even if its session is closed     *)
(* under it.                                                               *)
(***************************************************************************)
CallBegins(c, s) ==
  /\ by[c] = NoSession
  /\ Served(s)
  /\ by' = [by EXCEPT ![c] = s]
  /\ UNCHANGED <<poolVars, streams, httpCloser, exited, closerOf, newest>>

CallGetsPool(c) ==
  /\ by[c] # NoSession
  /\ (\E conn \in Conns : GetPool(c, conn)) \/ PoolReady(c)
  /\ UNCHANGED <<vars, by, streams, httpCloser, exited, closerOf, newest>>

(* Answered: refused before it asks for a pool, refused a pool, or run.    *)
CallEnds(c) ==
  /\ by[c] # NoSession
  /\ \/ pc[c] = "idle" /\ UNCHANGED poolVars
     \/ PoolRefused(c) \/ Finish(c)
  /\ by' = [by EXCEPT ![c] = NoSession]
  /\ UNCHANGED <<vars, streams, httpCloser, exited, closerOf, newest>>

(* Connecting and closing, on the driver's side.                           *)
PoolStep ==
  /\ \/ \E a \in Attempts :
          Connected(a) \/ ConnectFails(a)
            \/ EvictAndReject(a) \/ CloseSettles(a)
     \/ \E j \in Closers, a \in Attempts : CloseTaken(j, a)
  /\ UNCHANGED <<vars, by, streams, httpCloser, exited, closerOf, newest>>

(***************************************************************************)
(* A shutdown: stop(), server.close(), process.exit(0).                    *)
(***************************************************************************)
IsNextSignal(k) == \A j \in 1 .. k - 1 : stopper[j] # "idle"

StopClosesSessions(k) ==
  /\ \/ IsNextSignal(k) /\ StopDrains(k)
     \/ \E s \in SessionIds : StopCloses(k, s)
  /\ StreamsOfOpen
  /\ UNCHANGED <<poolVars, by, httpCloser, exited, closerOf, newest>>

(* A shutdown with less to close may overtake an earlier one.              *)
StopTakesPools(k) ==
  /\ StopTurnsToPools(k)
  /\ \E j \in Closers :
       TakePools(j) /\ closerOf' = [closerOf EXCEPT ![k] = j]
  /\ newest' = [newest EXCEPT ![k] = created]
  /\ UNCHANGED <<by, streams, httpCloser, exited>>

StopPoolsClosed(k) ==
  /\ stopper[k] = "pools"
  /\ CloseReturns(closerOf[k])
  /\ UNCHANGED <<vars, by, streams, httpCloser, exited, closerOf, newest>>

(* Mutated form: closeSqlPools is called and not awaited.                  *)
StopEndsUnawaited(k) ==
  /\ StopReturns(k)
  /\ UNCHANGED <<poolVars, by, streams, httpCloser, exited, closerOf, newest>>

(* closeSqlPools settled: the catalogs are flushed and stop() returns.     *)
StopEnds(k) ==
  /\ StopReturns(k)
  /\ closer[closerOf[k]] = "done"
  /\ UNCHANGED <<poolVars, by, streams, httpCloser, exited, closerOf, newest>>

(* server.close(): no new connection is accepted.  Of a later call only    *)
(* the callback remains, which fails at the same event and too late.       *)
HttpCloses(k) ==
  /\ stopper[k] = "done"
  /\ httpCloser = NoStop
  /\ httpCloser' = k
  /\ UNCHANGED <<vars, poolVars, by, streams, exited, closerOf, newest>>

(* The requests whose connection is busy: an initialize, or a tool call    *)
(* whose session is still there to answer it.                              *)
Answering ==
  \/ \E s \in SessionIds : transport[s] = "connecting"
  \/ \E c \in Callers : by[c] # NoSession /\ transport[by[c]] = "open"

(* The last busy connection ends, server.close() calls back, exit(0).      *)
Exits ==
  /\ httpCloser # NoStop
  /\ streams = {}
  /\ ~Answering
  /\ exited' = TRUE
  /\ UNCHANGED <<vars, poolVars, by, streams, httpCloser, closerOf, newest>>

----------------------------------------------------------------------------

ShutdownNext(k) ==
  \/ StopClosesSessions(k) \/ StopTakesPools(k) \/ StopPoolsClosed(k)
  \/ StopEnds(k) \/ HttpCloses(k)

RunningNext ==
  \/ SessionStep
  \/ \E s \in SessionIds : StreamOpens(s) \/ StreamEnds(s)
  \/ \E c \in Callers, s \in SessionIds : CallBegins(c, s)
  \/ \E c \in Callers : CallGetsPool(c) \/ CallEnds(c)
  \/ PoolStep
  \/ \E k \in Stops : ShutdownNext(k)
  \/ Exits

ServerNext == ~exited /\ RunningNext

(***************************************************************************)
(* The interval timer fires again and again while it is set; mssql ends a  *)
(* connection attempt and a query (connectionTimeout, requestTimeout); a   *)
(* transport's close and a pool's close settle; the event loop runs what   *)
(* is resolved.  Nothing makes a client end its stream or stop asking.     *)
(***************************************************************************)
Fairness ==
  /\ WF_serverVars(~exited /\ Sweep /\ SessionStep)
  /\ \A s \in SessionIds :
       WF_serverVars(/\ ~exited
                     /\ SessionInitialized(s) \/ InitializeFails(s)
                     /\ SessionStep)
  /\ \A c \in Callers : WF_serverVars(~exited /\ (CallGetsPool(c) \/ CallEnds(c)))
  /\ WF_serverVars(~exited /\ PoolStep)
  /\ \A k \in Stops :
       WF_serverVars(~exited /\ stopper[k] # "idle" /\ ShutdownNext(k))
  /\ WF_serverVars(~exited /\ Exits)

ServerSpec == ServerInit /\ [][ServerNext]_serverVars

FairServerSpec == ServerSpec /\ Fairness

----------------------------------------------------------------------------

ServerTypeOK ==
  /\ TypeOK
  /\ PoolTypeOK
  /\ by \in [Callers -> SessionIds \cup {NoSession}]
  /\ streams \in SUBSET SessionIds
  /\ httpCloser \in Stops \cup {NoStop}
  /\ exited \in BOOLEAN
  /\ closerOf \in [Stops -> Closers \cup {NoStop}]
  /\ newest \in [Stops -> 0 .. MaxAttempts]

(* What an exiting shutdown leaves behind, whatever other shutdowns and    *)
(* requests did meanwhile.  A pool that may still be connected was opened  *)
(* after this shutdown took the cache, or is being closed by another one.  *)
(* A session still open began after this shutdown drained the store, or    *)
(* was out of its reach: lapsed, failed to close, or in the hands of       *)
(* another one.  A tool call still running has lost its session and with   *)
(* it its client: none that could be answered is cut off.                  *)
ExitIsOrderly ==
  exited =>
    /\ \A a \in Attempts :
         Live(a) =>
           \/ a > newest[httpCloser]
           \/ \E j \in Closers \ {closerOf[httpCloser]} :
                closer[j] = "closing" /\ a \in taken[j]
    /\ \A s \in SessionIds :
         transport[s] = "open" /\ s \in met[httpCloser] =>
           \/ s \in lapsed \cup unclosed
           \/ \E k \in Stops : stopper[k] = "sessions" /\ s \in drained[k]
    /\ \A c \in Callers : by[c] # NoSession => transport[by[c]] = "closed"

(* A session stop() cannot close: its transport is open, and it lapsed,    *)
(* failed to close, or began after the shutdown that waits for it.         *)
OutOfReach(s) ==
  s \in lapsed \cup unclosed \/ \A k \in Stops : s \notin met[k]

(* A shutdown ends the process, unless requests keep arriving or a client  *)
(* keeps open the stream of a session that stop() cannot close.            *)
ShutdownExits ==
  \/ []<>(Answering \/ \E s \in streams : OutOfReach(s))
  \/ (\E k \in Stops : stopper[k] # "idle") ~> exited

=============================================================================
