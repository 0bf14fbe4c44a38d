----------------------------- MODULE CatalogSync -----------------------------
(***************************************************************************)
(* The column catalog file and the processes that share it.                *)
(*                                                                         *)
(* The server keeps the catalog in memory (anonymization/catalog.js): each *)
(* anonymized query refreshes it when the file's mtime changed, decides on *)
(* it, records what it observed, and flushes the targets it changed, at    *)
(* most every two seconds.  The command line tools (cli/anon-catalog.js,   *)
(* cli/anon-classify.js) are processes of their own that load the file,    *)
(* edit the human verdicts, and save the whole of it.  Nobody locks the    *)
(* file; a save replaces it by rename, so a read never sees half of one.   *)
(*                                                                         *)
(* refresh and flush run without an await, so only another process's step  *)
(* falls between their system calls: the actions of the server are one     *)
(* system call each.  A file's content is its human verdicts and, for each *)
(* target, how many observations its section has accumulated.              *)
(***************************************************************************)
EXTENDS Naturals

CONSTANTS
  Columns,   (* Columns a human may give a verdict on.                      *)
  Targets,   (* target_ids the server answers queries on.                   *)
  Clis,      (* Command line processes.                                     *)
  MaxWrites, (* Bound: writes of the file.                                  *)
  MaxUses    (* Bound: observations of a target.                            *)

ASSUME MaxWritesAssumption == MaxWrites \in Nat
ASSUME MaxUsesAssumption == MaxUses \in Nat

Verdicts == {"none", "safe", "sensitive"}
Human == [Columns -> Verdicts]
Uses == [Targets -> 0 .. MaxUses]
Content == [human : Human, uses : Uses]

(* readCatalogFile of a file that does not exist.                          *)
EmptyCatalog ==
  [human |-> [c \in Columns |-> "none"], uses |-> [t \in Targets |-> 0]]

VARIABLES
  disk,       (* What the file holds.                                       *)
  mtime,      (* Its modification time, the number of writes so far; 0 is a *)
              (* file not yet created (statSync throws ENOENT).             *)
  memory,     (* The server's copy.                                         *)
  lastMtime,  (* lastMtimeMs, 0 for -1.                                     *)
  dirty,      (* dirtyTargets.                                              *)
  throttled,  (* The last flush is less than FLUSH_MIN_INTERVAL_MS old.     *)
  failed,     (* lastError is set.                                          *)
  srv,        (* The server's next system call, see ServerState.            *)
  forced,     (* The flush under way is flushAllCatalogs'.                  *)
  stat,       (* The mtime refresh has just read.                           *)
  read,       (* What flush has just read of the file.                      *)
  cli,        (* Where each command line process is: idle or editing.       *)
  copy        (* What it loaded.                                            *)

server == <<memory, lastMtime, dirty, throttled, failed, srv, forced, stat, read>>

(***************************************************************************)
(* History variables, which no action of the code reads.                   *)
(***************************************************************************)
VARIABLES
  seen,       (* Every human section the file held since the query began.   *)
  overtaken,  (* A command line save fell between a flush's read and its    *)
              (* rename.                                                    *)
  blind,      (* A command line save fell between a flush's rename and its  *)
              (* stat, and the server has not read the file since.          *)
  published   (* The most observations of each target the file ever held.   *)

history == <<seen, overtaken, blind, published>>
vars == <<disk, mtime, server, cli, copy, history>>

ServerState ==
  {"idle",      (* Between two queries.                                     *)
   "read",      (* refresh found a new mtime and reads the file.            *)
   "decide",    (* refresh returned: the query masks by what is in memory.  *)
   "unread",    (* The same, when refresh could not read the file.          *)
   "reread",    (* flush reads the file.                                    *)
   "write",     (* flush writes and renames the temporary file.             *)
   "restat",    (* flush reads the mtime of its own write.                  *)
   "flushed",   (* flushAllCatalogs returns.                                *)
   "down"}      (* No server process.                                       *)

Init ==
  /\ disk = EmptyCatalog
  /\ mtime = 0
  /\ memory = EmptyCatalog
  /\ lastMtime = 0
  /\ dirty = {}
  /\ throttled = FALSE
  /\ failed = FALSE
  /\ srv = "idle"
  /\ forced = FALSE
  /\ stat = 0
  /\ read = EmptyCatalog
  /\ cli = [k \in Clis |-> "idle"]
  /\ copy = [k \in Clis |-> EmptyCatalog]
  /\ seen = {}
  /\ overtaken = FALSE
  /\ blind = FALSE
  /\ published = EmptyCatalog.uses

(* The sections of `own` for the targets in ids over those of `base`.      *)
Overlay(base, own, ids) == [t \in Targets |-> IF t \in ids THEN own[t] ELSE base[t]]

(* The larger of two numbers of observations, target by target.            *)
AtLeast(u, v) == [t \in Targets |-> IF u[t] < v[t] THEN v[t] ELSE u[t]]

(* The file is replaced by rename.                                         *)
Rename(content) ==
  /\ mtime < MaxWrites
  /\ mtime' = mtime + 1
  /\ disk' = content
  /\ published' = AtLeast(published, content.uses)

files == <<disk, mtime, cli, copy>>

----------------------------------------------------------------------------
(***************************************************************************)
(* refresh: called when a query has its rows and is about to mask them.    *)
(***************************************************************************)
RefreshStat ==
  /\ srv = "idle"
  /\ srv' = IF mtime = 0 \/ mtime = lastMtime THEN "decide" ELSE "read"
  /\ lastMtime' = IF mtime = 0 THEN 0 ELSE lastMtime
  /\ stat' = IF srv' = "read" THEN mtime ELSE 0
  /\ seen' = {disk.human}
  /\ UNCHANGED <<files, memory, dirty, throttled, failed, forced, read,
                 overtaken, blind, published>>

(* Mutated form: the file wins over the sections not yet flushed.          *)
RefreshDiscardingDirty ==
  /\ srv = "read"
  /\ srv' = "decide"
  /\ memory' = disk
  /\ lastMtime' = stat
  /\ failed' = FALSE
  /\ stat' = 0
  /\ blind' = FALSE
  /\ UNCHANGED <<files, dirty, throttled, forced, read, seen, overtaken, published>>

(* "Disk wins for human verdicts (CLI edits); in-memory wins for targets   *)
(* we are writing."                                                        *)
RefreshRead ==
  /\ srv = "read"
  /\ srv' = "decide"
  /\ memory' = [human |-> disk.human, uses |-> Overlay(disk.uses, memory.uses, dirty)]
  /\ lastMtime' = stat
  /\ failed' = FALSE
  /\ stat' = 0
  /\ blind' = FALSE
  /\ UNCHANGED <<files, dirty, throttled, forced, read, seen, overtaken, published>>

(* statSync or readFileSync throws: the server goes on with what it has.   *)
RefreshFails ==
  /\ srv = "read"
  /\ srv' = "unread"
  /\ failed' = TRUE
  /\ stat' = 0
  /\ UNCHANGED <<files, memory, lastMtime, dirty, throttled, forced, read, history>>

(***************************************************************************)
(* record, after the query has decided: the observations are merged into   *)
(* the target's section and flush is called.                               *)
(***************************************************************************)
RecordNothing ==
  /\ srv \in {"decide", "unread"}
  /\ srv' = "idle"
  /\ seen' = {}
  /\ UNCHANGED <<files, memory, lastMtime, dirty, throttled, failed, forced, stat, read,
                 overtaken, blind, published>>

Record(t) ==
  /\ srv \in {"decide", "unread"}
  /\ memory.uses[t] < MaxUses
  /\ memory' = [memory EXCEPT !.uses[t] = @ + 1]
  /\ dirty' = dirty \cup {t}
  /\ srv' = IF throttled THEN "idle" ELSE "reread"
  /\ forced' = FALSE
  /\ seen' = {}
  /\ UNCHANGED <<files, lastMtime, throttled, failed, stat, read,
                 overtaken, blind, published>>

ThrottleElapses ==
  /\ throttled
  /\ throttled' = FALSE
  /\ UNCHANGED <<files, memory, lastMtime, dirty, failed, srv, forced, stat, read, history>>

(***************************************************************************)
(* flush: read the file, put the dirty sections over it, write, stat.      *)
(***************************************************************************)
FlushRead ==
  /\ srv = "reread"
  /\ srv' = "write"
  /\ read' = disk
  /\ UNCHANGED <<files, memory, lastMtime, dirty, throttled, failed, forced, stat, history>>

(* Mutated form: what is in memory is written, the file is not read again. *)
FlushWriteMemory ==
  /\ srv = "write"
  /\ srv' = "restat"
  /\ Rename([human |-> memory.human, uses |-> Overlay(read.uses, memory.uses, dirty)])
  /\ memory' = [memory EXCEPT !.human = read.human]
  /\ blind' = FALSE
  /\ UNCHANGED <<lastMtime, dirty, throttled, failed, forced, stat, read, cli, copy,
                 seen, overtaken>>

(* Mutated form: the human verdicts just read are not taken into memory.   *)
FlushWriteKeepingHuman ==
  /\ srv = "write"
  /\ srv' = "restat"
  /\ Rename([human |-> read.human, uses |-> Overlay(read.uses, memory.uses, dirty)])
  /\ blind' = FALSE
  /\ UNCHANGED <<memory, lastMtime, dirty, throttled, failed, forced, stat, read, cli, copy,
                 seen, overtaken>>

FlushWrite ==
  /\ srv = "write"
  /\ srv' = "restat"
  /\ Rename([human |-> read.human, uses |-> Overlay(read.uses, memory.uses, dirty)])
  /\ memory' = [memory EXCEPT !.human = read.human]
  /\ blind' = FALSE
  /\ UNCHANGED <<lastMtime, dirty, throttled, failed, forced, stat, read, cli, copy,
                 seen, overtaken>>

(* Where flush returns to: record's caller, or flushAllCatalogs.           *)
AfterFlush == IF forced THEN "flushed" ELSE "idle"

(* Mutated form: the time of the flush is taken from the clock, later than *)
(* the file's.                                                             *)
FlushStatByClock ==
  /\ srv = "restat"
  /\ srv' = AfterFlush
  /\ lastMtime' = mtime + 1
  /\ dirty' = {}
  /\ throttled' = TRUE
  /\ failed' = FALSE
  /\ read' = EmptyCatalog
  /\ overtaken' = FALSE
  /\ UNCHANGED <<files, memory, forced, stat, seen, blind, published>>

FlushStat ==
  /\ srv = "restat"
  /\ srv' = AfterFlush
  /\ lastMtime' = mtime
  /\ dirty' = {}
  /\ throttled' = TRUE
  /\ failed' = FALSE
  /\ read' = EmptyCatalog
  /\ overtaken' = FALSE
  /\ UNCHANGED <<files, memory, forced, stat, seen, blind, published>>

(* Mutated form: a failed flush forgets what it had to write.              *)
FlushFailsClean ==
  /\ srv \in {"reread", "write", "restat"}
  /\ srv' = AfterFlush
  /\ failed' = TRUE
  /\ dirty' = {}
  /\ read' = EmptyCatalog
  /\ overtaken' = FALSE
  /\ UNCHANGED <<files, memory, lastMtime, throttled, forced, stat, seen, blind, published>>

(* readFileSync, writeFileSync, renameSync or the last statSync throws.    *)
FlushFails ==
  /\ srv \in {"reread", "write", "restat"}
  /\ srv' = AfterFlush
  /\ failed' = TRUE
  /\ read' = EmptyCatalog
  /\ overtaken' = FALSE
  /\ UNCHANGED <<files, memory, lastMtime, dirty, throttled, forced, stat, seen, blind, published>>

(***************************************************************************)
(* Shutdown and crashes.                                                   *)
(***************************************************************************)

(* Mutated form: the flush at shutdown is throttled like any other.        *)
ThrottledFlushAll ==
  /\ srv = "idle"
  /\ srv' = IF dirty = {} \/ throttled THEN "flushed" ELSE "reread"
  /\ forced' = TRUE
  /\ UNCHANGED <<files, memory, lastMtime, dirty, throttled, failed, stat, read, history>>

(* flushAllCatalogs, from the server's stop(): flush with force.           *)
FlushAll ==
  /\ srv = "idle"
  /\ srv' = IF dirty = {} THEN "flushed" ELSE "reread"
  /\ forced' = TRUE
  /\ UNCHANGED <<files, memory, lastMtime, dirty, throttled, failed, stat, read, history>>

(* Requests still open after stop() go on being answered.                  *)
FlushAllReturns ==
  /\ srv = "flushed"
  /\ srv' = "idle"
  /\ forced' = FALSE
  /\ UNCHANGED <<files, memory, lastMtime, dirty, throttled, failed, stat, read, history>>

(* The process exits or is killed, at any moment.                          *)
Crash ==
  /\ srv # "down"
  /\ srv' = "down"
  /\ memory' = EmptyCatalog
  /\ lastMtime' = 0
  /\ dirty' = {}
  /\ throttled' = FALSE
  /\ failed' = FALSE
  /\ forced' = FALSE
  /\ stat' = 0
  /\ read' = EmptyCatalog
  /\ seen' = {}
  /\ overtaken' = FALSE
  /\ blind' = FALSE
  /\ UNCHANGED <<files, published>>

(* A new process: createCatalog, whose first refresh is the first query's. *)
Restart ==
  /\ srv = "down"
  /\ srv' = "idle"
  /\ UNCHANGED <<files, memory, lastMtime, dirty, throttled, failed, forced, stat, read, history>>

(***************************************************************************)
(* Command line processes: runCli, and acceptCommand of anon-classify.     *)
(***************************************************************************)
CliLoad(k) ==
  /\ cli[k] = "idle"
  /\ cli' = [cli EXCEPT ![k] = "editing"]
  /\ copy' = [copy EXCEPT ![k] = disk]
  /\ UNCHANGED <<disk, mtime, server, history>>

(* set gives a column a verdict, unset removes the one it has.             *)
CliSave(k) ==
  /\ cli[k] = "editing"
  /\ \E c \in Columns, v \in Verdicts :
       /\ v = "none" => copy[k].human[c] # "none"
       /\ Rename([copy[k] EXCEPT !.human[c] = v])
  /\ cli' = [cli EXCEPT ![k] = "idle"]
  /\ copy' = [copy EXCEPT ![k] = EmptyCatalog]
  /\ seen' = IF srv \in {"read", "decide", "unread"} THEN seen \cup {disk'.human} ELSE seen
  /\ overtaken' = (overtaken \/ srv = "write")
  /\ blind' = (blind \/ srv = "restat")
  /\ UNCHANGED server

----------------------------------------------------------------------------

ServerNext ==
  \/ RefreshStat \/ RefreshRead \/ RefreshFails
  \/ RecordNothing \/ (\E t \in Targets : Record(t)) \/ ThrottleElapses
  \/ FlushRead \/ FlushWrite \/ FlushStat \/ FlushFails
  \/ FlushAll \/ FlushAllReturns \/ Crash \/ Restart

CliNext == \E k \in Clis : CliLoad(k) \/ CliSave(k)

Next == ServerNext \/ CliNext

Spec == Init /\ [][Next]_vars

----------------------------------------------------------------------------

TypeOK ==
  /\ disk \in Content
  /\ mtime \in 0 .. MaxWrites
  /\ memory \in Content
  /\ lastMtime \in 0 .. MaxWrites
  /\ dirty \in SUBSET Targets
  /\ throttled \in BOOLEAN
  /\ failed \in BOOLEAN
  /\ srv \in ServerState
  /\ forced \in BOOLEAN
  /\ stat \in 0 .. MaxWrites
  /\ read \in Content
  /\ cli \in [Clis -> {"idle", "editing"}]
  /\ copy \in [Clis -> Content]
  /\ seen \in SUBSET Human
  /\ overtaken \in BOOLEAN
  /\ blind \in BOOLEAN
  /\ published \in Uses

(* A flush keeps the human verdicts: the server changes none in the file,  *)
(* unless a command line save fell between the flush's read and its rename *)
(* ("Re-read so human verdicts written by the CLI in the meantime are      *)
(* preserved").                                                            *)
FlushKeepsVerdicts ==
  [][disk'.human # disk.human => (\E k \in Clis : cli'[k] # cli[k]) \/ overtaken]_vars

(* The same without the exception, as the comment in flush has it: a human *)
(* verdict in the file changes only when the command line saves one.       *)
OnlyCliChangesVerdicts ==
  [][disk'.human # disk.human => \E k \in Clis : cli'[k] # cli[k]]_vars

(* A query masks by human verdicts the file held at some moment since the  *)
(* query refreshed the catalog, unless a save fell between the rename and  *)
(* the stat of the last flush, whose mtime then passes for the flush's own.*)
QueriesSeeVerdicts == srv = "decide" => blind \/ memory.human \in seen

(* Whatever is refreshed or flushed, in whatever order, the observations   *)
(* of a target that still has to be written are never forgotten by a       *)
(* running server.                                                         *)
UnwrittenIsKept ==
  [][srv' # "down" =>
       \A t \in dirty : memory'.uses[t] >= memory.uses[t]]_vars

(* What the server no longer holds to be written has been written: no      *)
(* failed write, refresh or restart marks an unwritten section as clean.   *)
CleanIsPublished == \A t \in Targets \ dirty : memory.uses[t] <= published[t]

(* "Shutdown forces a flush of the catalog": when flushAllCatalogs returns *)
(* without a failure to report, nothing is left to write.                  *)
ShutdownFlushes == srv = "flushed" => dirty = {} \/ failed

=============================================================================
