# Verification of llm-sql-db-mcp

This directory holds TLA+ models of the `llm-sql-db-mcp` server, the TLC configurations
that check them on small instances, and theorems about them that TLAPS proves for every
instance. `PROJECT.json` is the index: which definition models which lines, what each run
checks, which hazards of the code the properties are for.

## 1. The system

An MCP server over HTTP gives language models access to SQL Server databases, the
*targets* of a targets file. It is one Node.js process: everything runs on one event loop,
so only an `await`, a timer, a signal, or another process can come between two steps.

| Component | State | Operations | Interacts with |
|---|---|---|---|
| Connection pools (`drivers/sqlserver.js`) | `poolCache`: connection string -> promise of a pool | `getPool`, `closeSqlServerPools` | called by every tool call; closed by `stop()` |
| Query execution (`drivers/sqlserver.js`) | one stream, one transaction per read | `executeSqlServerRead`, `executeSqlServerWrite`, `streamBoundedRows`, `describeColumnOrigins` | pools; handlers |
| Column catalog (`anonymization/catalog.js`) | in memory: human verdicts, evidence per target, dirty targets, last mtime; on disk: the same file | `refresh`, `lookup`, `record`, `flush`, `flushAllCatalogs` | every anonymized query; the command line tools through the file |
| Column evidence (`anonymization/catalog.js`, `core.js`) | one entry per target and column: status, counts, a sample of value hashes | `applyObservation`, `isEnumEvidence`, the decision for a cell | read and written by every anonymized query |
| Command line (`cli/anon-catalog.js`, `cli/anon-classify.js`) | the catalog and the proposals file, each loaded and saved whole; a copy of both per process | `set`, `unset`, `classify`, `accept`, `reject` | the catalog file, from other processes; a model, awaited between a load and a save |
| Sessions (`session-store.js`, `server.js`) | session id -> transport and expiry; sweep timer | initialize, request, event stream, DELETE, sweep, `stop()` | MCP SDK transports; `stop()` closes sessions, then pools, then flushes catalogs |
| Process (`server.js`) | the HTTP server, one shutdown per signal | `close()`, `process.exit` | `stop()`, then the connections that are still busy |
| Target registry (`target-registry.js`) | constant once loaded | normalize, override, validate, fence | read by policy and handlers |
| Tools (`handlers.js`, `policy-engine.js`, `anonymizer.js`, `sql-error-sanitizer.js`) | one call each | `db_read`, `db_write`, `run_diagnostic_query` | registry, guard, driver, anonymizer |
| Column anonymization (`anonymization/core.js`) | `LLM_KIND_CACHE`: target, tables and column -> kind, the least recently used evicted | `anonymizeRows`, `identifyFieldsWithProvider` | provider, catalog |
| SQL guard (`sql-guard.js`, `system-objects.js`) | none | `assertReadSafeSql`, `assertWriteSafeSql` | handlers, anonymizer |
| Providers (`providers/*.js`) | one request and its timer | `requestProviderChat` | a model over HTTP |
| Configuration, logging | none that matters | | |

What makes each correct, and what is hard about it:

- **Pools.** One pool per connection string however requests overlap; failed attempts are
  retried; no pool is lost, none closed twice. Hard: a failure arrives after a shutdown and
  a newer attempt; two signals overlap.
- **Catalog.** A human verdict is never overwritten by the server; a query masks by current
  verdicts; evidence not yet written survives refreshes and failures. Hard: the file is
  shared without a lock, "changed" means "another mtime", and `refresh` and `flush` are
  several system calls each.
- **Query execution.** An answer is the longest prefix of the rows within both caps, and a
  failure is never passed off as a short answer. Hard: cancelling is asynchronous, so rows
  and errors arrive after it, and the cancellation itself arrives as an error.
- **Column evidence.** A column is left in clear only on evidence that its values are an
  enumeration; once sensitive it stays masked. Hard: the sample of values is capped, a
  result that overflows it may come after the promotion, and status, reason, human verdict,
  provider and name rules override one another.
- **Command line.** A rejection stands, a verdict is never lost without a save overtaking
  another, `accept` accepts what was listed. Hard: no lock, two files, a wait for a model
  between reading and writing, interruption between the two saves.
- **Sessions.** What is stored is open, what is open is held by someone who will close it, a
  session ends only for cause. Hard: three ways to expire, the clock ticking within a
  request, overlapping `stop()` calls, closes that throw.
- **Process.** A signal ends the process, in order: what the exit leaves open began too late
  to be closed, or is in other hands. Hard: requests go on until `server.close()` and even
  after it, each signal starts a shutdown of its own, and the first to end takes the process
  with it.
- **Provider cache.** A column is decided by what the provider said of this column of this
  target, and a query keeps what it was told. Hard: other queries fill and evict the cache
  during the await, and the rows are masked some microtasks after the verdicts were read.
- **SQL guard.** What passes as a read only reads, what passes as a write is one statement
  (but for the texts of section 4), and a single statement passes. Hard: T-SQL needs no separator
  between statements, most of its statement keywords also stand within other statements,
  and queries, even changes, stand in parentheses.
- **Tools.** Production is read-only and masked whatever file and environment say; strict
  mode fails closed; a diagnostic query does not guess its target; errors quote no data (but
  see section 4). Hard: the result depends on four layers and
  each failure path has its own answer.

## 2. Modules

| Module | Models | Kind |
|---|---|---|
| `SqlPools` | `poolCache`, `getPool`, `closeSqlServerPools` | state machine |
| `CatalogSync` | the catalog file, the server's copy of it, the command line processes | state machine |
| `CatalogSyncProofs` | its inductive invariant and theorems | proofs |
| `Sessions` | session store, sweep, `stop()` | state machine |
| `ServerLifecycle` | the process: `Sessions` and `SqlPools` with tool calls, event streams, signals and the exit | composition |
| `ServerLifecycleProofs` | the invariants of `Sessions`, of `SqlPools` and of the composition, and theorems | proofs |
| `TargetRegistry` | from an entry of the targets file to a runtime target | operators |
| `DbTools` | the three tools over a registry | state machine |
| `DbToolsProofs` | its inductive invariant and theorems, from the file to the tools | proofs |
| `Proposals` | the command line processes over the proposals file and the catalog file | state machine |
| `ProposalsProofs` | its inductive invariant and theorems | proofs |
| `BoundedRows` | what a statement's rows become, seen from outside the driver | abstract specification |
| `ReadStream` | `executeSqlServerRead`, `streamBoundedRows`, `executeSqlServerWrite` | state machine, implements `BoundedRows` |
| `ReadStreamProofs` | its inductive invariant and theorems | proofs |
| `ColumnEvidence` | one column of one target over many queries: decision and evidence | state machine |
| `ColumnEvidenceProofs` | its inductive invariant and theorems | proofs |
| `VerdictRegister` | what the cache of verdicts promises a query | abstract specification |
| `ProviderCache` | `LLM_KIND_CACHE`, `identifyFieldsWithProvider`, `requestProviderChat` | state machine, implements `VerdictRegister` |
| `ProviderCacheProofs` | its inductive invariant, and the refinement | proofs |
| `SqlGuard` | the checks of `sql-guard.js` over tokens | operators |
| `SqlTexts` | T-SQL texts, clause by clause, with what they do | external grammar, as a state machine |
| `SqlTextsProofs` | what the guard finds in them: its inductive invariant and theorems | proofs |
| `MC...` | the instances TLC checks | |

Definitions named "Mutated form" are not part of the specifications: each is the model of
a plausible mistake, kept to show that a property would notice it.

### SqlPools

A pool promise is a number, in order of creation; `pool[a]` is its life. "failing" is the
moment between the rejection of the connection and the microtask of the `.catch` that
evicts it. `poolCache[conn]` is the cached number, or `None`. Each caller does what
`executeSqlServerRead` does with a pool: `GetPool`, then `PoolReady` or `PoolRefused` when
the await ends, then `Finish`. Each call of `closeSqlServerPools` is a closer:
`TakePools` (copy and clear, one synchronous step), `CloseTaken` for each pool as its
promise resolves, `CloseReturns` when `Promise.allSettled` does.

### CatalogSync

`refresh` and `flush` are synchronous, so inside the server nothing interleaves with
them, but another process can act between two of their system calls. Hence one action
for each system call: `RefreshStat`, `RefreshRead`; `FlushRead`, `FlushWrite`,
`FlushStat`; each may fail. The modification time is the number of writes so far. This
assumes that two writes never get the same mtime; with a coarse file clock a second save
within one tick is missed in the same way as the model's `blind` case. A section of
evidence is abstracted to how many observations it holds: enough to tell an older
section from a newer one. `overtaken` and `blind` are history variables that name the
two windows in which a command line save is lost or not noticed. The two properties with
these exceptions hold, the two without are refuted (section 4).

### Sessions

The clock, the expiry of each stored session, the life of its transport. `FoundExpired`
is `get` finding an expired entry; `ServedWhileExpiring` is the clock ticking between
`get` and `touch`. A `stop()` is split at its awaits. Between them, requests go on,
because the HTTP server is closed only after `stop()` has returned. `lapsed`, `unclosed`
and `met` are history: sessions dropped from the store unclosed, sessions whose close
failed, and the sessions that were open when a shutdown drained the store. `Sessions` is
checked as a part of `ServerLifecycle`, and proved about on its own.

### ServerLifecycle

The module extends `Sessions` and `SqlPools`, whose variables are disjoint, and adds
what ties them: `by` (the session of each tool call), `streams` (the event streams
clients hold open, at most one a session), `httpCloser`, `exited`, and which call of
`closeSqlServerPools` each shutdown waits for. Its actions are those of the parts with
what the process adds:

- a tool call begins with a request its session serves, asks for a pool, and runs to its end
  even when its transport is closed under it;
- a session that closes takes its event stream with it;
- a shutdown goes through `stop()` (sessions, pools, catalogs), then `server.close()`, then
  `process.exit(0)`. Of several `server.close()` the callback of the first runs first, and the
  later ones get an error at the same event, too late to matter;
- the process exits when no connection is busy: no stream is open, no `initialize` and no
  call that can still be answered is under way. A kept-alive connection may carry a request
  after `server.close()`, hence requests are not cut off by it.

The catalog flush at the end of `stop()` is synchronous and its failures are caught; it is
`ShutdownFlushes` of `CatalogSync` and not repeated here.

### TargetRegistry and DbTools

`LoadTarget` composes the four steps of the code: normalize, override, validate, fence. A
label of an environment is the word it comes to without blanks and capitals, and whether it
was written plainly; `NormalizeEnvironment` makes it plain before it looks for an alias.
`DbTools` has one process per call. A call is checked synchronously (`Begin`), awaits the
driver, then awaits the anonymizer when the policy requires it; each `catch` is the
`Failure` of its tool. A statement is the guard's verdict on it; rows are "raw" or
"masked". An error's text is told by what it holds of the data: nothing, a value between
apostrophes, or one that has an apostrophe itself. `Sanitized` is what the expressions of
`redactSqlErrorText` make of each: of the last kind the part behind the apostrophe stays.
What a diagnostic query named, an environment alone or a target too, is kept in `call`.

### ProviderCache and VerdictRegister

A query is split at its awaits: `LookUp` up to the request, `ResponseBegins`,
`ProviderFails` and `TimesOut` within `requestProviderChat`, `Learns` from the answer to
the map of verdicts, and `MaskRows`, which runs some microtasks later and reads the
cache again for what the map lacks. The cache is two variables: `recency`, its keys in
insertion order (`Get` moves a key to the end, `Set` evicts the first of a full cache),
and `verdict`. The provider is external and may answer anything: kinds it was not
offered, an object with or without confidence, a plain string, or nothing for some of
the columns. Prompts, samples and the SQL text are left out; the tables of a result,
which `deriveCacheScopeFromSql` finds in that text, are given. A verdict carries as
history the target it was obtained on and whether the answer said anything of the
column. `owed` is history, too: what a query found in the cache or was answered, until
another query uses the cache during its await.

`VerdictRegister` is the cache as its users want it: one register per target, tables and
column, which an answer to a query of that target writes, which may be forgotten at any
time, and which a query reads once for each of its columns. The refinement maps the cache
to the registers and what a query has read so far to its decisions.

### SqlGuard and SqlTexts

`SqlGuard` takes the tokens: words in upper case, punctuation, and one token each for
any string and any quoted identifier. The code walks along them with flags and throws at
the first position that fails; the operators say of each position what must stand before
it, so that a text is accepted exactly when every position passes. Keywords that the
code treats alike are represented by one of them (`EXEC` for all of
`NON_DML_STATEMENT_KEYWORDS` but `USE`). `SqlTexts` is the other side: it writes every
text of a grammar, clause by clause, and counts beside it the statements it holds and
what they do. The grammar has set operations, derived tables, subqueries, common table
expressions, the four writes, `OUTPUT INTO`, `INSERT ... EXEC`, query hints, other
statements, and any two of these in a row with or without a semicolon. Three variables
keep what is easily mistaken: `enclosed`, an INSERT takes its rows from a query in
parentheses (`InsertQueryInParentheses`); `nested`, how many changes stand in the FROM of a
query (`FromChange`; one DELETE stands for the four writes, which the guard treats alike
there); `grouped`, how many further statements are queries in parentheses
(`GroupedQuery`). Such a query begins a statement only behind a parenthesis: behind a name
it would be the arguments of a function or a list of hints. A grouped query is one token
block and holds nothing but a SELECT of a column; a text that begins with one is refused at
its first token and is not written. The tokenizer is left out.

### Proposals

`CatalogSync` sets the server against the command line; this module sets command line
processes against one another. Each action is one load or one save, a save being a
rename of the whole file; `pc` says which copies a process holds. An *input* is what
`inputHash` digests: the columns of a table, the model and the prompt. One run of
`classify` covers a set of columns with one input. Kinds, notes and the text of prompts
and answers are reduced to the status they lead to. The history variable `stale` says
which of the files a process holds were saved by another since it read them; the
properties except exactly those steps. So a rejection can be undone by an overlapping
save, although `docs/ANONYMIZATION.md:40` makes no such exception, and by nothing else.

### BoundedRows and ReadStream

A row is the number of bytes of its JSON text, `NoCap` is the absence of a cap.
`BoundedRows` says that an answer is a failure or the longest prefix of the rows that
keeps to both caps, measured as the JSON text of the whole array. `ReadStream` has one
action per event handler, and its run checks that it implements `BoundedRows`: with its
running count of bytes, its stop at the first row too many, and rows that still arrive
after it. mssql and the server are external and deliver events in any order the handlers
have to deal with: a request that was cancelled may report it, may have run to its end
already, or may fail in another way. `describeColumnOrigins` never fails a read and is
one step; parameter binding is left out.

### ColumnEvidence

A query decides and records without an `await`, so it is one step: a result and the
provider's verdict come in, `Decision` is what happens to a cell, `ObservationStatusFor`
what is recorded of the column, `MergeEvidence` and `ApplyObservation` give the new
entry. A value stands for the strings of its class (flag, code, date, title case,
personal data, too long for a status column, too long for an enumeration), a name for the
names the rules treat alike; "technical" are those that are both status and code names
(`flag`, `stato`, `tipo`, `estero`). Hashes are taken
to be injective. The provider's "undecided" covers its failure, a low confidence and its
absence. Of the cells of a result the model keeps which values are there, how many cells
there are and the first that is not null, which alone gives the column its recorded
reason. Columns without a catalog key (computed, numeric, system metadata) are left out.
A human verdict may be given or withdrawn between any two queries. Queries that record
nothing change no state; the properties therefore quantify over every result the next
query may have.

## 3. Properties and runs

All configurations are the `MC*.cfg` files; each names its bounds.

| Run | States | Bounds | Shows |
|---|---|---|---|
| `pools` | 330 thousand | 2 connection strings, 2 callers, 2 shutdowns, 3 attempts | no leak, usable cache, no pool closed twice |
| `catalog_sync` | 1.5 million (reduced by symmetry) | 1 column, 2 targets, 2 command line processes, 3 writes, 2 observations per target | the safety properties of the file and the server's copy |
| `catalog_flush` | until refuted | 1 process | finding 1 |
| `lifecycle` | 506 thousand | 1 session id, 1 tool call at a time, 1 connection string, 2 signals, 2 attempts, time to live 2, clock to 2 | sessions are held and leave for cause, the exit is orderly, a shutdown ends the process |
| `db_tools` | 1.8 million | 1 call, 2 targets, every mix of their switches, labels written plainly and not | production fence (effects, rows, errors), strict mode, diagnostics do not guess |
| `proposals` | 730 thousand (reduced by symmetry) | 2 columns, 2 inputs, 2 processes, 4 commands | rejections stand, what leaves the file is decided, only the undecided is proposed, `accept` takes what it listed |
| `read_stream` | 20.5 thousand | rows of 2 or 5 bytes, 3 rows, 1 row of a second recordset, 3 row caps, 10 byte caps | `BoundedRows` is implemented, reads fail exactly on faults |
| `evidence` | 47.8 thousand | 5 values, sample of 2, promotion from 2 uses and 3 cells, 3 cells per result, 3 recorded queries | `auto-safe` rests on sound evidence, `auto-sensitive` stays masked |
| `evidence_technical` | until refuted | the same | finding 3 |
| `provider_cache` | 253 thousand | 2 queries, 2 targets, 3 results over 4 keys, a cache of 2, 2 columns asked about, 1 kind | verdicts stay on their target and reach the rows, `VerdictRegister` is implemented, queries go on |
| `provider_silence` | until refuted | 1 query | finding 2 |
| `sql_guard` | 171 thousand | texts of 6 clauses and 2 statements | accepted reads only read, accepted writes change once, single statements pass |

Why the bounds are enough. *Pools*: three attempts let a failed attempt be followed by a
new one for the same string while another string connects; two shutdowns overlap in
every way. *Catalog*: three writes are the shortest run in which a save races with a
flush, a later flush follows and a query reads the outcome; two targets separate "mine"
from "the others'". *Lifecycle*: one session id, closed and never initialized again,
meets every stage of both shutdowns, and so do one call and one pool; two attempts let a
pool be opened after the first shutdown took the cache, and two signals overlap in every
way. The clock reaches the first expiry; that the session is renewed before, and a time
to live of 0 (no expiry), are covered by the proofs, which bound nothing. *Tools*: calls
share only the constant registry, so one call meets every behaviour; the second target
exists to make a diagnostic query ambiguous, and the first one's label comes with blanks
and capitals too.

*Proposals*: three commands suffice for each race (a load, a save by another, a save);
the fourth lets a race follow a proposal. *Reads*: the byte caps are the exact sizes of
one, two and three rows, one byte less, no cap, and a cap that not even an empty array
keeps to. *Evidence*: one result can overflow the sample, two promote a column, and the
third meets a promoted column with values it has not seen. One of the five values has 17 to
20 characters: too long for a status column, short enough for an enumeration. `trust` is "corroborated",
which takes the provider's word more often; the proofs cover "strict" as well.

*Provider cache*: two keys fit and three are asked for in one result, so a query's own
answer evicts, and a second query evicts under it. One target asks a provider and the
other does not, yet reads the cache: a verdict that crosses targets shows at once.
*Guard*: six clauses write any statement of the grammar with a nested query and any
other statement behind it, and each of the three texts `WritesChangeOnce` and
`ReadsOnlyRead` except (section 4).

Deadlock is checked in `provider_cache` and `evidence`, where a query can always go on.
Elsewhere a process that exited, an answered call or statement, a bounded clock, a
finished text or a spent bound on writes has no successor.

Fairness. `ServerLifecycle`: the event loop runs every microtask and every resolved await,
mssql's connection timeout ends every attempt, `requestTimeout` every query, and a close
settles; the interval timer fires while it is set; the awaits of a running `stop()` settle.
No fairness is assumed of requests or signals. Nothing makes a client end its stream or stop asking, so
`ShutdownExits` says: either connections stay busy again and again with requests or with
the stream of a session that `stop()` could not close, or a shutdown ends the process.
`ProviderCache`: the timer of a request fires, because `ANON_TIMEOUT_MS` is positive;
nothing is assumed of the provider. The other modules state safety only.

## 4. Findings

1. **A flush can overwrite a human verdict** (`catalog.js:184`). The comment in `flush`
   promises that verdicts written "in the meantime are preserved"; a save between the read
   and the rename is not. `FlushKeepsVerdicts` shows this is the only window.
2. **What the provider does not say is a sure "none"** (`core.js:889`). A column the answer
   leaves out is read as a plain answer with full confidence, normalized to "none" and
   cached, although the comment at `core.js:988` wants an unsure "none" left undecided so
   that the fail-closed default applies.
3. **A single technical result makes a column `auto-safe`** (`catalog.js:95`), while
   `CHANGELOG.md:42` asks for repeated uses and cells of a closed set of values. Only the
   path through the enumeration rules asks for them. `EvidenceIsSound` says what does hold
   of every promotion.

Other differences are visible as the exceptions of properties that hold, each stated as
narrowly as TLC and the proofs allow:

- `QueriesSeeVerdicts` excepts a save between a flush's rename and its stat, whose mtime the
  server takes for its own (`blind`; `catalog.js:190`, against `CHANGELOG.md:43`).
- `ProposesUndecided` excepts a column that is decided while the model is asked
  (`anon-classify.js:195`, against `docs/ANONYMIZATION.md:34`).
- `ProductionIsFenced` says of errors that they quote no *whole* value. SQL Server does not
  double the apostrophes of the values it quotes, and `redactSqlErrorText` ends a quoted
  fragment at the first of them: what follows it stays ("rest"; `sql-error-sanitizer.js:67`).
  And it says so of production only: on another anonymized target the errors of `db_write`
  are not scrubbed at all (`handlers.js:540`). `docs/ANONYMIZATION.md:50` excepts neither.
- `README.md:177` has `db_read` and `db_write` accept "exactly one" statement and reject
  batches. The guard looks into parentheses for INTO and forbidden keywords only, hence
  - `grouped`: a query in parentheses that follows a statement ending with a parenthesis
    is not seen as a second one (`sql-guard.js:311` and `339`);
  - `enclosed`: the source of an INSERT in parentheses does not set `selectSeen`, so that a
    SELECT behind it is taken for the source (`sql-guard.js:372`);
  - `nested`: a change with OUTPUT in the FROM of an INSERT's query is not counted
    (`sql-guard.js:339`).

  `ReadsOnlyRead` and `WritesChangeOnce` say that these are all: no other second statement
  passes, and none that passes changes or runs anything. Ask for `grouped = 0`, for
  one statement without exception or for `nested = 0` as well, and TLC finds the text
  within the bounds of `sql_guard`.

## 5. Proofs

`CatalogSyncProofs` proves, for any sets of columns, targets and command line processes and
any two natural bounds, the type invariant and the five properties of the run
`catalog_sync`. Its `Inv` has two halves, proved one after the other:
- `PublishedInv`: what the file holds was published, and so was all of memory once a flush
  has renamed its file. This carries `CleanIsPublished` over a successful flush, which
  empties the dirty set only then.
- `VerdictInv`: what the server relies on when it does not read a file again. The mtimes it
  remembers are not ahead of the file's; where they are equal, or between a flush's rename
  and stat, memory and file agree on the verdicts (`KnownMtimeIsKnown`); what `refresh` or
  `flush` has just seen is still there, unless a save came in between (`ReadSeesDisk`,
  `WriteIsFresh`). `QueriesSeeVerdicts` and `FlushKeepsVerdicts` follow from these.

`ProposalsProofs` proves, for any sets of columns, inputs and processes, the type
invariant and the four action properties of the run `proposals`. `Inv` adds `Fresh` for
each process: a copy it holds that `stale` does not name is the file as it is, and what
the process has decided by it (columns without a verdict, columns of the listed status)
is still so. A step that changes a file is then a step of a process whose copy is either
the file, so that its guards spoke about the file, or is named in the exception.

`ReadStreamProofs` proves, for any sizes and caps, the type invariant, which holds the
`maxRows + 1` bound on rows, `FailsOnFault`, and that `ReadStream` implements
`BoundedRows` (`ImplementsBoundedRows`). `Inv` adds `CountsAgree`, the relation of the
counters while rows are accepted, and `Progress`, what each awaited step has and has not
done yet. The refinement needs `Gathers` besides: the rows kept are the first rows of
the source and `resultBytes` is the size of their JSON text; and once a row was not
kept, the rows end there (`EndsAt`), because they fit and one more would not. That the
first row that does not fit bounds the *longest* prefix that does is `EndIsLongest`:
texts grow with their rows. A write measures its rows after the fact, in a loop;
`WrittenBytesAre` and `WrittenRowsEnd` relate it to the same prefixes.

`ColumnEvidenceProofs` proves, for any classes of values, any limits and both settings
of `trust`, the type invariant, `EvidenceIsSound` and `SensitiveStaysMasked`. The step
that needs an invariant is the promotion: that the sample is closed says something about
the column only if the sample is all that was ever seen. `Inv` says that an entry which
has not overflowed holds every value seen (lemma `HashesComplete` shows that merging
keeps it so), that each status `auto-safe` has the grounds `EvidenceIsSound` names, and
that a column once found sensitive is `auto-sensitive`.

`ServerLifecycleProofs` first proves of `Sessions`, for any sessions, shutdowns and
times to live, `OpenIsHeld` and `LeavesForCause`. `OpenIsHeld` needs that a session a
shutdown has drained never returns to the store (`DrainedAreGone`), `LeavesForCause`
that the expiry in the store is the last use plus the time to live (`ExpiryIsRenewed`).

Then it proves of the pools alone (`PoolSpec`), from the assumptions that there is a
connection string and that the bounds are natural numbers, the type invariant and every
safety property of the run `pools`, and two more that no run repeats: callers of one
connection string share its pool (`OnePoolEach`), and a failing attempt evicts only itself
(`PoolsEvictThemselves`). `PoolsCloseOnce` proves both halves of `ClosedOnce`: no promise is
taken by two shutdowns, because none that was taken is still cached. The
properties are not inductive by themselves. `PoolsInv` adds
- `FreshUnused`: numbers above `created` are unused and nobody's handle, so that a new
  promise cannot collide with an old one;
- `TakenCreated`: what a closer took was created, and an idle closer took nothing;
- `CacheOwned`: what is cached for a connection string was created for it. Without it
  `EvictAndReject`, which looks at `owner[a]`, could leave a refused promise behind.

Last it composes: `ServerInv` is the sessions' invariant, the pools' invariant and what
ties them. Every step of the server is a step or a stutter of each part
(`StepsOfSessions`, `StepsOfPools`), so each invariant is inherited, and only what ties
them needs a case per action. `ExitIsOrderly` then follows: that a pool the exiting
shutdown leaves connected is a newer one needs `CachedAreNewer` (what is cached after a
shutdown took the cache was made later) with the pools' `NoPoolLeak`; that a session it
met is closed needs `DrainedAreGone`.

`DbToolsProofs` proves, for any registry, targets file, variables and calls, the type
invariant and the three properties of the run `db_tools`. Its first half follows a target
from its entry in the file through normalization, overrides, schema and fence
(`LoadedRespectsEntry`): whatever the variables say, an entry that says production, by
whatever label, gives a target without the right to write and with the anonymization its
entry asks for. Its second half carries that through the awaits of a call: `Admitted` says
that a call at the driver or the anonymizer was allowed on its target, which the step that
records an effect relies on, and the one that reports an error, too: on production only
`db_read` gets that far, and it scrubs. `DiagnosticsUnambiguous` relates the choice, made on the loaded
registry, to the entries of the file: normalization maps every spelling of an environment,
and no other label, to its own (`CandidatesAreActive`), and overrides and fence touch neither
environment nor status. The assumptions are that the file and the variables have the
types the loader checks.

`ProviderCacheProofs` proves, for any requests, deployments, queries and sizes, that
verdicts stay on their target (`NeverAcrossTargets`), that `ProviderCache` implements
`VerdictRegister` (`CacheIsRegisters`), the type invariant with the bound on the cache,
and `VerdictsReachTheRows`. `Inv` says that each verdict in the cache and in a query's
hands came from the target of its key, and that a query holds its map of kinds only
between the provider's answer and the rows, and its verdicts only once its rows are
masked. For the order of the cache `CacheInv` adds that its keys are distinct, no more
than the limit and those that have a verdict (`Ordered`), and that the verdicts a
waiting query is owed are in the cache, as it found them, with the *last used* keys
(`Waiting`, by `Recent`). A query's columns are no more than the cache has places for,
so that a set of last used keys that are all this query's never reaches the oldest place
when one more is to come (`OldestIsNotRecent`); hence what the query learns evicts
nothing it is owed.

`SqlTextsProofs` proves the three properties of the run `sql_guard` for texts of any length:
`ReadsOnlyRead`, `WritesChangeOnce` and `SingleStatementsPass`. The guard works on the
finished text and `SqlTexts` on the clause it writes, so the invariant says, after every
clause, what the guard would find if the text ended there. `Held`: the text is a body `s`
with a semicolon or none at either end (`Bodied`), and `s` is `Written`:
- its parentheses match but for those that `open` names, so that `Depth` and the search for
  a closing parenthesis find what the grammar nested (`ParenthesisCloses`);
- before the first statement it is a chain of common table expressions, of which only the
  last may be open (`Prefix`); once a statement stands at `f`, the same chain leads
  `MainIndex` to `f` (`MainFound`);
- it is `Judged`: every position passes the rules of the read mode exactly as long as one
  statement was written that changes nothing (`Single`; grouped queries do not count). Of the
  write mode, every position passes as long as the text is one INSERT, UPDATE, DELETE or
  MERGE, and only as long as it is that or an INSERT of a query in parentheses with one more
  query behind it (`Passing`). `Stage` is what this needs to know of the
  statement in progress, or of the two in that case (`Sole`): an INSERT whose rows are still
  to come may take a SELECT or VALUES, once, and so on.

The rules look backwards only, so that what they say of a position does not change when
more is written (`OkContinues`); each action is then a matter of the tokens it adds, and
there is one lemma for each. A text outside `Held` is `Broken`: it holds `GO`, or a
semicolon with something on both sides, stays so (`BrokenNext`) and is refused
(`BrokenRefused`). At the end `BodyIs` shows that `stripStatementTerminators` gives back
`s`, and `ReadMeans` and `WriteMeans` that the checks of `analyzeSql`, taken together,
are those of every position. The skipping of common table expressions is a recursive
function over positions; that it exists on balanced texts is proved by going backwards
from the end (`AfterExists`). TLC checked the invariant on the instance of the run
before it was proved, with the three parts of the text computed from it.

`ReadStreamProofs` and `ProviderCacheProofs` are about folds. The library's induction
theorems take an operator as a parameter and cannot be used here; `Induction` is instead
about a *set* of numbers, and follows from `WFMin`, that a set of numbers has a least.
With it, `FoldExists` shows that the function `FoldLeft` chooses exists, and one lemma
for each fold (`SumStages`, `TouchedStages`, `FilledStages`) that it goes from element
to element. `SqlTextsProofs` counts tokens with the same `Induction`, so that these
first lemmas stand in three modules.

What stays with TLC: everything about liveness and fairness (TLAPS 1.4.5 has no support
for `ENABLED`), that is the answers owed to queries and the end of a shutdown, and the
three runs that refute a statement. Every other property of every run
is a theorem.

## 6. Not modelled

- Informational tools, the registration of tools, configuration, logging, authentication,
  request ids and readiness answer from constant state: no order of events changes them.
- The maskers, the tokenizer, `extractSqlSources` and the prompts process characters; a
  model would repeat them letter by letter. The models take their results as given: a value
  class, a sequence of tokens, a set of tables.
- `isSystemMetadataQuery` and `isSystemOrigin` compare names with lists; columns of system
  metadata have no catalog key and are outside `ColumnEvidence`.
- `describeColumnOrigins` and parameter binding: one request each, whose failure is an
  outcome ("unavailable") that only masks more.
- The two provider adapters build one body and read one field each; what they share,
  `requestProviderChat`, is modelled.
- The length of a file clock's tick (`CatalogSync` gives every write its own mtime) and two
  servers that share one catalog file, which the documents do not foresee.

## 7. What could follow

1. A common refinement of `CatalogSync` and `Proposals`: one catalog file, the server and
   both command line programs.
2. The clamp of masked rows to the byte cap (`anonymizer.js`) as a second implementation of
   `BoundedRows`.
3. Several server processes over one catalog file.
