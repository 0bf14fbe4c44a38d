---------------------------- MODULE ProviderCache ----------------------------
(***************************************************************************)
(* The classification of a result's columns by a target's model provider   *)
(* (anonymization/core.js, providers/http-client.js) and the cache of the  *)
(* provider's verdicts, LLM_KIND_CACHE.                                    *)
(*                                                                         *)
(* The cache is a Map in insertion order, shared by every query of every   *)
(* target.  A query looks its columns up, asks the provider about those it *)
(* does not find, awaits the answer, caches it and reads the verdicts on   *)
(* its columns back, and only some microtasks later masks its rows with    *)
(* them.  Other queries look up, cache and evict during each await.  The   *)
(* provider is external: it answers anything, late, in part or never.      *)
(***************************************************************************)
EXTENDS Naturals, Sequences, SequencesExt

CONSTANTS
  Columns,   (* Class names of columns: the source's name, or the alias.    *)
  Kinds,     (* KIND_VALUES: the kinds of sensitive data.                   *)
  Requests,  (* The results there may be: their target, source tables and   *)
             (* columns, in order, and those that an earlier rule or the    *)
             (* catalog decides when the rows are masked.                   *)
  Deployments, (* The provider configurations the targets may have.         *)
  Queries,   (* Queries that run at once.                                   *)
  MaxCached, (* LLM_KIND_CACHE_MAX_SIZE.                                    *)
  MaxAsked   (* The columns a query asks about at most: 400.                *)

(* llm_provider is not one of the two known, has no URL or model, or both. *)
Setups == [mode : {"deterministic", "hybrid", "llm-strict"},
           strategy : {"heuristic", "hybrid", "llm"},
           provider : {"none", "unset", "ready"},
           failOpen : BOOLEAN]

NoneKind == "__none__"

Targets == {r.target : r \in Requests}

ASSUME KindsAssumption == NoneKind \notin Kinds
ASSUME RequestsAssumption ==
  /\ Requests # {}
  /\ \A r \in Requests : r.columns \in Seq(Columns) /\ r.ruled \subseteq Columns
ASSUME DeploymentsAssumption == Deployments \subseteq [Targets -> Setups]
ASSUME SizesAssumption == MaxAsked \in Nat /\ MaxCached \in Nat /\ 0 < MaxAsked /\ MaxAsked <= MaxCached

(***************************************************************************)
(* A verdict is its kind.  The target it was obtained on, and whether the  *)
(* answer said anything of the column, are history: the code keeps neither *)
(***************************************************************************)
Verdicts == [kind : Kinds \cup {NoneKind}, from : Targets, said : BOOLEAN]
Undecided == [kind |-> "undecided"]

VARIABLES
  setup,        (* The configuration of each target.                        *)
  recency,      (* The keys of the cache, the oldest first.                 *)
  verdict,      (* Their verdicts.                                          *)
  phase,        (* Where each query is.                                     *)
  request,      (* What it classifies.                                      *)
  unknown,      (* The columns it asks the provider about.                  *)
  fieldKindMap, (* The verdicts it read back.                               *)
  decided       (* The verdicts its rows were masked with.                  *)

(* History variable: the verdicts a query found or was given, as long as   *)
(* nothing excuses their loss.                                             *)
VARIABLE owed

cacheVars == <<recency, verdict>>
queryVars == <<phase, request, unknown, fieldKindMap, decided, owed>>
vars == <<setup, cacheVars, queryVars>>

(* Mutated form: the target is no part of the key.                         *)
KeyWithoutTarget(r, c) == <<CHOOSE t \in Targets : TRUE, r.sources, c>>

(* buildCacheScope and cacheKeyFor.  A result without FROM or JOIN has no  *)
(* sources, which is the global scope.                                     *)
KeyFor(r, c) == <<r.target, r.sources, c>>

Keys == {KeyFor(r, c) : r \in Requests, c \in Columns}

Nothing == [c \in Columns |-> Undecided]

(* buildFieldProbePayload: the first columns of the result.                *)
Payload(r) == SubSeq(r.columns, 1, IF Len(r.columns) < MaxAsked THEN Len(r.columns) ELSE MaxAsked)

(***************************************************************************)
(* LLM_KIND_CACHE.                                                         *)
(***************************************************************************)

(* Mutated form: a key that is found stays where it is.                    *)
GetInPlace(keys, key) == keys

(* getCachedKindDecision deletes the key it finds and sets it again.       *)
Get(keys, key) ==
  IF key \in ToSet(keys) THEN Append(RemoveFirst(keys, key), key) ELSE keys

(* Mutated form: a full cache is not told from one with room.              *)
SetOffByOne(keys, key) ==
  IF key \in ToSet(keys) THEN Append(RemoveFirst(keys, key), key)
  ELSE Append(IF Len(keys) <= MaxCached THEN keys ELSE Tail(keys), key)

(* setCachedKind: a new key evicts the oldest of a full cache.             *)
Set(keys, key) ==
  IF key \in ToSet(keys) THEN Append(RemoveFirst(keys, key), key)
  ELSE Append(IF Len(keys) < MaxCached THEN keys ELSE Tail(keys), key)

(* The cache after those of a result's columns are got, or set, in order.  *)
Touched(keys, r, columns, got) ==
  FoldLeft(LAMBDA ks, c : IF c \in got THEN Get(ks, KeyFor(r, c)) ELSE ks, keys, columns)
Filled(keys, r, columns, set) ==
  FoldLeft(LAMBDA ks, c : IF c \in set THEN Set(ks, KeyFor(r, c)) ELSE ks, keys, columns)

Cached(r, c) == verdict[KeyFor(r, c)]

(* The verdicts of the cache once its keys are `keys`.                     *)
Kept(keys) == [k \in Keys |-> IF k \in ToSet(keys) THEN verdict[k] ELSE Undecided]

(* When q changes the cache, what the others found in it may be evicted or *)
(* answered anew before they read it back.                                 *)
OwedAfter(q) ==
  [p \in Queries |->
     IF p # q /\ cacheVars' # cacheVars /\ phase[p] \in {"asking", "reading"} THEN Nothing
     ELSE owed[p]]

(***************************************************************************)
(* resolveFieldKinds: whether the provider is asked, and what its failure  *)
(* does.  The strategy "llm" throws as well, and anonymizeRows goes on     *)
(* without verdicts unless the mode is llm-strict.                         *)
(***************************************************************************)
Skips(s) ==
  \/ s.mode = "deterministic"
  \/ s.mode # "llm-strict" /\ (s.strategy = "heuristic" \/ s.provider = "none")

Asks(s) == ~Skips(s) /\ s.provider = "ready"

RefusesUnresolved(s) == ~Skips(s) /\ s.mode = "llm-strict" /\ ~s.failOpen

Unresolved(s) == IF RefusesUnresolved(s) THEN "refused" ELSE "resolved"

Init ==
  /\ setup \in Deployments
  /\ recency = <<>>
  /\ verdict = [k \in Keys |-> Undecided]
  /\ phase = [q \in Queries |-> "idle"]
  /\ request = [q \in Queries |-> CHOOSE r \in Requests : TRUE]
  /\ unknown = [q \in Queries |-> {}]
  /\ fieldKindMap = [q \in Queries |-> Nothing]
  /\ decided = [q \in Queries |-> Nothing]
  /\ owed = [q \in Queries |-> Nothing]

----------------------------------------------------------------------------

(* anonymizeRows of a target whose provider is not asked.                  *)
ClassifyWithoutProvider(q, r) ==
  /\ phase[q] = "idle"
  /\ ~Asks(setup[r.target])
  /\ phase' = [phase EXCEPT ![q] = Unresolved(setup[r.target])]
  /\ request' = [request EXCEPT ![q] = r]
  /\ UNCHANGED <<setup, cacheVars, unknown, fieldKindMap, decided, owed>>

(* identifyFieldsWithProvider, up to its await: every column of the        *)
(* payload is looked up.  When all are known, they are read at once.       *)
LookUp(q, r) ==
  LET payload == Payload(r)
      missing == {c \in ToSet(payload) : Cached(r, c) = Undecided}
      found   == [c \in Columns |-> IF c \in ToSet(payload) THEN Cached(r, c) ELSE Undecided]
  IN /\ phase[q] = "idle"
     /\ Asks(setup[r.target])
     /\ phase' = [phase EXCEPT ![q] = IF missing = {} THEN "resolved" ELSE "asking"]
     /\ request' = [request EXCEPT ![q] = r]
     /\ unknown' = [unknown EXCEPT ![q] = missing]
     /\ fieldKindMap' = [fieldKindMap EXCEPT ![q] = IF missing = {} THEN found ELSE Nothing]
     /\ recency' = Touched(recency, r, payload, Columns)
     /\ UNCHANGED <<setup, verdict, decided>>
     /\ owed' = [OwedAfter(q) EXCEPT ![q] = found]

----------------------------------------------------------------------------
(* requestProviderChat.                                                    *)

(* The response begins, with status 200: its body is still to come.        *)
ResponseBegins(q) ==
  /\ phase[q] = "asking"
  /\ phase' = [phase EXCEPT ![q] = "reading"]
  /\ UNCHANGED <<setup, cacheVars, request, unknown, fieldKindMap, decided, owed>>

GivesUp(q) ==
  /\ phase' = [phase EXCEPT ![q] = Unresolved(setup[request[q].target])]
  /\ unknown' = [unknown EXCEPT ![q] = {}]
  /\ owed' = [owed EXCEPT ![q] = Nothing]
  /\ UNCHANGED <<setup, cacheVars, request, fieldKindMap, decided>>

(* No connection, another status, no content, or no JSON in the content.   *)
ProviderFails(q) == phase[q] \in {"asking", "reading"} /\ GivesUp(q)

(* Mutated form: the timer is cleared when the response begins.            *)
TimesOutBeforeResponse(q) == phase[q] = "asking" /\ GivesUp(q)

(* The timer aborts the request, or the body it is reading.                *)
TimesOut(q) == phase[q] \in {"asking", "reading"} /\ GivesUp(q)

----------------------------------------------------------------------------
(* The answer.                                                             *)

(* What the answer holds for a column: an object with a confidence, a      *)
(* plain string, or nothing at all, which JavaScript reads as undefined.   *)
Silence == [form |-> "plain", kind |-> "undefined"]
Replies ==
       [form : {"object"}, kind : Kinds \cup {"none", "other"}, sure : BOOLEAN]
  \cup [form : {"plain"}, kind : Kinds \cup {"none", "other"}]
  \cup {Silence}

NormalizeKind(kind) == IF kind \in Kinds THEN kind ELSE NoneKind

(* parseFieldDecision: an answer without confidence is taken at its word.  *)
IsSure(reply) == reply.form = "plain" \/ reply.sure

(* An unsure "none" is no decision.                                        *)
Decides(reply) == NormalizeKind(reply.kind) # NoneKind \/ IsSure(reply)

VerdictOf(reply, target) ==
  [kind |-> NormalizeKind(reply.kind), from |-> target, said |-> reply # Silence]

(* The rest of identifyFieldsWithProvider, in one synchronous step: the    *)
(* decisions are cached, then the whole payload is read back.              *)
Learns(q, fields) ==
  LET r       == request[q]
      learned == {c \in unknown[q] : Decides(fields[c])}
      filled  == Filled(recency, r, Payload(r), learned)
      after   == [k \in Keys |->
                    IF \E c \in learned : KeyFor(r, c) = k
                    THEN VerdictOf(fields[CHOOSE c \in learned : KeyFor(r, c) = k], r.target)
                    ELSE Kept(filled)[k]]
  IN /\ phase[q] = "reading"
     /\ phase' = [phase EXCEPT ![q] = "resolved"]
     /\ recency' = Touched(filled, r, Payload(r), Columns)
     /\ verdict' = after
     /\ fieldKindMap' = [fieldKindMap EXCEPT ![q] =
          [c \in Columns |-> IF c \in ToSet(Payload(r)) THEN after[KeyFor(r, c)] ELSE Undecided]]
     /\ owed' = [OwedAfter(q) EXCEPT ![q] =
          [c \in Columns |-> IF c \in learned THEN VerdictOf(fields[c], r.target) ELSE owed[q][c]]]
     /\ unknown' = [unknown EXCEPT ![q] = {}]
     /\ UNCHANGED <<setup, request, decided>>

----------------------------------------------------------------------------

(* Mutated form: the cache goes before the map.                            *)
FromCacheFirst(q, c) ==
  IF Cached(request[q], c) # Undecided THEN Cached(request[q], c) ELSE fieldKindMap[q][c]

(* resolveKindForKey: the map, and for a column it lacks the cache, as it  *)
(* is by then.                                                             *)
ResolveKind(q, c) ==
  IF fieldKindMap[q][c] # Undecided THEN fieldKindMap[q][c] ELSE Cached(request[q], c)

(* deterministicFallback masks the rows, some microtasks later.            *)
MaskRows(q) ==
  LET r         == request[q]
      consulted == ToSet(r.columns) \ r.ruled
      lookedUp  == {c \in consulted : fieldKindMap[q][c] = Undecided}
  IN /\ phase[q] = "resolved"
     /\ phase' = [phase EXCEPT ![q] = "masked"]
     /\ decided' = [decided EXCEPT ![q] =
          [c \in Columns |-> IF c \in consulted THEN ResolveKind(q, c) ELSE Undecided]]
     /\ recency' = Touched(recency, r, r.columns, lookedUp)
     /\ fieldKindMap' = [fieldKindMap EXCEPT ![q] = Nothing]
     /\ UNCHANGED <<setup, verdict, request, unknown>>
     /\ owed' = [OwedAfter(q) EXCEPT ![q] =
          [c \in Columns |-> IF c \in consulted THEN owed[q][c] ELSE Undecided]]

Return(q) ==
  /\ phase[q] \in {"masked", "refused"}
  /\ phase' = [phase EXCEPT ![q] = "idle"]
  /\ decided' = [decided EXCEPT ![q] = Nothing]
  /\ owed' = [owed EXCEPT ![q] = Nothing]
  /\ UNCHANGED <<setup, cacheVars, request, unknown, fieldKindMap>>

Next ==
  \/ \E q \in Queries, r \in Requests : ClassifyWithoutProvider(q, r) \/ LookUp(q, r)
  \/ \E q \in Queries :
       \/ ResponseBegins(q) \/ ProviderFails(q) \/ TimesOut(q) \/ MaskRows(q) \/ Return(q)
       \/ \E fields \in [unknown[q] -> Replies] : Learns(q, fields)

(***************************************************************************)
(* The timer fires (ANON_TIMEOUT_MS is positive, or the configuration is   *)
(* refused).  Nothing is assumed of the provider.                          *)
(***************************************************************************)
Fairness == \A q \in Queries : WF_vars(TimesOut(q))

Spec == Init /\ [][Next]_vars

FairSpec == Spec /\ Fairness

----------------------------------------------------------------------------

TypeOK ==
  /\ setup \in Deployments
  /\ recency \in Seq(Keys) /\ Len(recency) <= MaxCached
  /\ verdict \in [Keys -> Verdicts \cup {Undecided}]
  /\ \A k \in Keys : verdict[k] # Undecided <=> k \in ToSet(recency)
  /\ phase \in [Queries -> {"idle", "asking", "reading", "resolved", "masked", "refused"}]
  /\ request \in [Queries -> Requests]
  /\ unknown \in [Queries -> SUBSET Columns]
  /\ fieldKindMap \in [Queries -> [Columns -> Verdicts \cup {Undecided}]]
  /\ decided \in [Queries -> [Columns -> Verdicts \cup {Undecided}]]
  /\ owed \in [Queries -> [Columns -> Verdicts \cup {Undecided}]]

(* "A verdict obtained on one target is never reused on another"           *)
(* (docs/ANONYMIZATION.md), whichever queries overlap.                     *)
TargetsApart ==
  \A q \in Queries, c \in Columns :
    decided[q][c] # Undecided => decided[q][c].from = request[q].target

(* What the provider has just answered decides the column, even when       *)
(* another query was answered otherwise or filled the cache meanwhile; and *)
(* the verdicts a query found are those its rows are masked with, although *)
(* it caches new ones in between: only another query's use of the cache    *)
(* during the await excuses their loss.                                    *)
VerdictsReachTheRows ==
  \A q \in Queries, c \in Columns :
    owed[q][c] # Undecided =>
      /\ phase[q] = "resolved" => fieldKindMap[q][c] = owed[q][c]
      /\ phase[q] = "masked" => decided[q][c] = owed[q][c]

(* A query that asked the provider goes on, whether or not it is answered  *)
(* and however its response stalls.                                        *)
QueriesGoOn ==
  \A q \in Queries : phase[q] \in {"asking", "reading"} ~> phase[q] \notin {"asking", "reading"}

(***************************************************************************)
(* The cache implements the registers.  A query has read those of its map  *)
(* when it has its map, and the others when it masks its rows.             *)
(***************************************************************************)
Running == {q \in Queries : phase[q] # "idle"}
ReadSoFar == [q \in Queries |-> IF phase[q] = "masked" THEN decided[q] ELSE fieldKindMap[q]]

Register ==
  INSTANCE VerdictRegister WITH
    known <- verdict, running <- Running, asked <- request, decided <- ReadSoFar

(* A query decides its columns as if each had one register, of its own     *)
(* target, that it reads once.                                             *)
ImplementsRegisters == Register!Spec

(* "An unsure none is not a decision: leave it undecided" (core.js:988): a *)
(* verdict that a column is none was given by the provider for the column. *)
NoneWasSaid == \A k \in Keys : verdict[k] # Undecided /\ verdict[k].kind = NoneKind => verdict[k].said

=============================================================================
