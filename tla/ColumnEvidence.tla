--------------------------- MODULE ColumnEvidence ---------------------------
(***************************************************************************)
(* What the server decides about one text column of one target, query      *)
(* after query, and the evidence by which it learns: deterministicFallback *)
(* (anonymization/core.js) decides each value, and applyObservation        *)
(* (anonymization/catalog.js) merges what was seen into the column's entry *)
(* of the catalog, which later queries go by.                              *)
(*                                                                         *)
(* A query decides and records without an await, so it is one step.  A     *)
(* value stands for all strings of its class; a name for all names that    *)
(* the name rules treat alike.  Computed columns have no key in the        *)
(* catalog, and system metadata is never observed: neither comes in here.  *)
(* How the entry reaches the file is the matter of CatalogSync.            *)
(***************************************************************************)
EXTENDS Naturals, FiniteSetsExt

CONSTANTS
  Values,
  Empty,      (* A cell that holds the empty string.                        *)
  Flags,      (* Values that are flag literals: 0, 1, y, n, ...             *)
  Codes,      (* Structured technical codes.                                *)
  Dates,      (* ISO dates.                                                 *)
  TitleCase,  (* Values written like a person's name.                       *)
  Pii,        (* Values with a phone number, an e-mail address or an IBAN.  *)
  Emails,     (* Those with an e-mail address.                              *)
  OverEnum,   (* Values longer than a status column's may be (16).          *)
  Long,       (* Values longer than any that is cleared on evidence (20).   *)
  trust,      (* The target's trust in its provider's "none".               *)
  DISTINCT_CAP, PROMOTE_MIN_USES, PROMOTE_MIN_CELLS, PROMOTE_MIN_REPEAT,
  MaxCells,   (* Bound: cells of the column in one result.                  *)
  MaxUses     (* Bound: recorded queries.                                   *)

ASSUME ClassesAssumption ==
  /\ IsFiniteSet(Values) /\ Empty \notin Values
  /\ Flags \cup Codes \cup Dates \cup TitleCase \cup Pii \cup OverEnum \subseteq Values
  /\ Emails \subseteq Pii /\ Long \subseteq OverEnum
ASSUME PromotionAssumption ==
  {DISTINCT_CAP, PROMOTE_MIN_USES, PROMOTE_MIN_CELLS, PROMOTE_MIN_REPEAT} \subseteq Nat
ASSUME TrustAssumption == trust \in {"corroborated", "strict"}
ASSUME BoundsAssumption == MaxCells \in Nat /\ MaxUses \in Nat

(* What the name rules see in a column's name: names of strong and weak    *)
(* kinds of personal data, names of files, safe names, names with a status *)
(* token, with a code token or with one that is both (flag, stato, tipo,   *)
(* estero), and any other.                                                 *)
StatusLike == {"status", "technical"}
CodeLike == {"code", "technical"}
Names == {"strong", "weak", "file", "safe", "plain"} \cup StatusLike \cup CodeLike
Verdicts == {"none", "safe", "sensitive"}

VARIABLES
  name,         (* What the column's name says.                             *)
  human,        (* The human verdict.                                       *)
  entry         (* The target's entry for the column.                       *)

(***************************************************************************)
(* History: what the recorded queries showed of the column, and whether    *)
(* one of them found it sensitive.                                         *)
(***************************************************************************)
VARIABLES seen, marked

vars == <<name, human, entry, seen, marked>>

NoEntry ==
  [status |-> "unknown", reason |-> "none", uses |-> 0, cells |-> 0, distinct |-> {},
   overflow |-> FALSE, pii |-> FALSE, titlecase |-> FALSE, long |-> FALSE]

Init ==
  /\ name \in Names
  /\ human = "none"
  /\ entry = NoEntry
  /\ seen = {}
  /\ marked = FALSE

----------------------------------------------------------------------------
(***************************************************************************)
(* A query's result: the values its cells hold, the number of the cells,   *)
(* the first cell that is not null, and the provider's verdict on the      *)
(* column.                                                                 *)
(***************************************************************************)
Results ==
  {r \in [present : SUBSET Values, cells : 0 .. MaxCells, first : Values \cup {Empty},
          provider : {"undecided", "none", "kind"}] :
     /\ Cardinality(r.present) <= r.cells
     /\ r.present = {} => r.cells = 0
     /\ r.first \in r.present \cup {Empty}}

HasPii(r) == r.present \cap Pii # {}
AllIn(r, class) == r.present # {} /\ r.present \subseteq class

----------------------------------------------------------------------------
(***************************************************************************)
(* The decision for one cell.                                              *)
(***************************************************************************)
Clear(reason) == [kind |-> "clear", reason |-> reason]
Masked(reason) == [kind |-> "masked", reason |-> reason]
Kept == [kind |-> "inline", reason |-> "kept:non-string"]
Undecided == [kind |-> "undecided", reason |-> "undecided"]

HeuristicKind == name \in {"strong", "weak"}

(* The provider's word that a column is safe is taken only when nothing    *)
(* else speaks against it.                                                 *)
BelievesNone(r) ==
  /\ r.provider = "none"
  /\ name # "strong"
  /\ trust # "strict"
  /\ ~HasPii(r)

ResolveKindForKey(r) ==
  IF BelievesNone(r) THEN Clear("provider-none")
  ELSE IF r.provider = "kind" THEN Masked("provider")
  ELSE IF HeuristicKind THEN Masked("heuristic")
  ELSE Undecided

IsTechnicalSafeColumn(r, cell) ==
  \/ name = "safe"
  \/ AllIn(r, Flags) /\ Cardinality(r.present) <= 4
  \/ name \in CodeLike /\ (AllIn(r, Codes) \/ cell \in Codes)
  \/ /\ name \in StatusLike /\ r.cells > 1 /\ Cardinality(r.present) <= 6
     /\ r.present \cap (OverEnum \cup Emails) = {}

ResolveKindForValue(r, cell) ==
  LET byKey == ResolveKindForKey(r)
  IN  IF byKey # Undecided THEN byKey
      ELSE IF IsTechnicalSafeColumn(r, cell) THEN Clear("safe:technical")
      ELSE IF cell # Empty THEN Masked("fallback:text")
      ELSE Kept

DecideFromCatalog ==
  IF human = "sensitive" THEN Masked("catalog:human-sensitive")
  ELSE IF human = "safe" THEN Clear("catalog:human-safe")
  ELSE IF entry.status = "auto-sensitive" THEN Masked("catalog:auto-sensitive")
  ELSE Undecided

DecideStructuralSafe(r) ==
  IF HeuristicKind THEN Undecided
  ELSE IF name = "file" THEN Clear("safe:file-name")
  ELSE IF AllIn(r, Dates) THEN Clear("safe:datetime")
  ELSE Undecided

IsCleanForAutoSafe(r) == r.present \cap (Pii \cup Long \cup TitleCase) = {}

IsOverridableByAutoSafe(decision) ==
  decision.kind = "clear" \/ decision.reason = "fallback:text"

Decision(r, cell) ==
  LET catalog == DecideFromCatalog
      structural == DecideStructuralSafe(r)
      resolved == ResolveKindForValue(r, cell)
  IN  IF catalog \in {Undecided, Masked("catalog:auto-sensitive")} /\ structural # Undecided
        THEN structural
      ELSE IF catalog # Undecided THEN catalog
      ELSE IF /\ entry.status = "auto-safe"
              /\ IsOverridableByAutoSafe(resolved) /\ IsCleanForAutoSafe(r)
        THEN Clear("catalog:auto-safe")
      ELSE resolved

(* Only the first cell's reason is recorded.                               *)
ObservationStatusFor(reason) ==
  CASE reason \in {"catalog:human-sensitive", "catalog:human-safe", "kept:non-string"} -> "none"
    [] reason \in {"catalog:auto-sensitive", "heuristic", "provider"} -> "sensitive"
    [] reason = "catalog:auto-safe" -> "revalidate"
    [] reason \in {"safe:technical", "safe:file-name"} -> "technical"
    [] OTHER -> "pending"

----------------------------------------------------------------------------
(***************************************************************************)
(* The evidence.                                                           *)
(***************************************************************************)

(* The first n members of a set: which ones depends on the order of rows.  *)
FirstOf(S, n) == IF Cardinality(S) <= n THEN {S} ELSE kSubset(n, S)

(* Mutated form: as many hashes are collected as an entry may hold, and a  *)
(* single result never overflows it.                                       *)
FewerHashes(r) == FirstOf(r.present, DISTINCT_CAP)

(* A value is a hash: one more is collected than an entry may hold.        *)
Hashes(r) == FirstOf(r.present, DISTINCT_CAP + 1)

(* Mutated form: an entry grows with every new value.                      *)
KeepsAll(hashes) == {entry.distinct \cup hashes}

(* An entry keeps the values it has, and new ones up to its cap.           *)
Keeps(hashes) ==
  {kept \in FirstOf(entry.distinct \cup hashes, DISTINCT_CAP) : entry.distinct \subseteq kept}

MergeEvidence(r, hashes, kept) ==
  [entry EXCEPT !.uses = @ + 1,
                !.cells = @ + r.cells,
                !.distinct = kept,
                !.overflow = @ \/ Cardinality(entry.distinct \cup hashes) > DISTINCT_CAP,
                !.pii = @ \/ HasPii(r),
                !.titlecase = @ \/ r.present \cap TitleCase # {},
                !.long = @ \/ r.present \cap Long # {}]

IsEnumEvidence(e) ==
  /\ ~e.overflow /\ ~e.pii /\ ~e.titlecase /\ ~e.long
  /\ e.distinct # {}
  /\ e.uses >= PROMOTE_MIN_USES
  /\ e.cells >= PROMOTE_MIN_CELLS
  /\ e.cells >= PROMOTE_MIN_REPEAT * Cardinality(e.distinct)

Settle(e, status, reason) == [e EXCEPT !.status = status, !.reason = reason]

(* Mutated form: evidence of a closed set of values clears a column that   *)
(* was found sensitive.                                                    *)
ApplyForgettingSensitive(e, observation) ==
  IF observation = "sensitive" THEN Settle(e, "auto-sensitive", "found")
  ELSE IF observation = "technical"
    THEN IF e.status = "auto-sensitive" THEN e ELSE Settle(e, "auto-safe", "technical-name")
  ELSE IF e.status = "auto-safe" /\ e.reason = "technical-name" THEN e
  ELSE IF IsEnumEvidence(e) THEN Settle(e, "auto-safe", "enum-evidence")
  ELSE Settle(e, "pending", observation)

(* What an observation makes of an entry it has been merged into.          *)
ApplyObservation(e, observation) ==
  IF observation = "sensitive" THEN Settle(e, "auto-sensitive", "found")
  ELSE IF e.status = "auto-sensitive" THEN e
  ELSE IF observation = "technical" THEN Settle(e, "auto-safe", "technical-name")
  ELSE IF e.status = "auto-safe" /\ e.reason = "technical-name" THEN e
  ELSE IF IsEnumEvidence(e) THEN Settle(e, "auto-safe", "enum-evidence")
  ELSE Settle(e, "pending", observation)

----------------------------------------------------------------------------

(* The reasons for which cells of a result stay in clear.                  *)
ClearedBy(r) ==
  {Decision(r, cell).reason :
     cell \in {c \in r.present : Decision(r, c).kind = "clear"}}

(* A query that records what it observed.  Any other leaves the state as   *)
(* it is; what it leaves in clear is ClearedBy.                            *)
Query(r) ==
  LET observation == ObservationStatusFor(Decision(r, r.first).reason)
  IN  /\ observation # "none"
      /\ entry.uses < MaxUses
      /\ \E hashes \in Hashes(r) : \E kept \in Keeps(hashes) :
           entry' = ApplyObservation(MergeEvidence(r, hashes, kept), observation)
      /\ seen' = seen \cup r.present
      /\ marked' = (marked \/ observation = "sensitive")
      /\ UNCHANGED <<name, human>>

(* set and unset of the command line, and the server's reload.             *)
HumanDecides(verdict) ==
  /\ verdict # human
  /\ human' = verdict
  /\ UNCHANGED <<name, entry, seen, marked>>

Next ==
  \/ \E r \in Results : Query(r)
  \/ \E verdict \in Verdicts : HumanDecides(verdict)

Spec == Init /\ [][Next]_vars

----------------------------------------------------------------------------

(* The types; an entry never holds more values than its cap.               *)
TypeOK ==
  /\ name \in Names /\ human \in Verdicts
  /\ entry.status \in {"unknown", "pending", "auto-safe", "auto-sensitive"}
  /\ entry.uses \in 0 .. MaxUses /\ entry.cells \in Nat
  /\ entry.distinct \subseteq Values /\ Cardinality(entry.distinct) <= DISTINCT_CAP
  /\ entry.overflow \in BOOLEAN /\ entry.pii \in BOOLEAN
  /\ entry.titlecase \in BOOLEAN /\ entry.long \in BOOLEAN
  /\ seen \subseteq Values /\ marked \in BOOLEAN

(* Evidence is what it says, although an entry forgets values beyond its   *)
(* cap: all that the recorded queries ever showed of a column promoted by  *)
(* it is a small closed set of short, repeated values, none of them        *)
(* written like a name or holding personal data.                           *)
EvidenceIsSound ==
  entry.status = "auto-safe" /\ entry.reason = "enum-evidence" =>
    /\ seen # {} /\ Cardinality(seen) <= DISTINCT_CAP
    /\ seen \cap (Pii \cup TitleCase \cup Long) = {}
    /\ entry.uses >= PROMOTE_MIN_USES
    /\ entry.cells >= PROMOTE_MIN_CELLS
    /\ entry.cells >= PROMOTE_MIN_REPEAT * Cardinality(seen)

(* Once a recorded query found a column sensitive, by its name or by the   *)
(* provider, no query leaves it in clear for a provider's later "none",    *)
(* for evidence or for a technical look: only the human and the structural *)
(* rules for files and dates do.                                           *)
SensitiveStaysMasked ==
  marked => \A r \in Results :
              ClearedBy(r) \subseteq {"catalog:human-safe", "safe:file-name", "safe:datetime"}

(* "A column is auto-promoted to auto-safe only after" so many uses and    *)
(* cells (CHANGELOG.md): before, no query leaves a column in clear as      *)
(* auto-safe that its name and that query's result alone would mask.       *)
AutoSafeIsRepeated ==
  entry.uses < PROMOTE_MIN_USES \/ entry.cells < PROMOTE_MIN_CELLS =>
    \A r \in Results : \A cell \in r.present :
      ResolveKindForValue(r, cell).kind = "masked" => Decision(r, cell) # Clear("catalog:auto-safe")

=============================================================================
