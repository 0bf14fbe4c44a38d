------------------------ MODULE ColumnEvidenceProofs ------------------------
(***************************************************************************)
(* Proofs about ColumnEvidence for any classes of values, caps and limits: *)
(* evidence is sound although an entry forgets values beyond its cap, and  *)
(* a column once found sensitive stays masked.                             *)
(***************************************************************************)
EXTENDS ColumnEvidence, FiniteSetTheorems, TLAPS

(* An entry that has not overflowed holds every value that was seen, and   *)
(* its flags remember the classes it saw for good.                         *)
Remembers ==
  /\ ~entry.overflow => entry.distinct = seen
  /\ ~entry.pii => seen \cap Pii = {}
  /\ ~entry.titlecase => seen \cap TitleCase = {}
  /\ ~entry.long => seen \cap Long = {}

(* What was promoted on evidence still has that evidence.                  *)
Promoted ==
  entry.status = "auto-safe" /\ entry.reason = "enum-evidence" => IsEnumEvidence(entry)

Entries ==
  [status : {"unknown", "pending", "auto-safe", "auto-sensitive"},
   reason : {"none", "found", "technical-name", "enum-evidence", "pending", "revalidate"},
   uses : Nat, cells : Nat, distinct : SUBSET Values,
   overflow : BOOLEAN, pii : BOOLEAN, titlecase : BOOLEAN, long : BOOLEAN]

Inv ==
  /\ TypeOK
  /\ entry \in Entries
  /\ Remembers
  /\ Promoted
  /\ marked => entry.status = "auto-sensitive"

Observations == {"sensitive", "technical", "revalidate", "pending"}

----------------------------------------------------------------------------

(* What an observation settles: the evidence stays, the status is one of   *)
(* four, only evidence promotes on evidence, and sensitive is for good.    *)
LEMMA ApplyObservationSettles ==
  ASSUME NEW e \in Entries, NEW observation \in Observations
  PROVE  LET f == ApplyObservation(e, observation)
         IN  /\ f \in Entries
             /\ f.uses = e.uses /\ f.cells = e.cells /\ f.distinct = e.distinct
             /\ f.overflow = e.overflow /\ f.pii = e.pii
             /\ f.titlecase = e.titlecase /\ f.long = e.long
             /\ observation = "sensitive" \/ e.status = "auto-sensitive" =>
                  f.status = "auto-sensitive"
             /\ f.status = "auto-safe" /\ f.reason = "enum-evidence" => IsEnumEvidence(f)
<1>1. CASE observation = "sensitive"
  BY <1>1 DEF ApplyObservation, Settle, Entries
<1>2. CASE observation # "sensitive" /\ e.status = "auto-sensitive"
  BY <1>2 DEF ApplyObservation, Settle, Entries
<1>3. CASE observation = "technical" /\ e.status # "auto-sensitive"
  BY <1>3 DEF ApplyObservation, Settle, Entries
<1>4. CASE observation \in {"revalidate", "pending"} /\ e.status # "auto-sensitive"
  BY <1>4 DEF ApplyObservation, Settle, Entries, IsEnumEvidence
<1>. QED BY <1>1, <1>2, <1>3, <1>4 DEF Observations

(* The observation that a reason leads to.                                 *)
LEMMA ObservationType ==
  ASSUME NEW reason, ObservationStatusFor(reason) # "none"
  PROVE  ObservationStatusFor(reason) \in Observations
BY DEF ObservationStatusFor, Observations

(* Hashes that do not overflow an entry are those of all values present.   *)
LEMMA HashesComplete ==
  ASSUME NEW present \in SUBSET Values, NEW distinct \in SUBSET Values,
         NEW hashes \in FirstOf(present, DISTINCT_CAP + 1),
         ~(Cardinality(distinct \cup hashes) > DISTINCT_CAP)
  PROVE  hashes = present
<1>1. DISTINCT_CAP \in Nat /\ IsFiniteSet(present) /\ IsFiniteSet(distinct)
  BY PromotionAssumption, ClassesAssumption, FS_Subset
<1>2. CASE Cardinality(present) <= DISTINCT_CAP + 1
  BY <1>2 DEF FirstOf
<1>3. CASE ~(Cardinality(present) <= DISTINCT_CAP + 1)
  <2>1. hashes \in SUBSET present /\ Cardinality(hashes) = DISTINCT_CAP + 1
    BY <1>3 DEF FirstOf, kSubset
  <2>2. IsFiniteSet(distinct \cup hashes)
    BY <1>1, <2>1, FS_Subset, FS_Union
  <2>3. /\ Cardinality(hashes) <= Cardinality(distinct \cup hashes)
        /\ Cardinality(distinct \cup hashes) \in Nat
    BY <2>2, FS_Subset, FS_CardinalityType
  <2>. QED BY <1>1, <2>1, <2>3
<1>. QED BY <1>2, <1>3

(* What merging a result makes of an entry.                                *)
LEMMA MergeRemembers ==
  ASSUME Inv, NEW r \in Results, entry.uses < MaxUses,
         NEW hashes \in Hashes(r), NEW kept \in Keeps(hashes)
  PROVE  LET e == MergeEvidence(r, hashes, kept)
         IN  /\ e \in Entries
             /\ e.status = entry.status /\ e.uses \in 0 .. MaxUses
             /\ Cardinality(e.distinct) <= DISTINCT_CAP
             /\ ~e.overflow => e.distinct = seen \cup r.present
             /\ ~e.pii => (seen \cup r.present) \cap Pii = {}
             /\ ~e.titlecase => (seen \cup r.present) \cap TitleCase = {}
             /\ ~e.long => (seen \cup r.present) \cap Long = {}
<1> DEFINE union == entry.distinct \cup hashes
           e == MergeEvidence(r, hashes, kept)
<1>1. /\ r.present \in SUBSET Values /\ r.cells \in Nat
      /\ entry \in Entries /\ entry.distinct \in SUBSET Values /\ DISTINCT_CAP \in Nat
      /\ MaxUses \in Nat
  BY BoundsAssumption, PromotionAssumption DEF Results, Inv, Entries
<1>2. hashes \in SUBSET Values
  BY <1>1 DEF Hashes, FirstOf, kSubset
<1>3. /\ kept \in SUBSET Values /\ Cardinality(kept) <= DISTINCT_CAP
      /\ ~(Cardinality(union) > DISTINCT_CAP) => kept = union
  <2>1. IsFiniteSet(union) /\ Cardinality(union) \in Nat
    BY <1>1, <1>2, ClassesAssumption, FS_Subset, FS_CardinalityType
  <2>2. CASE Cardinality(union) <= DISTINCT_CAP
    BY <1>1, <1>2, <2>1, <2>2 DEF Keeps, FirstOf
  <2>3. CASE ~(Cardinality(union) <= DISTINCT_CAP)
    BY <1>1, <1>2, <2>1, <2>3 DEF Keeps, FirstOf, kSubset
  <2>. QED BY <2>2, <2>3
<1>4. /\ e.status = entry.status /\ e.reason = entry.reason
      /\ e.uses = entry.uses + 1 /\ e.cells = entry.cells + r.cells /\ e.distinct = kept
      /\ e.overflow = (entry.overflow \/ Cardinality(union) > DISTINCT_CAP)
      /\ e.pii = (entry.pii \/ HasPii(r))
      /\ e.titlecase = (entry.titlecase \/ r.present \cap TitleCase # {})
      /\ e.long = (entry.long \/ r.present \cap Long # {})
  BY <1>1 DEF MergeEvidence, Entries
<1>5. e \in Entries
  <2>1. /\ entry.uses + 1 \in Nat /\ entry.cells + r.cells \in Nat
        /\ (entry.overflow \/ Cardinality(union) > DISTINCT_CAP) \in BOOLEAN
        /\ (entry.pii \/ HasPii(r)) \in BOOLEAN
        /\ (entry.titlecase \/ r.present \cap TitleCase # {}) \in BOOLEAN
        /\ (entry.long \/ r.present \cap Long # {}) \in BOOLEAN
    BY <1>1 DEF Entries
  <2>2. PICK overflow \in BOOLEAN, pii \in BOOLEAN, titlecase \in BOOLEAN, long \in BOOLEAN :
          /\ overflow = (entry.overflow \/ Cardinality(union) > DISTINCT_CAP)
          /\ pii = (entry.pii \/ HasPii(r))
          /\ titlecase = (entry.titlecase \/ r.present \cap TitleCase # {})
          /\ long = (entry.long \/ r.present \cap Long # {})
    BY <2>1, Zenon
  <2>3. e = [entry EXCEPT !.uses = entry.uses + 1, !.cells = entry.cells + r.cells,
                          !.distinct = kept, !.overflow = overflow, !.pii = pii,
                          !.titlecase = titlecase, !.long = long]
    BY <2>2, Zenon DEF MergeEvidence
  <2>4. /\ overflow \in BOOLEAN /\ pii \in BOOLEAN /\ titlecase \in BOOLEAN /\ long \in BOOLEAN
        /\ entry.uses + 1 \in Nat /\ entry.cells + r.cells \in Nat
    BY <2>1, <2>2, Zenon
  <2> HIDE DEF e
  <2>. QED BY <1>1, <1>3, <2>3, <2>4 DEF Entries
<1>6. e.uses \in 0 .. MaxUses
  BY <1>1, <1>4 DEF Entries
<1>7. ~e.overflow => e.distinct = seen \cup r.present
  <2>1. SUFFICES ASSUME ~e.overflow PROVE e.distinct = seen \cup r.present
    OBVIOUS
  <2>2. ~entry.overflow /\ ~(Cardinality(union) > DISTINCT_CAP)
    BY <1>4, <2>1
  <2>3. entry.distinct = seen
    BY <2>2 DEF Inv, Remembers
  <2>4. hashes = r.present
    BY <1>1, <2>2, HashesComplete DEF Hashes
  <2>. QED BY <1>3, <1>4, <2>2, <2>3, <2>4
<1>8. /\ ~e.pii => (seen \cup r.present) \cap Pii = {}
      /\ ~e.titlecase => (seen \cup r.present) \cap TitleCase = {}
      /\ ~e.long => (seen \cup r.present) \cap Long = {}
  BY <1>4 DEF HasPii, Inv, Remembers
<1>. QED BY <1>3, <1>4, <1>5, <1>6, <1>7, <1>8

LEMMA InitEstablishesInv == Init => Inv
<1>1. SUFFICES ASSUME Init PROVE Inv
  OBVIOUS
<1>2. Cardinality({}) = 0
  BY FS_EmptySet
<1>3. entry \in Entries
  BY <1>1 DEF Init, NoEntry, Entries
<1>4. TypeOK
  <2>1. 0 \in 0 .. MaxUses /\ 0 <= DISTINCT_CAP
    BY PromotionAssumption, BoundsAssumption
  <2>2. /\ entry.status = "unknown" /\ entry.uses = 0 /\ entry.cells = 0 /\ entry.distinct = {}
        /\ entry.overflow = FALSE /\ entry.pii = FALSE /\ entry.titlecase = FALSE
        /\ entry.long = FALSE
    BY <1>1 DEF Init, NoEntry
  <2>3. /\ entry.uses \in 0 .. MaxUses /\ entry.cells \in Nat
        /\ entry.distinct \subseteq Values /\ Cardinality(entry.distinct) <= DISTINCT_CAP
    <3>1. Cardinality(entry.distinct) = 0
      BY <1>2, <2>2
    <3>. QED BY <2>1, <2>2, <3>1
  <2>4. /\ name \in Names /\ human \in Verdicts /\ seen \subseteq Values /\ marked \in BOOLEAN
    BY <1>1 DEF Init, Verdicts
  <2>. QED BY <2>2, <2>3, <2>4 DEF TypeOK
<1>. QED
  BY <1>1, <1>3, <1>4 DEF Init, NoEntry, Inv, Remembers, Promoted

(* A query that records keeps the invariant.                               *)
LEMMA QueryKeepsInv ==
  ASSUME Inv, NEW r \in Results, Query(r)
  PROVE  Inv'
<1> DEFINE observation == ObservationStatusFor(Decision(r, r.first).reason)
<1>1. /\ observation \in Observations /\ entry.uses < MaxUses
      /\ seen' = seen \cup r.present /\ marked' = (marked \/ observation = "sensitive")
      /\ UNCHANGED <<name, human>>
  BY ObservationType DEF Query
<1>2. PICK hashes \in Hashes(r) : \E kept \in Keeps(hashes) :
        entry' = ApplyObservation(MergeEvidence(r, hashes, kept), observation)
  BY DEF Query
<1>3. PICK kept \in Keeps(hashes) :
        entry' = ApplyObservation(MergeEvidence(r, hashes, kept), observation)
  BY <1>2
<1> DEFINE e == MergeEvidence(r, hashes, kept)
<1>4. /\ e \in Entries
      /\ e.status = entry.status /\ e.uses \in 0 .. MaxUses
      /\ Cardinality(e.distinct) <= DISTINCT_CAP
      /\ ~e.overflow => e.distinct = seen \cup r.present
      /\ ~e.pii => (seen \cup r.present) \cap Pii = {}
      /\ ~e.titlecase => (seen \cup r.present) \cap TitleCase = {}
      /\ ~e.long => (seen \cup r.present) \cap Long = {}
  BY <1>1, MergeRemembers
<1>5. /\ entry' \in Entries
      /\ entry'.uses = e.uses /\ entry'.cells = e.cells /\ entry'.distinct = e.distinct
      /\ entry'.overflow = e.overflow /\ entry'.pii = e.pii
      /\ entry'.titlecase = e.titlecase /\ entry'.long = e.long
      /\ observation = "sensitive" \/ e.status = "auto-sensitive" =>
           entry'.status = "auto-sensitive"
      /\ entry'.status = "auto-safe" /\ entry'.reason = "enum-evidence" =>
           IsEnumEvidence(entry')
  <2> HIDE DEF e, observation
  <2>. QED BY <1>1, <1>3, <1>4, ApplyObservationSettles DEF e
<1> HIDE DEF e, observation
<1>6. TypeOK'
  <2>1. r.present \subseteq Values
    BY DEF Results
  <2>2. /\ entry'.status \in {"unknown", "pending", "auto-safe", "auto-sensitive"}
        /\ entry'.uses \in 0 .. MaxUses /\ entry'.cells \in Nat
        /\ entry'.distinct \subseteq Values /\ Cardinality(entry'.distinct) <= DISTINCT_CAP
        /\ entry'.overflow \in BOOLEAN /\ entry'.pii \in BOOLEAN
        /\ entry'.titlecase \in BOOLEAN /\ entry'.long \in BOOLEAN
    BY <1>4, <1>5 DEF Entries
  <2>. QED BY <1>1, <2>1, <2>2 DEF Inv, TypeOK
<1>7. Remembers'
  BY <1>1, <1>4, <1>5 DEF Remembers
<1>8. Promoted'
  BY <1>5 DEF Promoted, IsEnumEvidence
<1>9. (marked => entry.status = "auto-sensitive")'
  BY <1>1, <1>4, <1>5 DEF Inv
<1>. QED BY <1>5, <1>6, <1>7, <1>8, <1>9 DEF Inv

LEMMA NextKeepsInv == Inv /\ [Next]_vars => Inv'
<1>1. SUFFICES ASSUME Inv, [Next]_vars PROVE Inv'
  OBVIOUS
<1>2. CASE \E r \in Results : Query(r)
  BY <1>1, <1>2, QueryKeepsInv
<1>3. CASE UNCHANGED vars \/ \E verdict \in Verdicts : HumanDecides(verdict)
  BY <1>1, <1>3
  DEF vars, HumanDecides, Inv, TypeOK, Remembers, Promoted, IsEnumEvidence
<1>. QED BY <1>1, <1>2, <1>3 DEF Next

(* Every reachable state satisfies the inductive invariant.                *)
THEOREM Invariance == Spec => []Inv
BY InitEstablishesInv, NextKeepsInv, PTL DEF Spec

(* The entry keeps its types, and to its cap.                              *)
THEOREM TypeCorrect == Spec => []TypeOK
<1>1. Inv => TypeOK
  BY DEF Inv
<1>. QED BY Invariance, <1>1, PTL

(* A column promoted on evidence has shown, in all the queries ever        *)
(* recorded, a small closed set of repeated, short values without names    *)
(* or personal data, although its entry forgets values beyond its cap.     *)
THEOREM SoundEvidence == Spec => []EvidenceIsSound
<1>1. ASSUME Inv PROVE EvidenceIsSound
  <2>1. SUFFICES ASSUME entry.status = "auto-safe", entry.reason = "enum-evidence"
                 PROVE  /\ seen # {} /\ Cardinality(seen) <= DISTINCT_CAP
                        /\ seen \cap (Pii \cup TitleCase \cup Long) = {}
                        /\ entry.uses >= PROMOTE_MIN_USES
                        /\ entry.cells >= PROMOTE_MIN_CELLS
                        /\ entry.cells >= PROMOTE_MIN_REPEAT * Cardinality(seen)
    BY DEF EvidenceIsSound
  <2>2. IsEnumEvidence(entry)
    BY <1>1, <2>1 DEF Inv, Promoted
  <2>3. entry.distinct = seen
    BY <1>1, <2>2 DEF Inv, Remembers, IsEnumEvidence
  <2>4. seen \cap Pii = {} /\ seen \cap TitleCase = {} /\ seen \cap Long = {}
    BY <1>1, <2>2 DEF Inv, Remembers, IsEnumEvidence
  <2>5. Cardinality(seen) <= DISTINCT_CAP
    BY <1>1, <2>3 DEF Inv, TypeOK
  <2>. QED BY <2>2, <2>3, <2>4, <2>5 DEF IsEnumEvidence
<1>. QED BY Invariance, <1>1, PTL

(* Whatever a query returns of a column once found sensitive, it leaves    *)
(* nothing in clear but for the human or the rules for files and dates.    *)
THEOREM StaysMasked == Spec => []SensitiveStaysMasked
<1>1. ASSUME Inv, marked, NEW r \in Results, NEW cell \in r.present,
             Decision(r, cell).kind = "clear"
      PROVE  Decision(r, cell).reason \in {"catalog:human-safe", "safe:file-name", "safe:datetime"}
  <2>1. entry.status = "auto-sensitive"
    BY <1>1 DEF Inv
  <2>2. DecideFromCatalog \in {Masked("catalog:human-sensitive"), Clear("catalog:human-safe"),
                               Masked("catalog:auto-sensitive")}
    BY <2>1 DEF DecideFromCatalog
  <2>3. DecideStructuralSafe(r) \in {Undecided, Clear("safe:file-name"), Clear("safe:datetime")}
    BY DEF DecideStructuralSafe
  <2>4. DecideFromCatalog # Undecided
    BY <2>2 DEF Masked, Clear, Undecided
  <2>5. Decision(r, cell) \in {DecideFromCatalog, DecideStructuralSafe(r)}
        /\ (Decision(r, cell) = DecideStructuralSafe(r) =>
              DecideStructuralSafe(r) # Undecided \/ DecideFromCatalog = DecideStructuralSafe(r))
    BY <2>4 DEF Decision
  <2>. QED BY <1>1, <2>2, <2>3, <2>5 DEF Masked, Clear, Undecided
<1>2. ASSUME Inv PROVE SensitiveStaysMasked
  BY <1>1, <1>2 DEF SensitiveStaysMasked, ClearedBy
<1>. QED BY Invariance, <1>2, PTL

=============================================================================
