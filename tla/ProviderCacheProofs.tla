------------------------- MODULE ProviderCacheProofs -------------------------
(***************************************************************************)
(* Proofs about ProviderCache, for any number of queries, targets and      *)
(* columns and any size of the cache.                                      *)
(*                                                                         *)
(* First whatever is evicted, in whatever order: no verdict crosses from   *)
(* one target to another, and the cache implements the registers of        *)
(* VerdictRegister.  Then the order of the cache: what getting and setting *)
(* one key does to it, what the folds Touched and Filled therefore do, and *)
(* that the verdicts a query is owed are never the ones evicted.           *)
(***************************************************************************)
EXTENDS ProviderCache, SequenceTheorems, FiniteSetTheorems, WellFoundedInduction, TLAPS

Stored == Verdicts \cup {Undecided}

Typed ==
  /\ verdict \in [Keys -> Stored]
  /\ phase \in [Queries -> {"idle", "asking", "reading", "resolved", "masked", "refused"}]
  /\ request \in [Queries -> Requests]
  /\ unknown \in [Queries -> SUBSET Columns]
  /\ fieldKindMap \in [Queries -> [Columns -> Stored]]
  /\ decided \in [Queries -> [Columns -> Stored]]

(* A query has its map only between the provider and the rows, and its     *)
(* verdicts only once its rows are masked.                                 *)
InOrder ==
  \A q \in Queries :
    /\ phase[q] # "resolved" => fieldKindMap[q] = Nothing
    /\ phase[q] # "masked" => decided[q] = Nothing

(* Every verdict lies where its target's queries look.                     *)
FromOwnTarget ==
  /\ \A k \in Keys : verdict[k] # Undecided => verdict[k].from = k[1]
  /\ \A q \in Queries, c \in Columns :
       fieldKindMap[q][c] # Undecided => fieldKindMap[q][c].from = request[q].target

Inv == Typed /\ InOrder /\ FromOwnTarget /\ TargetsApart

----------------------------------------------------------------------------

LEMMA NothingTyped == Nothing \in [Columns -> Stored]
BY DEF Nothing, Stored

LEMMA KeyTyped ==
  ASSUME NEW r \in Requests, NEW c \in Columns
  PROVE  KeyFor(r, c) \in Keys /\ KeyFor(r, c)[1] = r.target
BY DEF Keys, KeyFor

(* A column that a request finds cached has a verdict of its target.       *)
LEMMA CachedTyped ==
  ASSUME Inv, NEW r \in Requests, NEW c \in Columns
  PROVE  /\ Cached(r, c) \in Stored
         /\ Cached(r, c) # Undecided => Cached(r, c).from = r.target
BY KeyTyped DEF Inv, Typed, FromOwnTarget, Cached

LEMMA VerdictTyped ==
  ASSUME NEW reply \in Replies, NEW r \in Requests
  PROVE  VerdictOf(reply, r.target) \in Verdicts /\ VerdictOf(reply, r.target).from = r.target
BY DEF VerdictOf, Verdicts, Targets, NormalizeKind

LEMMA InitInv == Init => Inv
<1>. SUFFICES ASSUME Init PROVE Inv
  OBVIOUS
<1>1. (CHOOSE r \in Requests : TRUE) \in Requests
  BY RequestsAssumption
<1>2. Typed
  BY <1>1, NothingTyped DEF Init, Typed, Stored
<1>3. InOrder
  BY DEF Init, InOrder
<1>4. FromOwnTarget /\ TargetsApart
  BY DEF Init, FromOwnTarget, TargetsApart, Nothing
<1>. QED BY <1>2, <1>3, <1>4 DEF Inv

(* What Learns does to the cache: the columns of the query get verdicts of *)
(* its target, and the other keys keep theirs or lose them.                *)
LEMMA LearnsCaches ==
  ASSUME Inv, NEW q \in Queries, NEW fields \in [unknown[q] -> Replies], Learns(q, fields)
  PROVE  /\ verdict' \in [Keys -> Stored]
         /\ \A k \in Keys :
              \/ verdict'[k] \in {verdict[k], Undecided}
              \/ /\ verdict'[k] \in Verdicts /\ verdict'[k].from = k[1]
                 /\ \E c \in Columns : k = KeyFor(request[q], c)
<1>. DEFINE r == request[q]
            learned == {c \in unknown[q] : Decides(fields[c])}
            keys == Filled(recency, r, Payload(r), learned)
            chosen(k) == CHOOSE c \in learned : KeyFor(r, c) = k
<1>1. r \in Requests /\ learned \subseteq Columns /\ learned \subseteq unknown[q]
  BY DEF Inv, Typed
<1>2. verdict' = [k \in Keys |-> IF \E c \in learned : KeyFor(r, c) = k
                                 THEN VerdictOf(fields[chosen(k)], r.target) ELSE Kept(keys)[k]]
  BY DEF Learns
<1>. HIDE DEF keys
<1>3. ASSUME NEW k \in Keys
      PROVE  /\ verdict'[k] \in Stored
             /\ \/ verdict'[k] \in {verdict[k], Undecided}
                \/ /\ verdict'[k] \in Verdicts /\ verdict'[k].from = k[1]
                   /\ \E c \in Columns : k = KeyFor(r, c)
  <2>1. CASE \E c \in learned : KeyFor(r, c) = k
    <3>1. chosen(k) \in learned /\ KeyFor(r, chosen(k)) = k
      BY <2>1
    <3>2. fields[chosen(k)] \in Replies
      BY <3>1, <1>1
    <3>3. verdict'[k] = VerdictOf(fields[chosen(k)], r.target)
      BY <1>2, <2>1
    <3>4. k[1] = r.target
      BY <3>1, <1>1, KeyTyped
    <3>. HIDE DEF chosen
    <3>. QED BY <3>1, <3>2, <3>3, <3>4, <1>1, VerdictTyped DEF Stored
  <2>2. CASE ~\E c \in learned : KeyFor(r, c) = k
    <3>1. verdict'[k] = IF k \in ToSet(keys) THEN verdict[k] ELSE Undecided
      BY <1>2, <2>2 DEF Kept
    <3>. QED BY <3>1 DEF Inv, Typed, Stored
  <2>. QED BY <2>1, <2>2
<1>4. verdict' \in [Keys -> Stored]
  BY <1>2, <1>3
<1>. QED BY <1>3, <1>4

(* What Learns reads back is what it left in the cache.                    *)
LEMMA LearnsReads ==
  ASSUME Inv, NEW q \in Queries, NEW fields \in [unknown[q] -> Replies], Learns(q, fields),
         NEW c \in Columns
  PROVE  fieldKindMap'[q][c] \in {Undecided, verdict'[KeyFor(request[q], c)]}
BY DEF Learns, Inv, Typed

----------------------------------------------------------------------------

LEMMA LookUpInv ==
  ASSUME Inv, NEW q \in Queries, NEW r \in Requests, LookUp(q, r)
  PROVE  Inv'
<1>. DEFINE found == [c \in Columns |-> IF c \in ToSet(Payload(r)) THEN Cached(r, c) ELSE Undecided]
<1>1. found \in [Columns -> Stored] /\ \A c \in Columns : found[c] # Undecided => found[c].from = r.target
  BY CachedTyped DEF Stored
<1>2. /\ phase' \in [Queries -> {"idle", "asking", "reading", "resolved", "masked", "refused"}]
      /\ phase'[q] \in {"asking", "resolved"} /\ \A p \in Queries \ {q} : phase'[p] = phase[p]
  BY DEF LookUp, Inv, Typed
<1>3. /\ request' = [request EXCEPT ![q] = r]
      /\ fieldKindMap'[q] = Nothing \/ fieldKindMap'[q] = found
      /\ phase'[q] = "asking" => fieldKindMap'[q] = Nothing
      /\ fieldKindMap' = [fieldKindMap EXCEPT ![q] = fieldKindMap'[q]]
      /\ UNCHANGED <<verdict, decided>>
      /\ phase[q] = "idle"
  BY DEF LookUp, Inv, Typed
<1>4. unknown' \in [Queries -> SUBSET Columns]
  <2>1. ToSet(Payload(r)) \subseteq Columns
    BY RequestsAssumption, SizesAssumption DEF Payload, ToSet
  <2>. QED BY <2>1 DEF LookUp, Inv, Typed
<1>. HIDE DEF found
<1>5. Typed'
  <2>1. fieldKindMap'[q] \in [Columns -> Stored]
    BY <1>1, <1>3, NothingTyped
  <2>2. fieldKindMap' \in [Queries -> [Columns -> Stored]]
    BY <1>3, <2>1 DEF Inv, Typed
  <2>3. request' \in [Queries -> Requests]
    BY <1>3 DEF Inv, Typed
  <2>. HIDE DEF Stored
  <2>. QED BY <1>2, <1>3, <1>4, <2>2, <2>3 DEF Inv, Typed
<1>6. InOrder'
  BY <1>2, <1>3 DEF Inv, Typed, InOrder
<1>7. FromOwnTarget'
  BY <1>1, <1>3 DEF Inv, Typed, FromOwnTarget, Nothing
<1>8. TargetsApart'
  <2>1. decided[q] = Nothing
    BY <1>3 DEF Inv, InOrder
  <2>. QED BY <1>3, <2>1 DEF Inv, Typed, TargetsApart, Nothing
<1>. QED BY <1>5, <1>6, <1>7, <1>8 DEF Inv

LEMMA LearnsInv ==
  ASSUME Inv, NEW q \in Queries, NEW fields \in [unknown[q] -> Replies], Learns(q, fields)
  PROVE  Inv'
<1>1. /\ verdict' \in [Keys -> Stored]
      /\ \A k \in Keys : verdict'[k] # Undecided => verdict'[k].from = k[1]
  BY LearnsCaches DEF Inv, FromOwnTarget
<1>2. fieldKindMap' = [fieldKindMap EXCEPT ![q] = fieldKindMap'[q]]
  BY DEF Learns, Inv, Typed
<1>3. /\ phase' = [phase EXCEPT ![q] = "resolved"]
      /\ unknown' = [unknown EXCEPT ![q] = {}]
      /\ UNCHANGED <<request, decided>>
      /\ phase[q] = "reading"
  BY DEF Learns
<1>4. fieldKindMap'[q] \in [Columns -> Stored]
  <2>1. /\ fieldKindMap'[q] = [c \in Columns |-> fieldKindMap'[q][c]]
    BY DEF Learns, Inv, Typed
  <2>2. \A c \in Columns : fieldKindMap'[q][c] \in Stored
    BY LearnsReads, <1>1, KeyTyped DEF Inv, Typed, Stored
  <2>. HIDE DEF Stored
  <2>. QED BY <2>1, <2>2
<1>5. \A c \in Columns : fieldKindMap'[q][c] # Undecided => fieldKindMap'[q][c].from = request[q].target
  BY LearnsReads, <1>1, KeyTyped DEF Inv, Typed
<1>6. Typed'
  BY <1>1, <1>2, <1>3, <1>4 DEF Inv, Typed
<1>7. InOrder'
  BY <1>2, <1>3 DEF Inv, Typed, InOrder
<1>8. FromOwnTarget'
  <2>1. ASSUME NEW p \in Queries, NEW c \in Columns, fieldKindMap'[p][c] # Undecided
        PROVE  fieldKindMap'[p][c].from = request'[p].target
    <3>1. CASE p = q
      BY <3>1, <2>1, <1>3, <1>5
    <3>2. CASE p # q
      <4>1. fieldKindMap'[p] = fieldKindMap[p]
        BY <3>2, <1>2 DEF Inv, Typed
      <4>. QED BY <4>1, <2>1, <1>3 DEF Inv, FromOwnTarget
    <3>. QED BY <3>1, <3>2
  <2>. QED BY <2>1, <1>1 DEF FromOwnTarget
<1>9. TargetsApart'
  BY <1>3 DEF Inv, TargetsApart
<1>. QED BY <1>6, <1>7, <1>8, <1>9 DEF Inv

LEMMA MaskRowsInv ==
  ASSUME Inv, NEW q \in Queries, MaskRows(q)
  PROVE  Inv'
<1>1. /\ phase' = [phase EXCEPT ![q] = "masked"]
      /\ fieldKindMap' = [fieldKindMap EXCEPT ![q] = Nothing]
      /\ decided' = [decided EXCEPT ![q] = decided'[q]]
      /\ decided'[q] = [c \in Columns |-> decided'[q][c]]
      /\ UNCHANGED <<verdict, request, unknown>>
      /\ phase[q] = "resolved"
  BY DEF MaskRows, Inv, Typed
<1>2. ASSUME NEW c \in Columns
      PROVE  /\ decided'[q][c] \in Stored
             /\ decided'[q][c] # Undecided => decided'[q][c].from = request[q].target
  <2>1. decided'[q][c] \in {Undecided, ResolveKind(q, c)}
    BY DEF MaskRows, Inv, Typed
  <2>2. ResolveKind(q, c) \in {fieldKindMap[q][c], Cached(request[q], c)}
    BY DEF ResolveKind
  <2>. QED BY <2>1, <2>2, CachedTyped DEF Inv, Typed, FromOwnTarget, Stored
<1>3. decided'[q] \in [Columns -> Stored]
  BY <1>1, <1>2
<1>4. Typed'
  BY <1>1, <1>3, NothingTyped DEF Inv, Typed
<1>5. InOrder'
  BY <1>1 DEF Inv, Typed, InOrder
<1>6. FromOwnTarget'
  BY <1>1 DEF Inv, Typed, FromOwnTarget, Nothing
<1>7. TargetsApart'
  BY <1>1, <1>2 DEF Inv, Typed, TargetsApart
<1>. QED BY <1>4, <1>5, <1>6, <1>7 DEF Inv

(* The steps that leave the cache and every map and verdict as they are.   *)
LEMMA QuietInv ==
  ASSUME Inv, NEW q \in Queries,
         NEW p \in {"idle", "reading", "resolved", "refused"},
         phase' = [phase EXCEPT ![q] = p],
         NEW r \in Requests,
         request' = request \/ (phase[q] = "idle" /\ request' = [request EXCEPT ![q] = r]),
         unknown' = unknown \/ unknown' = [unknown EXCEPT ![q] = {}],
         fieldKindMap' = fieldKindMap, verdict' = verdict,
         phase[q] # "resolved",
         (decided' = decided /\ phase[q] # "masked") \/ decided' = [decided EXCEPT ![q] = Nothing]
  PROVE  Inv'
<1>1. Typed'
  <2>1. request' \in [Queries -> Requests]
    BY DEF Inv, Typed
  <2>2. decided' \in [Queries -> [Columns -> Stored]]
    BY NothingTyped DEF Inv, Typed
  <2>3. unknown' \in [Queries -> SUBSET Columns]
    BY DEF Inv, Typed
  <2>4. phase' \in [Queries -> {"idle", "asking", "reading", "resolved", "masked", "refused"}]
    BY DEF Inv, Typed
  <2>. HIDE DEF Stored
  <2>. QED BY <2>1, <2>2, <2>3, <2>4 DEF Inv, Typed
<1>2. InOrder'
  BY DEF Inv, Typed, InOrder
<1>3. FromOwnTarget'
  BY DEF Inv, Typed, InOrder, FromOwnTarget, Nothing
<1>4. TargetsApart'
  <2>1. decided'[q] = Nothing
    BY DEF Inv, Typed, InOrder
  <2>2. \A other \in Queries \ {q} : decided'[other] = decided[other] /\ request'[other] = request[other]
    BY DEF Inv, Typed
  <2>. QED BY <2>1, <2>2 DEF Inv, TargetsApart, Nothing
<1>. QED BY <1>1, <1>2, <1>3, <1>4 DEF Inv

LEMMA NextInv == Inv /\ [Next]_vars => Inv'
<1>. SUFFICES ASSUME Inv, [Next]_vars PROVE Inv'
  OBVIOUS
<1>1. ASSUME NEW q \in Queries, NEW r \in Requests, ClassifyWithoutProvider(q, r)
      PROVE  Inv'
  <2>1. /\ phase[q] = "idle" /\ request' = [request EXCEPT ![q] = r]
        /\ UNCHANGED <<verdict, unknown, fieldKindMap, decided>>
    BY <1>1 DEF ClassifyWithoutProvider, cacheVars
  <2>2. PICK p \in {"resolved", "refused"} : phase' = [phase EXCEPT ![q] = p]
    BY <1>1 DEF ClassifyWithoutProvider, Unresolved
  <2>. QED BY <2>1, <2>2, QuietInv
<1>2. ASSUME NEW q \in Queries, ResponseBegins(q) PROVE Inv'
  <2>1. phase' = [phase EXCEPT ![q] = "reading"] /\ phase[q] = "asking" /\ UNCHANGED <<verdict, request, unknown, fieldKindMap, decided>>
    BY <1>2 DEF ResponseBegins, cacheVars
  <2>2. request[q] \in Requests
    BY DEF Inv, Typed
  <2>. QED BY <2>1, <2>2, QuietInv
<1>3. ASSUME NEW q \in Queries, ProviderFails(q) \/ TimesOut(q) PROVE Inv'
  <2>1. /\ phase[q] \in {"asking", "reading"} /\ unknown' = [unknown EXCEPT ![q] = {}]
        /\ UNCHANGED <<verdict, request, fieldKindMap, decided>>
    BY <1>3 DEF ProviderFails, TimesOut, GivesUp, cacheVars
  <2>2. PICK p \in {"resolved", "refused"} : phase' = [phase EXCEPT ![q] = p]
    BY <1>3 DEF ProviderFails, TimesOut, GivesUp, Unresolved
  <2>3. request[q] \in Requests
    BY DEF Inv, Typed
  <2>. QED BY <2>1, <2>2, <2>3, QuietInv
<1>4. ASSUME NEW q \in Queries, Return(q) PROVE Inv'
  <2>1. /\ phase' = [phase EXCEPT ![q] = "idle"] /\ phase[q] \in {"masked", "refused"}
        /\ decided' = [decided EXCEPT ![q] = Nothing]
        /\ UNCHANGED <<verdict, request, unknown, fieldKindMap>>
    BY <1>4 DEF Return, cacheVars
  <2>2. request[q] \in Requests
    BY DEF Inv, Typed
  <2>. QED BY <2>1, <2>2, QuietInv
<1>5. CASE UNCHANGED vars
  BY <1>5 DEF Inv, Typed, InOrder, FromOwnTarget, TargetsApart, Cached, vars, cacheVars, queryVars
<1>. QED BY <1>1, <1>2, <1>3, <1>4, <1>5, LookUpInv, LearnsInv, MaskRowsInv DEF Next

LEMMA Invariance == Spec => []Inv
BY InitInv, NextInv, PTL DEF Spec

(* A query is never answered with a verdict obtained on another target:    *)
(* the keys of LLM_KIND_CACHE keep the targets apart.                      *)
THEOREM NeverAcrossTargets == Spec => []TargetsApart
BY Invariance, PTL DEF Inv

----------------------------------------------------------------------------
(* The refinement.                                                         *)

LEMMA SameNames ==
  /\ Register!Registers = Keys
  /\ \A r \in Requests, c \in Columns : Register!RegisterOf(r, c) = KeyFor(r, c)
  /\ Register!Nothing = Nothing
BY DEF Register!Registers, Register!RegisterOf, Register!Nothing, Keys, KeyFor, Nothing

LEMMA InitRefines == Init => Register!Init
<1>. SUFFICES ASSUME Init PROVE Register!Init
  OBVIOUS
<1>1. verdict = [k \in Register!Registers |-> Undecided]
  BY SameNames DEF Init
<1>2. Running = {}
  BY DEF Init, Running
<1>3. request \in [Queries -> Requests]
  BY InitInv DEF Inv, Typed
<1>4. ReadSoFar = [q \in Queries |-> Register!Nothing]
  BY SameNames DEF Init, ReadSoFar
<1>. QED BY <1>1, <1>2, <1>3, <1>4 DEF Register!Init

(* A step of q that moves only q leaves the others undisturbed.            *)
LEMMA MovesAlone ==
  ASSUME Inv, Inv', NEW q \in Queries,
         \A p \in Queries \ {q} :
           /\ phase'[p] = phase[p] /\ request'[p] = request[p]
           /\ fieldKindMap'[p] = fieldKindMap[p] /\ decided'[p] = decided[p]
  PROVE  Register!OthersAreUndisturbed(q)
<1>1. \A p \in Queries \ {q} : ReadSoFar'[p] = ReadSoFar[p]
  BY DEF ReadSoFar
<1>2. Running' \ {q} = Running \ {q}
  BY DEF Running
<1>. QED BY <1>1, <1>2 DEF Register!OthersAreUndisturbed

LEMMA BeginsRefines ==
  ASSUME Inv, Inv', NEW q \in Queries, NEW r \in Requests,
         ClassifyWithoutProvider(q, r) \/ LookUp(q, r)
  PROVE  Register!Start(q)
<1>1. /\ phase[q] = "idle" /\ phase'[q] \notin {"idle", "masked"}
      /\ request'[q] = r
      /\ verdict' = verdict
      /\ \A p \in Queries \ {q} :
           /\ phase'[p] = phase[p] /\ request'[p] = request[p]
           /\ fieldKindMap'[p] = fieldKindMap[p] /\ decided'[p] = decided[p]
  BY DEF ClassifyWithoutProvider, LookUp, Unresolved, cacheVars, Inv, Typed
<1>2. \A c \in Columns : fieldKindMap'[q][c] \in {Undecided, Cached(r, c)}
  <2>1. CASE ClassifyWithoutProvider(q, r)
    <3>1. fieldKindMap'[q] = Nothing
      BY <2>1, <1>1 DEF ClassifyWithoutProvider, Inv, InOrder
    <3>. QED BY <3>1 DEF Nothing
  <2>2. CASE LookUp(q, r)
    BY <2>2 DEF LookUp, Inv, Typed, Nothing
  <2>. QED BY <2>1, <2>2
<1>3. \A c \in Columns : ReadSoFar'[q][c] \in {Undecided, verdict[Register!RegisterOf(request'[q], c)]}
  BY <1>1, <1>2, SameNames DEF ReadSoFar, Cached
<1>4. q \notin Running /\ Running' = Running \cup {q}
  BY <1>1 DEF Running
<1>. QED BY <1>1, <1>3, <1>4, MovesAlone DEF Register!Start

LEMMA LearnsRefines ==
  ASSUME Inv, Inv', NEW q \in Queries, NEW fields \in [unknown[q] -> Replies], Learns(q, fields)
  PROVE  Register!Step(q)
<1>1. /\ phase[q] = "reading" /\ phase'[q] = "resolved"
      /\ request' = request
      /\ \A p \in Queries \ {q} :
           /\ phase'[p] = phase[p] /\ request'[p] = request[p]
           /\ fieldKindMap'[p] = fieldKindMap[p] /\ decided'[p] = decided[p]
  BY DEF Learns, Inv, Typed
<1>2. Register!Rewritten(q)
  BY LearnsCaches, SameNames DEF Register!Rewritten, Inv, Typed
<1>3. Register!ReadBy(q)
  <2>1. ReadSoFar[q] = Nothing /\ ReadSoFar'[q] = fieldKindMap'[q] /\ request[q] \in Requests
    BY <1>1 DEF ReadSoFar, Inv, InOrder, Typed
  <2>2. \A c \in Columns : fieldKindMap'[q][c] \in {Undecided, verdict'[KeyFor(request[q], c)]}
    BY LearnsReads
  <2>. QED BY <2>1, <2>2, SameNames DEF Register!ReadBy, Nothing
<1>4. q \in Running /\ q \in Running'
  BY <1>1 DEF Running
<1>. QED BY <1>1, <1>2, <1>3, <1>4, MovesAlone DEF Register!Step

LEMMA MaskRowsRefines ==
  ASSUME Inv, Inv', NEW q \in Queries, MaskRows(q)
  PROVE  Register!Step(q)
<1>1. /\ phase[q] = "resolved" /\ phase'[q] = "masked"
      /\ request' = request /\ verdict' = verdict
      /\ \A p \in Queries \ {q} :
           /\ phase'[p] = phase[p] /\ request'[p] = request[p]
           /\ fieldKindMap'[p] = fieldKindMap[p] /\ decided'[p] = decided[p]
  BY DEF MaskRows, Inv, Typed
<1>2. Register!Rewritten(q)
  BY <1>1 DEF Register!Rewritten
<1>3. Register!ReadBy(q)
  <2>1. ReadSoFar[q] = fieldKindMap[q] /\ ReadSoFar'[q] = decided'[q] /\ request[q] \in Requests
    BY <1>1 DEF ReadSoFar, Inv, Typed
  <2>2. \A c \in Columns : decided'[q][c] \in {Undecided, ResolveKind(q, c)}
    BY DEF MaskRows, Inv, Typed
  <2>3. \A c \in Columns : ResolveKind(q, c) = IF fieldKindMap[q][c] # Undecided THEN fieldKindMap[q][c]
                                               ELSE verdict'[KeyFor(request[q], c)]
    BY <1>1 DEF ResolveKind, Cached
  <2>. QED BY <2>1, <2>2, <2>3, SameNames DEF Register!ReadBy
<1>4. q \in Running /\ q \in Running'
  BY <1>1 DEF Running
<1>. QED BY <1>1, <1>2, <1>3, <1>4, MovesAlone DEF Register!Step

LEMMA ReturnRefines ==
  ASSUME Inv, Inv', NEW q \in Queries, Return(q)
  PROVE  Register!End(q)
<1>1. /\ phase[q] \in {"masked", "refused"} /\ phase' = [phase EXCEPT ![q] = "idle"]
      /\ decided' = [decided EXCEPT ![q] = Nothing]
      /\ UNCHANGED <<verdict, request, fieldKindMap>>
  BY DEF Return, cacheVars
<1>2. fieldKindMap[q] = Nothing
  BY <1>1 DEF Inv, InOrder
<1>3. q \in Running /\ Running' = Running \ {q}
  BY <1>1 DEF Running, Inv, Typed
<1>4. ReadSoFar' = [ReadSoFar EXCEPT ![q] = Nothing]
  BY <1>1, <1>2 DEF ReadSoFar, Inv, Typed
<1>. QED BY <1>1, <1>3, <1>4, SameNames DEF Register!End

(* The steps of the provider that no query reads yet.                      *)
LEMMA WaitingRefines ==
  ASSUME Inv, Inv', NEW q \in Queries, ResponseBegins(q) \/ ProviderFails(q) \/ TimesOut(q)
  PROVE  UNCHANGED Register!vars
<1>1. /\ phase[q] \in {"asking", "reading"} /\ phase'[q] \notin {"idle", "masked"}
      /\ \A p \in Queries \ {q} : phase'[p] = phase[p]
      /\ UNCHANGED <<verdict, request, fieldKindMap, decided>>
  BY DEF ResponseBegins, ProviderFails, TimesOut, GivesUp, Unresolved, cacheVars, Inv, Typed
<1>2. Running' = Running
  BY <1>1 DEF Running
<1>3. ReadSoFar' = ReadSoFar
  BY <1>1 DEF ReadSoFar
<1>. QED BY <1>1, <1>2, <1>3 DEF Register!vars

LEMMA StepRefines == Inv /\ Inv' /\ [Next]_vars => [Register!Next]_Register!vars
<1>. SUFFICES ASSUME Inv, Inv', [Next]_vars PROVE [Register!Next]_Register!vars
  OBVIOUS
<1>1. CASE UNCHANGED vars
  BY <1>1 DEF vars, cacheVars, queryVars, Register!vars, Running, ReadSoFar
<1>. QED
  BY <1>1, BeginsRefines, LearnsRefines, MaskRowsRefines, ReturnRefines, WaitingRefines
  DEF Next, Register!Next

(* The cache, with its evictions and its awaits, implements a register per *)
(* target, sources and column that each query reads once.                  *)
THEOREM CacheIsRegisters == Spec => ImplementsRegisters
BY InitRefines, StepRefines, Invariance, PTL DEF Spec, ImplementsRegisters, Register!Spec

----------------------------------------------------------------------------
(***************************************************************************)
(* The order of the cache.                                                 *)
(***************************************************************************)

(* No key is in the cache twice.                                           *)
Distinct(keys) == \A i, j \in 1 .. Len(keys) : keys[i] = keys[j] => i = j

(* The keys K are in the cache, and no other was used after one of them.   *)
Recent(keys, K) ==
  /\ K \subseteq ToSet(keys)
  /\ \A i, j \in 1 .. Len(keys) : i < j /\ keys[i] \in K => keys[j] \in K

(* The elements of a sequence are those at its positions.                  *)
LEMMA Members ==
  ASSUME NEW keys \in Seq(Keys)
  PROVE  \A k : k \in ToSet(keys) <=> \E i \in 1 .. Len(keys) : keys[i] = k
BY DEF ToSet

(* A key that is found moves to the end.                                   *)
LEMMA MovedToEnd ==
  ASSUME NEW keys \in Seq(Keys), Distinct(keys),
         NEW p \in 1 .. Len(keys), NEW key, key = keys[p]
  PROVE  LET moved == Append(RemoveFirst(keys, key), key)
         IN  /\ moved \in Seq(Keys) /\ Len(moved) = Len(keys)
             /\ \A i \in 1 .. Len(keys) :
                  moved[i] = IF i = Len(keys) THEN key
                             ELSE IF i < p THEN keys[i] ELSE keys[i + 1]
<1>. DEFINE rest == RemoveFirst(keys, key)
            before == SubSeq(keys, 1, p - 1)
            after == SubSeq(keys, p + 1, Len(keys))
<1>1. Len(keys) \in Nat /\ p \in Nat /\ key \in Keys
  OBVIOUS
<1>2. rest = RemoveAt(keys, p)
  <2>1. {i \in 1 .. Len(keys) : keys[i] = key} = {p}
    BY DEF Distinct
  <2>2. Min({p}) = p
    BY <1>1 DEF Min
  <2>3. SelectInSeq(keys, LAMBDA v : v = key) = p
    BY <2>1, <2>2 DEF SelectInSeq
  <2>. QED BY <2>3 DEF RemoveFirst
<1>3. rest = before \o after
  BY <1>2 DEF RemoveAt
<1>4. /\ before \in Seq(Keys) /\ Len(before) = p - 1
      /\ \A i \in 1 .. p - 1 : before[i] = keys[i]
  BY <1>1, SubSeqProperties
<1>5. /\ after \in Seq(Keys) /\ Len(after) = Len(keys) - p
      /\ \A i \in 1 .. Len(keys) - p : after[i] = keys[p + i]
  <2>1. p + 1 <= Len(keys) + 1 /\ p + 1 \in 1 .. Len(keys) + 1
    BY <1>1
  <2>. QED BY <1>1, <2>1, SubSeqProperties
<1>. HIDE DEF before, after
<1>6. /\ rest \in Seq(Keys) /\ Len(rest) = Len(keys) - 1
      /\ \A i \in 1 .. Len(keys) - 1 : rest[i] = IF i < p THEN keys[i] ELSE keys[i + 1]
  <2>1. before \o after \in Seq(Keys) /\ Len(before \o after) = Len(keys) - 1
    <3>1. before \o after \in Seq(Keys) /\ Len(before \o after) = Len(before) + Len(after)
      BY <1>4, <1>5, ConcatProperties
    <3>. QED BY <1>1, <1>4, <1>5, <3>1
  <2>2. ASSUME NEW i \in 1 .. Len(keys) - 1
        PROVE  (before \o after)[i] = IF i < p THEN keys[i] ELSE keys[i + 1]
    <3>1. CASE i < p
      BY <1>1, <1>4, <1>5, <3>1
    <3>2. CASE ~(i < p)
      <4>1. (before \o after)[i] = after[i - (p - 1)]
        BY <1>1, <1>4, <1>5, <3>2, ConcatProperties
      <4>2. i - (p - 1) \in 1 .. Len(keys) - p /\ p + (i - (p - 1)) = i + 1
        BY <1>1, <3>2
      <4>. QED BY <1>5, <3>2, <4>1, <4>2
    <3>. QED BY <3>1, <3>2
  <2>. HIDE DEF rest
  <2>. QED BY <1>3, <2>1, <2>2
<1>. HIDE DEF rest
<1>7. Append(rest, key) \in Seq(Keys) /\ Len(Append(rest, key)) = Len(keys)
  BY <1>1, <1>6
<1>8. ASSUME NEW i \in 1 .. Len(keys)
      PROVE  Append(rest, key)[i] = IF i = Len(keys) THEN key
                                        ELSE IF i < p THEN keys[i] ELSE keys[i + 1]
  <2>1. CASE i = Len(keys)
    BY <1>1, <1>6, <2>1
  <2>2. CASE i # Len(keys)
    BY <1>1, <1>6, <2>2
  <2>. QED BY <2>1, <2>2
<1>. QED BY <1>7, <1>8 DEF rest

(* Moving a key to the end keeps the keys, and makes it one of the last    *)
(* used.                                                                   *)
LEMMA MovedStaysRecent ==
  ASSUME NEW keys \in Seq(Keys), Distinct(keys), NEW key \in ToSet(keys),
         NEW K, Recent(keys, K)
  PROVE  LET moved == Append(RemoveFirst(keys, key), key)
         IN  /\ moved \in Seq(Keys) /\ Len(moved) = Len(keys)
             /\ Distinct(moved) /\ ToSet(moved) = ToSet(keys)
             /\ Recent(moved, K \cup {key})
<1>. DEFINE n == Len(keys)
            moved == Append(RemoveFirst(keys, key), key)
<1>1. PICK p \in 1 .. n : keys[p] = key
  BY Members
<1>. DEFINE from(i) == IF i = n THEN p ELSE IF i < p THEN i ELSE i + 1
<1>2. /\ moved \in Seq(Keys) /\ Len(moved) = n /\ n \in Nat
      /\ \A i \in 1 .. n : moved[i] = keys[from(i)]
  <2>1. /\ moved \in Seq(Keys) /\ Len(moved) = n
        /\ \A i \in 1 .. n : moved[i] = IF i = n THEN key
                                        ELSE IF i < p THEN keys[i] ELSE keys[i + 1]
    BY <1>1, MovedToEnd
  <2>. HIDE DEF moved
  <2>. QED BY <1>1, <2>1
<1>. HIDE DEF moved
<1>3. /\ \A i \in 1 .. n : from(i) \in 1 .. n
      /\ \A i, j \in 1 .. n : from(i) = from(j) => i = j
      /\ \A i \in 1 .. n : \E j \in 1 .. n : from(j) = i
      /\ \A i, j \in 1 .. n : i < j /\ j # n => from(i) < from(j)
      /\ from(n) = p
  <2>1. \A i \in 1 .. n : from(i) \in 1 .. n
    BY <1>2
  <2>2. \A i, j \in 1 .. n : from(i) = from(j) => i = j
    BY <1>2
  <2>3. ASSUME NEW i \in 1 .. n PROVE \E j \in 1 .. n : from(j) = i
    <3>1. from(IF i = p THEN n ELSE IF i < p THEN i ELSE i - 1) = i
      BY <1>2
    <3>2. (IF i = p THEN n ELSE IF i < p THEN i ELSE i - 1) \in 1 .. n
      BY <1>2
    <3>. QED BY <3>1, <3>2
  <2>4. \A i, j \in 1 .. n : i < j /\ j # n => from(i) < from(j)
    BY <1>2
  <2>. QED BY <2>1, <2>2, <2>3, <2>4
<1>. HIDE DEF from
<1>4. Distinct(moved)
  <2>1. ASSUME NEW i \in 1 .. n, NEW j \in 1 .. n, moved[i] = moved[j] PROVE i = j
    <3>1. keys[from(i)] = keys[from(j)]
      BY <1>2, <2>1
    <3>2. from(i) = from(j)
      BY <1>3, <3>1 DEF Distinct
    <3>. QED BY <1>3, <3>2
  <2>. QED BY <1>2, <2>1 DEF Distinct
<1>5. ToSet(moved) = ToSet(keys)
  <2>1. ASSUME NEW k \in ToSet(moved) PROVE k \in ToSet(keys)
    <3>1. PICK i \in 1 .. n : moved[i] = k
      BY <1>2, Members
    <3>. QED BY <1>2, <1>3, <3>1, Members
  <2>2. ASSUME NEW k \in ToSet(keys) PROVE k \in ToSet(moved)
    <3>1. PICK i \in 1 .. n : keys[i] = k
      BY Members
    <3>2. PICK j \in 1 .. n : from(j) = i
      BY <1>3
    <3>. QED BY <1>2, <3>1, <3>2, Members
  <2>. QED BY <2>1, <2>2
<1>6. Recent(moved, K \cup {key})
  <2>1. K \cup {key} \subseteq ToSet(moved)
    BY <1>5 DEF Recent
  <2>2. ASSUME NEW i \in 1 .. n, NEW j \in 1 .. n, i < j, moved[i] \in K \cup {key}
        PROVE  moved[j] \in K \cup {key}
    <3>1. CASE j = n
      BY <1>1, <1>2, <1>3, <3>1
    <3>2. CASE j # n
      <4>1. from(i) < from(j) /\ from(i) # p
        <5>1. i # n /\ n \in 1 .. n
          BY <1>2, <2>2
        <5>. QED BY <1>3, <2>2, <3>2, <5>1
      <4>2. keys[from(i)] # key
        BY <1>1, <1>3, <4>1 DEF Distinct
      <4>. QED BY <1>2, <1>3, <2>2, <4>1, <4>2 DEF Recent
    <3>. QED BY <3>1, <3>2
  <2>. QED BY <1>2, <2>1, <2>2 DEF Recent
<1>. QED BY <1>2, <1>4, <1>5, <1>6 DEF moved

(* getCachedKindDecision keeps the keys; one that is found is the last     *)
(* used.                                                                   *)
LEMMA GetKeepsOrder ==
  ASSUME NEW keys \in Seq(Keys), Distinct(keys), NEW key \in Keys, NEW K, Recent(keys, K)
  PROVE  /\ Get(keys, key) \in Seq(Keys) /\ Len(Get(keys, key)) = Len(keys)
         /\ Distinct(Get(keys, key)) /\ ToSet(Get(keys, key)) = ToSet(keys)
         /\ Recent(Get(keys, key), K \cup ({key} \cap ToSet(keys)))
<1>1. CASE key \in ToSet(keys)
  <2>1. {key} \cap ToSet(keys) = {key} /\ Get(keys, key) = Append(RemoveFirst(keys, key), key)
    BY <1>1 DEF Get
  <2>. QED BY <1>1, <2>1, MovedStaysRecent
<1>2. CASE key \notin ToSet(keys)
  <2>1. {key} \cap ToSet(keys) = {} /\ Get(keys, key) = keys
    BY <1>2 DEF Get
  <2>2. K \cup {} = K
    OBVIOUS
  <2>. QED BY <2>1, <2>2
<1>. QED BY <1>1, <1>2

(* A key that comes is the last used.                                      *)
LEMMA AppendStaysRecent ==
  ASSUME NEW keys \in Seq(Keys), Distinct(keys), NEW key \in Keys, key \notin ToSet(keys),
         NEW K, Recent(keys, K)
  PROVE  /\ Append(keys, key) \in Seq(Keys) /\ Len(Append(keys, key)) = Len(keys) + 1
         /\ Distinct(Append(keys, key))
         /\ ToSet(Append(keys, key)) \subseteq ToSet(keys) \cup {key}
         /\ Recent(Append(keys, key), K \cup {key})
<1>. DEFINE n == Len(keys)
            new == Append(keys, key)
<1>1. /\ new \in Seq(Keys) /\ Len(new) = n + 1 /\ n \in Nat
      /\ \A i \in 1 .. n : new[i] = keys[i]
      /\ new[n + 1] = key
      /\ \A i \in 1 .. n + 1 : i # n + 1 => i \in 1 .. n
      /\ \A i \in 1 .. n : i \in 1 .. n + 1 /\ i < n + 1
      /\ n + 1 \in 1 .. n + 1
  OBVIOUS
<1>. HIDE DEF new, n
<1>2. \A i \in 1 .. n : keys[i] # key /\ keys[i] \in ToSet(keys)
  BY Members DEF n
<1>3. Distinct(new)
  BY <1>1, <1>2 DEF Distinct, n
<1>4. \A k : k \in ToSet(new) <=> k \in ToSet(keys) \/ k = key
  <2>1. ASSUME NEW k \in ToSet(new) PROVE k \in ToSet(keys) \/ k = key
    <3>1. PICK i \in 1 .. n + 1 : new[i] = k
      BY <1>1, Members
    <3>. QED BY <1>1, <1>2, <3>1
  <2>2. ASSUME NEW k \in ToSet(keys) PROVE k \in ToSet(new)
    <3>1. PICK i \in 1 .. n : keys[i] = k
      BY Members DEF n
    <3>. QED BY <1>1, <3>1, Members
  <2>3. key \in ToSet(new)
    BY <1>1, Members
  <2>. QED BY <2>1, <2>2, <2>3
<1>5. Recent(new, K \cup {key})
  <2>1. K \cup {key} \subseteq ToSet(new)
    BY <1>4 DEF Recent
  <2>2. ASSUME NEW i \in 1 .. n + 1, NEW j \in 1 .. n + 1, i < j, new[i] \in K \cup {key}
        PROVE  new[j] \in K \cup {key}
    <3>1. i # n + 1
      BY <1>1, <2>2
    <3>2. CASE j = n + 1
      BY <1>1, <3>2
    <3>3. CASE j # n + 1
      BY <1>1, <1>2, <2>2, <3>1, <3>3 DEF Recent, n
    <3>. QED BY <3>2, <3>3
  <2>. QED BY <1>1, <2>1, <2>2 DEF Recent
<1>. QED BY <1>1, <1>3, <1>4, <1>5 DEF new, n

(* The oldest key goes: the last used stay, unless it is one of them.      *)
LEMMA TailStaysRecent ==
  ASSUME NEW keys \in Seq(Keys), Distinct(keys), Len(keys) > 0,
         NEW K, Recent(keys, K), keys[1] \notin K
  PROVE  /\ Tail(keys) \in Seq(Keys) /\ Len(Tail(keys)) = Len(keys) - 1
         /\ Distinct(Tail(keys)) /\ ToSet(Tail(keys)) \subseteq ToSet(keys)
         /\ Recent(Tail(keys), K)
<1>. DEFINE n == Len(keys)
            rest == Tail(keys)
<1>1. /\ rest \in Seq(Keys) /\ n \in Nat \ {0} /\ Len(rest) = n - 1
      /\ \A i \in 1 .. n - 1 : rest[i] = keys[i + 1] /\ i + 1 \in 1 .. n
      /\ \A i, j \in 1 .. n - 1 : i + 1 = j + 1 => i = j
      /\ \A i, j \in 1 .. n - 1 : i < j => i + 1 < j + 1
  OBVIOUS
<1>2. \A i \in 1 .. n : i # 1 => i - 1 \in 1 .. n - 1 /\ (i - 1) + 1 = i
  BY <1>1
<1>. HIDE DEF rest, n
<1>3. Distinct(rest)
  BY <1>1 DEF Distinct, n
<1>4. \A k : k \in ToSet(rest) => k \in ToSet(keys)
  <2>1. ASSUME NEW k \in ToSet(rest) PROVE k \in ToSet(keys)
    <3>1. PICK i \in 1 .. n - 1 : rest[i] = k
      BY <1>1, Members
    <3>. QED BY <1>1, <3>1, Members DEF n
  <2>. QED BY <2>1
<1>5. Recent(rest, K)
  <2>1. ASSUME NEW k \in K PROVE k \in ToSet(rest)
    <3>1. PICK i \in 1 .. n : keys[i] = k
      BY Members DEF Recent, n
    <3>2. i # 1
      BY <2>1, <3>1
    <3>3. i - 1 \in 1 .. n - 1 /\ rest[i - 1] = k
      BY <1>1, <1>2, <3>1, <3>2
    <3>. QED BY <1>1, <3>3, Members
  <2>2. ASSUME NEW i \in 1 .. n - 1, NEW j \in 1 .. n - 1, i < j, rest[i] \in K
        PROVE  rest[j] \in K
    BY <1>1, <2>2 DEF Recent, n
  <2>. QED BY <1>1, <2>1, <2>2 DEF Recent
<1>. QED BY <1>1, <1>3, <1>4, <1>5 DEF rest, n

(* A cache too small for one key more holds more than those last used keys *)
(* that come, with the new one, from no more places than it has.           *)
LEMMA OldestIsNotRecent ==
  ASSUME NEW keys \in Seq(Keys), Distinct(keys), Len(keys) >= MaxCached,
         NEW K, Recent(keys, K),
         NEW P, IsFiniteSet(P), Cardinality(P) <= MaxCached, K \subseteq P,
         NEW key \in P, key \notin ToSet(keys)
  PROVE  keys[1] \notin K
<1>. SUFFICES ASSUME keys[1] \in K PROVE FALSE
  OBVIOUS
<1>. DEFINE n == Len(keys)
            f == [i \in 1 .. n |-> keys[i]]
<1>1. n \in Nat /\ MaxCached \in Nat /\ 0 < n
  BY SizesAssumption
<1>2. \A i \in 1 .. n : keys[i] \in P \ {key}
  <2>1. ASSUME NEW i \in 1 .. n PROVE keys[i] \in K /\ keys[i] # key
    <3>1. keys[i] # key
      BY Members
    <3>2. CASE i = 1
      BY <3>1, <3>2
    <3>3. CASE i # 1
      <4>1. 1 \in 1 .. n /\ 1 < i
        BY <1>1, <3>3
      <4>. QED BY <3>1, <4>1 DEF Recent
    <3>. QED BY <3>2, <3>3
  <2>. QED BY <2>1
<1>3. f \in Injection(1 .. n, P \ {key})
  BY <1>2 DEF Injection, IsInjective, Distinct
<1>4. /\ IsFiniteSet(P \ {key}) /\ Cardinality(P \ {key}) = Cardinality(P) - 1
      /\ Cardinality(P) \in Nat
  BY FS_RemoveElement, FS_CardinalityType
<1>5. Cardinality(1 .. n) <= Cardinality(P \ {key})
  <2>. HIDE DEF f
  <2>. QED BY <1>3, <1>4, FS_Injection
<1>6. Cardinality(1 .. n) = n
  BY <1>1, FS_Interval
<1>. QED BY <1>1, <1>4, <1>5, <1>6

(* setCachedKind evicts none of the last used keys, when these and the new *)
(* one are among no more keys than the cache has places for.               *)
LEMMA SetKeepsOrder ==
  ASSUME NEW keys \in Seq(Keys), Distinct(keys), Len(keys) <= MaxCached,
         NEW K, Recent(keys, K),
         NEW P, IsFiniteSet(P), Cardinality(P) <= MaxCached, K \subseteq P,
         NEW key \in P, key \in Keys
  PROVE  /\ Set(keys, key) \in Seq(Keys) /\ Len(Set(keys, key)) <= MaxCached
         /\ Distinct(Set(keys, key))
         /\ ToSet(Set(keys, key)) \subseteq ToSet(keys) \cup {key}
         /\ Recent(Set(keys, key), K \cup {key})
<1>0. Len(keys) \in Nat /\ MaxCached \in Nat /\ 0 < MaxCached
  BY SizesAssumption
<1>1. CASE key \in ToSet(keys)
  BY <1>1, MovedStaysRecent DEF Set
<1>2. CASE key \notin ToSet(keys) /\ Len(keys) < MaxCached
  <2>1. Set(keys, key) = Append(keys, key)
    BY <1>2 DEF Set
  <2>2. /\ Append(keys, key) \in Seq(Keys) /\ Len(Append(keys, key)) = Len(keys) + 1
        /\ Distinct(Append(keys, key))
        /\ ToSet(Append(keys, key)) \subseteq ToSet(keys) \cup {key}
        /\ Recent(Append(keys, key), K \cup {key})
    BY <1>2, AppendStaysRecent
  <2>. QED BY <1>0, <1>2, <2>1, <2>2
<1>3. CASE key \notin ToSet(keys) /\ ~(Len(keys) < MaxCached)
  <2>1. Set(keys, key) = Append(Tail(keys), key)
    BY <1>3 DEF Set
  <2>2. keys[1] \notin K /\ Len(keys) > 0 /\ Len(keys) = MaxCached
    BY <1>0, <1>3, OldestIsNotRecent
  <2>3. /\ Tail(keys) \in Seq(Keys) /\ Len(Tail(keys)) = Len(keys) - 1
        /\ Distinct(Tail(keys)) /\ ToSet(Tail(keys)) \subseteq ToSet(keys)
        /\ Recent(Tail(keys), K)
    BY <2>2, TailStaysRecent
  <2>4. key \notin ToSet(Tail(keys))
    BY <1>3, <2>3
  <2>5. /\ Append(Tail(keys), key) \in Seq(Keys)
        /\ Len(Append(Tail(keys), key)) = Len(Tail(keys)) + 1
        /\ Distinct(Append(Tail(keys), key))
        /\ ToSet(Append(Tail(keys), key)) \subseteq ToSet(Tail(keys)) \cup {key}
        /\ Recent(Append(Tail(keys), key), K \cup {key})
    BY <2>3, <2>4, AppendStaysRecent
  <2>. QED BY <1>0, <2>1, <2>2, <2>3, <2>5
<1>. QED BY <1>0, <1>1, <1>2, <1>3

----------------------------------------------------------------------------
(***************************************************************************)
(* Folds.  FoldLeft chooses a function on the sets of positions; that      *)
(* there is one, and what it takes at the first i positions, is proved     *)
(* from the least number of a set.                                         *)
(***************************************************************************)

(* A set of numbers has a least.                                           *)
LEMMA LeastNatural ==
  ASSUME NEW S \in SUBSET Nat, S # {}
  PROVE  \E least \in S : \A n \in S : least <= n
<1>. DEFINE R == {p \in Nat \X Nat : p[1] < p[2]}
<1>1. IsWellFoundedOn(R, Nat)
  BY NatLessThanWellFounded DEF OpToRel
<1>. HIDE DEF R
<1>2. PICK least \in S : \A n \in S : ~(<<n, least>> \in R)
  BY <1>1, WFMin
<1>3. \A n \in S : ~(n < least)
  BY <1>2 DEF R
<1>. QED BY <1>3

(* A set that has zero, and with every number the next, has all.           *)
LEMMA Induction ==
  ASSUME NEW S, 0 \in S, \A n \in Nat : n \in S => n + 1 \in S
  PROVE  Nat \subseteq S
<1>. DEFINE T == Nat \ S
<1>. SUFFICES ASSUME T # {} PROVE FALSE
  OBVIOUS
<1>1. PICK least \in T : \A n \in T : least <= n
  <2>. HIDE DEF T
  <2>1. T \in SUBSET Nat
    BY DEF T
  <2>. QED BY <2>1, LeastNatural
<1>2. least - 1 \in S /\ least - 1 \in Nat
  BY <1>1
<1>. QED BY <1>1, <1>2

(* Max, as the community modules choose it, is in the set it is of.        *)
LEMMA MaxOf ==
  ASSUME NEW n \in Nat, NEW S \in SUBSET (1 .. n), S # {}
  PROVE  Max(S) \in S /\ \A i \in S : Max(S) >= i
<1>. DEFINE T == {k \in Nat : \A i \in S : i <= k}
<1>1. n \in T
  OBVIOUS
<1>2. PICK k \in T : \A j \in T : k <= j
  <2>1. T \in SUBSET Nat /\ T # {}
    BY <1>1
  <2>. HIDE DEF T
  <2>. QED BY <2>1, LeastNatural
<1>3. k \in S
  <2>1. k \in Nat /\ \A i \in S : i <= k
    BY <1>2
  <2>2. PICK i \in S : TRUE
    OBVIOUS
  <2>3. k - 1 \in Nat /\ ~(k <= k - 1)
    BY <2>1, <2>2
  <2>4. k - 1 \notin T
    BY <1>2, <2>3
  <2>. QED BY <2>1, <2>3, <2>4
<1>. QED BY <1>2, <1>3 DEF Max

(* The functions that take a result and an element to the next result.     *)
StepsOver(T, A) == [T -> [A -> T]]

(* g holds what folding F leaves of the elements of s at each set of       *)
(* positions, as FoldLeft goes about it: the last position first.          *)
IsFold(g, T, F, base, s) ==
  /\ g \in [SUBSET (1 .. Len(s)) -> T]
  /\ \A S \in SUBSET (1 .. Len(s)) :
       g[S] = IF S = {} THEN base ELSE F[g[S \ {Max(S)}]][s[Max(S)]]

(* There is a function that FoldLeft can choose.                           *)
LEMMA FoldExists ==
  ASSUME NEW T, NEW A, NEW F \in StepsOver(T, A), NEW base \in T, NEW s \in Seq(A)
  PROVE  \E g : IsFold(g, T, F, base, s)
<1>. USE DEF StepsOver
<1>. DEFINE Folds(g, n) ==
              /\ g \in [SUBSET (1 .. n) -> T]
              /\ \A S \in SUBSET (1 .. n) :
                   g[S] = IF S = {} THEN base ELSE F[g[S \ {Max(S)}]][s[Max(S)]]
            N == {n \in Nat : n <= Len(s) => \E g : Folds(g, n)}
<1>1. Folds([S \in SUBSET (1 .. 0) |-> base], 0)
  OBVIOUS
<1>2. ASSUME NEW n \in Nat, n + 1 <= Len(s), NEW g, Folds(g, n)
      PROVE  \E h : Folds(h, n + 1)
  <2>. DEFINE h == [S \in SUBSET (1 .. n + 1) |->
                      IF n + 1 \in S THEN F[g[S \ {n + 1}]][s[n + 1]] ELSE g[S]]
  <2>1. s[n + 1] \in A
    BY <1>2, LenProperties
  <2>2. \A S \in SUBSET (1 .. n + 1) : n + 1 \in S =>
          S \ {n + 1} \in SUBSET (1 .. n) /\ h[S] = F[g[S \ {n + 1}]][s[n + 1]]
    OBVIOUS
  <2>3. \A S \in SUBSET (1 .. n) : S \in SUBSET (1 .. n + 1) /\ n + 1 \notin S /\ h[S] = g[S]
    OBVIOUS
  <2>4. ASSUME NEW S \in SUBSET (1 .. n + 1), n + 1 \notin S PROVE S \in SUBSET (1 .. n)
    <3>1. \A i \in 1 .. n + 1 : i # n + 1 => i \in 1 .. n
      OBVIOUS
    <3>. QED BY <2>4, <3>1
  <2>5. h = [S \in SUBSET (1 .. n + 1) |-> h[S]]
    OBVIOUS
  <2>. HIDE DEF h
  <2>6. ASSUME NEW S \in SUBSET (1 .. n + 1)
        PROVE  /\ h[S] \in T
               /\ h[S] = IF S = {} THEN base ELSE F[h[S \ {Max(S)}]][s[Max(S)]]
    <3>1. CASE n + 1 \in S
      <4>1. Max(S) = n + 1
        <5>1. n + 1 \in Nat /\ S # {}
          BY <3>1
        <5>2. Max(S) \in S /\ \A i \in S : Max(S) >= i
          BY <5>1, MaxOf
        <5>. DEFINE m == Max(S)
        <5>3. m \in 1 .. n + 1 /\ m >= n + 1
          BY <5>2, <3>1
        <5>. HIDE DEF m
        <5>4. m = n + 1
          BY <5>3
        <5>. QED BY <5>4 DEF m
      <4>2. S \ {n + 1} \in SUBSET (1 .. n) /\ h[S] = F[g[S \ {n + 1}]][s[n + 1]]
        BY <3>1, <2>2
      <4>3. h[S \ {n + 1}] = g[S \ {n + 1}] /\ g[S \ {n + 1}] \in T
        BY <4>2, <2>3, <1>2
      <4>4. h[S] = F[h[S \ {Max(S)}]][s[Max(S)]]
        BY <4>1, <4>2, <4>3
      <4>5. h[S] \in T
        BY <4>2, <4>3, <2>1
      <4>. QED BY <4>4, <4>5, <3>1
    <3>2. CASE n + 1 \notin S
      <4>1. S \in SUBSET (1 .. n)
        BY <3>2, <2>4
      <4>2. S \ {Max(S)} \in SUBSET (1 .. n)
        BY <4>1
      <4>3. h[S] = g[S] /\ h[S \ {Max(S)}] = g[S \ {Max(S)}]
        BY <4>1, <4>2, <2>3
      <4>. QED BY <4>1, <4>3, <1>2
    <3>. QED BY <3>1, <3>2
  <2>7. h \in [SUBSET (1 .. n + 1) -> T]
    BY <2>5, <2>6
  <2>. QED BY <2>6, <2>7
<1>. HIDE DEF Folds
<1>3. 0 \in N /\ \A n \in Nat : n \in N => n + 1 \in N
  BY <1>1, <1>2, LenProperties
<1>4. Nat \subseteq N
  <2>. HIDE DEF N
  <2>. QED BY <1>3, Induction
<1>5. \E g : Folds(g, Len(s))
  BY <1>4, LenProperties
<1>. QED BY <1>5 DEF Folds, IsFold


(* The last of the first i positions, and those before it.                 *)
LEMMA TopOfRange ==
  ASSUME NEW i \in Nat, 0 < i
  PROVE  Max(1 .. i) = i /\ (1 .. i) \ {i} = 1 .. i - 1 /\ 1 .. i # {}
<1>1. i \in 1 .. i /\ 1 .. i \in SUBSET (1 .. i)
  OBVIOUS
<1>2. Max(1 .. i) \in 1 .. i /\ Max(1 .. i) >= i
  BY <1>1, MaxOf
<1>3. Max(1 .. i) = i
  <2>. DEFINE m == Max(1 .. i)
  <2>1. m \in 1 .. i /\ m >= i
    BY <1>2
  <2>. HIDE DEF m
  <2>2. m = i
    BY <2>1
  <2>. QED BY <2>2 DEF m
<1>4. \A j : j \in (1 .. i) \ {i} <=> j \in 1 .. i - 1
  OBVIOUS
<1>5. (1 .. i) \ {i} = 1 .. i - 1
  BY <1>4, Zenon
<1>. QED BY <1>1, <1>3, <1>5

(* What the cache's order may be.                                          *)
Orders == {keys \in Seq(Keys) : Distinct(keys) /\ Len(keys) <= MaxCached}

(* The keys of some columns of a result.                                   *)
KeysOf(r, columns) == {KeyFor(r, c) : c \in columns}

(* Of no keys it holds that they are the last used.                        *)
LEMMA NoneIsRecent ==
  ASSUME NEW keys
  PROVE  Recent(keys, {})
BY DEF Recent

(* Getting or setting a key of an order leaves an order.                   *)
LEMMA GetOrders ==
  ASSUME NEW keys \in Orders, NEW key \in Keys
  PROVE  Get(keys, key) \in Orders
<1>1. keys \in Seq(Keys) /\ Distinct(keys) /\ Len(keys) <= MaxCached /\ Recent(keys, {})
  BY NoneIsRecent DEF Orders
<1>2. /\ Get(keys, key) \in Seq(Keys) /\ Len(Get(keys, key)) = Len(keys)
      /\ Distinct(Get(keys, key))
  BY <1>1, GetKeepsOrder
<1>. QED BY <1>1, <1>2 DEF Orders

LEMMA SetOrders ==
  ASSUME NEW keys \in Orders, NEW key \in Keys
  PROVE  Set(keys, key) \in Orders
<1>. DEFINE P == {key}
            K == {}
<1>1. keys \in Seq(Keys) /\ Distinct(keys) /\ Len(keys) <= MaxCached /\ Recent(keys, K)
  BY NoneIsRecent DEF Orders
<1>2. IsFiniteSet({key}) /\ Cardinality({key}) = 1
  BY FS_Singleton, Zenon
<1>3. IsFiniteSet(P) /\ Cardinality(P) <= MaxCached /\ key \in P /\ K \subseteq P
  BY <1>2, SizesAssumption
<1>. HIDE DEF P, K
<1>4. /\ Set(keys, key) \in Seq(Keys) /\ Len(Set(keys, key)) <= MaxCached
      /\ Distinct(Set(keys, key))
      /\ Recent(Set(keys, key), K \cup {key})
  BY <1>1, <1>3, SetKeepsOrder
<1>. QED BY <1>4 DEF Orders

(* Touched goes from column to column.                                     *)
LEMMA TouchedStages ==
  ASSUME NEW keys \in Orders, NEW r \in Requests, NEW columns \in Seq(Columns), NEW got
  PROVE  \E stage :
           /\ stage[0] = keys
           /\ \A i \in 1 .. Len(columns) :
                stage[i] = IF columns[i] \in got THEN Get(stage[i - 1], KeyFor(r, columns[i]))
                           ELSE stage[i - 1]
           /\ Touched(keys, r, columns, got) = stage[Len(columns)]
<1>. DEFINE After(ks, c) == IF c \in got THEN Get(ks, KeyFor(r, c)) ELSE ks
            Folds(g) == g = [S \in SUBSET DOMAIN columns |->
                               IF S = {} THEN keys ELSE After(g[S \ {Max(S)}], columns[Max(S)])]
            fold == CHOOSE g : Folds(g)
            stage == [i \in 0 .. Len(columns) |-> fold[1 .. i]]
<1>1. DOMAIN columns = 1 .. Len(columns) /\ Len(columns) \in Nat
  BY LenProperties
<1>2. Touched(keys, r, columns, got) = fold[DOMAIN columns]
  BY DEF Touched, FoldLeft, MapThenFoldSet
<1>3. Folds(fold)
  <2>. DEFINE F == [ks \in Orders |-> [c \in Columns |-> After(ks, c)]]
  <2>1. \A ks \in Orders, c \in Columns : After(ks, c) \in Orders
    BY KeyTyped, GetOrders
  <2>2. F \in StepsOver(Orders, Columns)
    <3>. HIDE DEF After
    <3>. QED BY <2>1 DEF StepsOver
  <2>. HIDE DEF After
  <2>3. PICK g : IsFold(g, Orders, F, keys, columns)
    <3>. HIDE DEF F
    <3>. QED BY <2>2, FoldExists
  <2>4. ASSUME NEW S \in SUBSET (1 .. Len(columns)), S # {}
        PROVE  F[g[S \ {Max(S)}]][columns[Max(S)]] = After(g[S \ {Max(S)}], columns[Max(S)])
    <3>1. Max(S) \in 1 .. Len(columns)
      BY <1>1, <2>4, MaxOf
    <3>2. columns[Max(S)] \in Columns
      BY <3>1, ElementOfSeq
    <3>3. g[S \ {Max(S)}] \in Orders
      BY <2>3 DEF IsFold
    <3>. QED BY <3>2, <3>3
  <2>5. Folds(g)
    <3>. HIDE DEF F
    <3>. QED BY <1>1, <2>3, <2>4 DEF IsFold
  <2>. QED BY <2>5
<1>. HIDE DEF fold
<1>4. stage[0] = keys
  BY <1>1, <1>3
<1>5. ASSUME NEW i \in 1 .. Len(columns) PROVE stage[i] = After(stage[i - 1], columns[i])
  <2>1. i \in Nat /\ 0 < i
    OBVIOUS
  <2>2. Max(1 .. i) = i /\ (1 .. i) \ {i} = 1 .. i - 1 /\ 1 .. i # {}
    BY <2>1, TopOfRange
  <2>3. 1 .. i \in SUBSET DOMAIN columns
    BY <1>1
  <2>. HIDE DEF After
  <2>4. fold[1 .. i] = After(fold[1 .. i - 1], columns[i])
    BY <1>3, <2>2, <2>3
  <2>. QED BY <1>1, <2>4
<1>6. Touched(keys, r, columns, got) = stage[Len(columns)]
  BY <1>1, <1>2
<1>. HIDE DEF stage
<1>. QED BY <1>4, <1>5, <1>6

(* So does Filled.                                                         *)
LEMMA FilledStages ==
  ASSUME NEW keys \in Orders, NEW r \in Requests, NEW columns \in Seq(Columns), NEW learned
  PROVE  \E stage :
           /\ stage[0] = keys
           /\ \A i \in 1 .. Len(columns) :
                stage[i] = IF columns[i] \in learned THEN Set(stage[i - 1], KeyFor(r, columns[i]))
                           ELSE stage[i - 1]
           /\ Filled(keys, r, columns, learned) = stage[Len(columns)]
<1>. DEFINE After(ks, c) == IF c \in learned THEN Set(ks, KeyFor(r, c)) ELSE ks
            Folds(g) == g = [S \in SUBSET DOMAIN columns |->
                               IF S = {} THEN keys ELSE After(g[S \ {Max(S)}], columns[Max(S)])]
            fold == CHOOSE g : Folds(g)
            stage == [i \in 0 .. Len(columns) |-> fold[1 .. i]]
<1>1. DOMAIN columns = 1 .. Len(columns) /\ Len(columns) \in Nat
  BY LenProperties
<1>2. Filled(keys, r, columns, learned) = fold[DOMAIN columns]
  BY DEF Filled, FoldLeft, MapThenFoldSet
<1>3. Folds(fold)
  <2>. DEFINE F == [ks \in Orders |-> [c \in Columns |-> After(ks, c)]]
  <2>1. \A ks \in Orders, c \in Columns : After(ks, c) \in Orders
    BY KeyTyped, SetOrders
  <2>2. F \in StepsOver(Orders, Columns)
    <3>. HIDE DEF After
    <3>. QED BY <2>1 DEF StepsOver
  <2>. HIDE DEF After
  <2>3. PICK g : IsFold(g, Orders, F, keys, columns)
    <3>. HIDE DEF F
    <3>. QED BY <2>2, FoldExists
  <2>4. ASSUME NEW S \in SUBSET (1 .. Len(columns)), S # {}
        PROVE  F[g[S \ {Max(S)}]][columns[Max(S)]] = After(g[S \ {Max(S)}], columns[Max(S)])
    <3>1. Max(S) \in 1 .. Len(columns)
      BY <1>1, <2>4, MaxOf
    <3>2. columns[Max(S)] \in Columns
      BY <3>1, ElementOfSeq
    <3>3. g[S \ {Max(S)}] \in Orders
      BY <2>3 DEF IsFold
    <3>. QED BY <3>2, <3>3
  <2>5. Folds(g)
    <3>. HIDE DEF F
    <3>. QED BY <1>1, <2>3, <2>4 DEF IsFold
  <2>. QED BY <2>5
<1>. HIDE DEF fold
<1>4. stage[0] = keys
  BY <1>1, <1>3
<1>5. ASSUME NEW i \in 1 .. Len(columns) PROVE stage[i] = After(stage[i - 1], columns[i])
  <2>1. i \in Nat /\ 0 < i
    OBVIOUS
  <2>2. Max(1 .. i) = i /\ (1 .. i) \ {i} = 1 .. i - 1 /\ 1 .. i # {}
    BY <2>1, TopOfRange
  <2>3. 1 .. i \in SUBSET DOMAIN columns
    BY <1>1
  <2>. HIDE DEF After
  <2>4. fold[1 .. i] = After(fold[1 .. i - 1], columns[i])
    BY <1>3, <2>2, <2>3
  <2>. QED BY <1>1, <2>4
<1>6. Filled(keys, r, columns, learned) = stage[Len(columns)]
  BY <1>1, <1>2
<1>. HIDE DEF stage
<1>. QED BY <1>4, <1>5, <1>6

(* Looking columns up keeps the keys, and what is found is the last used.  *)
LEMMA TouchedKeeps ==
  ASSUME NEW keys \in Orders, NEW r \in Requests, NEW columns \in Seq(Columns), NEW got,
         NEW K, Recent(keys, K)
  PROVE  /\ Touched(keys, r, columns, got) \in Orders
         /\ ToSet(Touched(keys, r, columns, got)) = ToSet(keys)
         /\ Recent(Touched(keys, r, columns, got),
                   K \cup (KeysOf(r, ToSet(columns) \cap got) \cap ToSet(keys)))
<1>. DEFINE seen(i) == {columns[j] : j \in 1 .. i}
            due(i) == K \cup (KeysOf(r, seen(i) \cap got) \cap ToSet(keys))
<1>1. PICK stage :
        /\ stage[0] = keys
        /\ \A i \in 1 .. Len(columns) :
             stage[i] = IF columns[i] \in got THEN Get(stage[i - 1], KeyFor(r, columns[i]))
                        ELSE stage[i - 1]
        /\ Touched(keys, r, columns, got) = stage[Len(columns)]
  BY TouchedStages
<1>. DEFINE Keeps(i) == /\ stage[i] \in Orders /\ ToSet(stage[i]) = ToSet(keys)
                        /\ Recent(stage[i], due(i))
            N == {i \in Nat : i <= Len(columns) => Keeps(i)}
<1>2. 0 \in N
  <2>1. due(0) = K
    BY DEF KeysOf
  <2>. HIDE DEF due
  <2>. QED BY <1>1, <2>1
<1>3. ASSUME NEW i \in Nat, i \in N, i + 1 <= Len(columns) PROVE Keeps(i + 1)
  <2>. DEFINE now == stage[i]
              c == columns[i + 1]
              key == KeyFor(r, c)
  <2>1. Keeps(i) /\ i + 1 \in 1 .. Len(columns) /\ (i + 1) - 1 = i
    BY <1>3, LenProperties
  <2>2. c \in Columns /\ key \in Keys
    BY <2>1, ElementOfSeq, KeyTyped
  <2>3. stage[i + 1] = IF c \in got THEN Get(now, key) ELSE now
    BY <1>1, <2>1
  <2>4. seen(i + 1) = seen(i) \cup {c}
    BY <2>1
  <2>. HIDE DEF seen, c
  <2>5. CASE c \in got
    <3>1. due(i + 1) = due(i) \cup ({key} \cap ToSet(now))
      BY <2>1, <2>4, <2>5 DEF KeysOf
    <3>. HIDE DEF due, now, key
    <3>2. /\ Get(now, key) \in Orders /\ ToSet(Get(now, key)) = ToSet(now)
          /\ Recent(Get(now, key), due(i) \cup ({key} \cap ToSet(now)))
      <4>1. now \in Seq(Keys) /\ Distinct(now) /\ Recent(now, due(i)) /\ Len(now) <= MaxCached
        BY <2>1 DEF Orders, now
      <4>2. /\ Get(now, key) \in Seq(Keys) /\ Len(Get(now, key)) = Len(now)
            /\ Distinct(Get(now, key)) /\ ToSet(Get(now, key)) = ToSet(now)
            /\ Recent(Get(now, key), due(i) \cup ({key} \cap ToSet(now)))
        BY <2>2, <4>1, GetKeepsOrder
      <4>. QED BY <4>1, <4>2 DEF Orders
    <3>. QED BY <2>1, <2>3, <2>5, <3>1, <3>2 DEF now
  <2>6. CASE c \notin got
    <3>1. due(i + 1) = due(i)
      BY <2>4, <2>6 DEF KeysOf
    <3>. HIDE DEF due
    <3>. QED BY <2>1, <2>3, <2>6, <3>1
  <2>. QED BY <2>5, <2>6
<1>. HIDE DEF Keeps
<1>4. Nat \subseteq N
  <2>1. \A i \in Nat : i \in N => i + 1 \in N
    BY <1>3
  <2>. HIDE DEF N
  <2>. QED BY <1>2, <2>1, Induction
<1>5. Keeps(Len(columns))
  BY <1>4, LenProperties
<1>6. seen(Len(columns)) = ToSet(columns)
  BY LenProperties DEF ToSet
<1>. QED BY <1>1, <1>5, <1>6 DEF Keeps

(* Caching columns keeps what was last used, when all are among no more    *)
(* keys than the cache has places for, and makes them the last used too.   *)
LEMMA FilledKeeps ==
  ASSUME NEW keys \in Orders, NEW r \in Requests, NEW columns \in Seq(Columns), NEW learned,
         NEW K, Recent(keys, K),
         NEW P, IsFiniteSet(P), Cardinality(P) <= MaxCached, K \subseteq P,
         KeysOf(r, ToSet(columns)) \subseteq P
  PROVE  /\ Filled(keys, r, columns, learned) \in Orders
         /\ ToSet(Filled(keys, r, columns, learned)) \subseteq
              ToSet(keys) \cup KeysOf(r, ToSet(columns) \cap learned)
         /\ Recent(Filled(keys, r, columns, learned), K \cup KeysOf(r, ToSet(columns) \cap learned))
<1>. DEFINE seen(i) == {columns[j] : j \in 1 .. i}
            set(i) == KeysOf(r, seen(i) \cap learned)
<1>1. PICK stage :
        /\ stage[0] = keys
        /\ \A i \in 1 .. Len(columns) :
             stage[i] = IF columns[i] \in learned THEN Set(stage[i - 1], KeyFor(r, columns[i]))
                        ELSE stage[i - 1]
        /\ Filled(keys, r, columns, learned) = stage[Len(columns)]
  BY FilledStages
<1>. DEFINE Keeps(i) == /\ stage[i] \in Orders /\ ToSet(stage[i]) \subseteq ToSet(keys) \cup set(i)
                        /\ Recent(stage[i], K \cup set(i)) /\ K \cup set(i) \subseteq P
            N == {i \in Nat : i <= Len(columns) => Keeps(i)}
<1>2. 0 \in N
  <2>1. set(0) = {}
    BY DEF KeysOf
  <2>. HIDE DEF set
  <2>2. K \cup set(0) = K
    BY <2>1
  <2>. QED BY <1>1, <2>1, <2>2
<1>3. ASSUME NEW i \in Nat, i \in N, i + 1 <= Len(columns) PROVE Keeps(i + 1)
  <2>. DEFINE now == stage[i]
              c == columns[i + 1]
              key == KeyFor(r, c)
              due == K \cup set(i)
  <2>1. Keeps(i) /\ i + 1 \in 1 .. Len(columns) /\ (i + 1) - 1 = i
    BY <1>3, LenProperties
  <2>2. c \in Columns /\ key \in Keys /\ key \in P
    <3>1. c \in Columns /\ c \in ToSet(columns)
      BY <2>1, ElementOfSeq DEF ToSet
    <3>. QED BY <3>1, KeyTyped DEF KeysOf
  <2>3. stage[i + 1] = IF c \in learned THEN Set(now, key) ELSE now
    BY <1>1, <2>1
  <2>4. seen(i + 1) = seen(i) \cup {c}
    BY <2>1
  <2>. HIDE DEF seen, c
  <2>5. CASE c \in learned
    <3>1. set(i + 1) = set(i) \cup {key}
      BY <2>1, <2>4, <2>5 DEF KeysOf
    <3>. HIDE DEF set, now, key
    <3>2. now \in Seq(Keys) /\ Distinct(now) /\ Len(now) <= MaxCached
      BY <2>1 DEF Orders, now
    <3>3. Recent(now, due) /\ due \subseteq P
      BY <2>1 DEF now
    <3>. HIDE DEF due
    <3>4. /\ Set(now, key) \in Seq(Keys) /\ Len(Set(now, key)) <= MaxCached
          /\ Distinct(Set(now, key))
          /\ ToSet(Set(now, key)) \subseteq ToSet(now) \cup {key}
          /\ Recent(Set(now, key), due \cup {key})
      BY <2>2, <3>2, <3>3, SetKeepsOrder
    <3>5. Set(now, key) \in Orders
      BY <3>4 DEF Orders
    <3>6. K \cup set(i + 1) = due \cup {key}
      BY <3>1 DEF due
    <3>. QED BY <2>1, <2>2, <2>3, <2>5, <3>1, <3>3, <3>4, <3>5, <3>6 DEF now
  <2>6. CASE c \notin learned
    <3>1. set(i + 1) = set(i)
      BY <2>4, <2>6 DEF KeysOf
    <3>. HIDE DEF set
    <3>. QED BY <2>1, <2>3, <2>6, <3>1
  <2>. QED BY <2>5, <2>6
<1>. HIDE DEF Keeps
<1>4. Nat \subseteq N
  <2>1. \A i \in Nat : i \in N => i + 1 \in N
    BY <1>3
  <2>. HIDE DEF N
  <2>. QED BY <1>2, <2>1, Induction
<1>5. Keeps(Len(columns))
  BY <1>4, LenProperties
<1>6. seen(Len(columns)) = ToSet(columns)
  BY LenProperties DEF ToSet
<1>. QED BY <1>1, <1>5, <1>6 DEF Keeps

(* A query asks about no more columns than the cache has places for ...    *)
LEMMA PayloadTyped ==
  ASSUME NEW r \in Requests
  PROVE  /\ Payload(r) \in Seq(Columns) /\ Len(Payload(r)) \in Nat /\ Len(Payload(r)) <= MaxCached
         /\ ToSet(Payload(r)) \subseteq Columns
<1>. DEFINE n == IF Len(r.columns) < MaxAsked THEN Len(r.columns) ELSE MaxAsked
<1>1. r.columns \in Seq(Columns) /\ Len(r.columns) \in Nat
  BY RequestsAssumption, LenProperties
<1>2. n \in Nat /\ n <= Len(r.columns) /\ n <= MaxAsked
  BY <1>1, SizesAssumption
<1>3. SubSeq(r.columns, 1, n) \in Seq(Columns) /\ Len(SubSeq(r.columns, 1, n)) = n
  <2>. HIDE DEF n
  <2>1. n \in 1 - 1 .. Len(r.columns) /\ 1 \in 1 .. Len(r.columns) + 1
    BY <1>1, <1>2
  <2>. QED BY <1>1, <1>2, <2>1, SubSeqProperties
<1>4. Payload(r) \in Seq(Columns) /\ Len(Payload(r)) = n
  BY <1>3 DEF Payload
<1>. HIDE DEF n
<1>5. ToSet(Payload(r)) \subseteq Columns
  BY <1>4, ElementOfSeq DEF ToSet
<1>. QED BY <1>2, <1>4, <1>5, SizesAssumption

(* ... so that it has a place for the keys of all of them.                 *)
LEMMA PayloadFits ==
  ASSUME NEW r \in Requests
  PROVE  /\ IsFiniteSet(KeysOf(r, ToSet(Payload(r))))
         /\ Cardinality(KeysOf(r, ToSet(Payload(r)))) <= MaxCached
<1>. DEFINE n == Len(Payload(r))
            P == KeysOf(r, ToSet(Payload(r)))
            f == [i \in 1 .. n |-> KeyFor(r, Payload(r)[i])]
<1>1. n \in Nat /\ n <= MaxCached /\ Payload(r) \in Seq(Columns)
  BY PayloadTyped
<1>2. f \in Surjection(1 .. n, P)
  <2>1. P = {KeyFor(r, Payload(r)[i]) : i \in 1 .. n}
    BY <1>1, LenProperties DEF KeysOf, ToSet
  <2>. QED BY <2>1 DEF Surjection
<1>3. IsFiniteSet(1 .. n) /\ Cardinality(1 .. n) = n
  BY <1>1, FS_Interval
<1>4. IsFiniteSet(P) /\ Cardinality(P) <= Cardinality(1 .. n)
  <2>. HIDE DEF f, P, n
  <2>. QED BY <1>2, <1>3, FS_Surjection
<1>5. Cardinality(P) \in Nat
  BY <1>4, FS_CardinalityType
<1>. HIDE DEF P, n
<1>6. Cardinality(P) <= MaxCached
  BY <1>1, <1>3, <1>4, <1>5, SizesAssumption
<1>. QED BY <1>4, <1>6 DEF P

----------------------------------------------------------------------------
(***************************************************************************)
(* The verdicts a query is owed.                                          *)
(***************************************************************************)

(* The cache has the verdicts of the keys in its order, and no others.     *)
Ordered ==
  /\ recency \in Orders
  /\ \A k \in Keys : verdict[k] # Undecided <=> k \in ToSet(recency)

OwedTo(q) == {c \in Columns : owed[q][c] # Undecided}

(* While q waits, what it is owed is in the cache, as it found it, and was *)
(* the last the cache was asked for.                                       *)
Waiting(q) ==
  /\ unknown[q] \subseteq ToSet(Payload(request[q]))
  /\ OwedTo(q) \subseteq ToSet(Payload(request[q])) \ unknown[q]
  /\ \A c \in OwedTo(q) : owed[q][c] = Cached(request[q], c)
  /\ Recent(recency, KeysOf(request[q], OwedTo(q)))

(* What q found or was given is what its map has, and then its rows.       *)
Given(q) ==
  /\ phase[q] \in {"idle", "refused"} => owed[q] = Nothing
  /\ phase[q] \in {"asking", "reading"} => Waiting(q)
  /\ \A c \in OwedTo(q) :
       /\ phase[q] = "resolved" => fieldKindMap[q][c] = owed[q][c]
       /\ phase[q] = "masked" => decided[q][c] = owed[q][c]

Owing ==
  /\ setup \in Deployments
  /\ owed \in [Queries -> [Columns -> Stored]]
  /\ \A q \in Queries : Given(q)

CacheInv == Inv /\ Ordered /\ Owing

----------------------------------------------------------------------------

LEMMA NothingOwed ==
  ASSUME NEW q, owed[q] = Nothing
  PROVE  OwedTo(q) = {}
BY DEF OwedTo, Nothing

LEMMA NothingOwedNext ==
  ASSUME NEW q, owed'[q] = Nothing
  PROVE  OwedTo(q)' = {}
BY DEF OwedTo, Nothing

LEMMA InitCacheInv == Init => CacheInv
<1>. SUFFICES ASSUME Init PROVE CacheInv
  OBVIOUS
<1>1. Inv
  BY InitInv
<1>2. Ordered
  <2>1. recency = <<>> /\ recency \in Seq(Keys) /\ Len(recency) = 0
    BY DEF Init
  <2>2. recency \in Orders
    BY <2>1, SizesAssumption DEF Orders, Distinct
  <2>3. ToSet(recency) = {}
    BY <2>1 DEF ToSet
  <2>. QED BY <2>2, <2>3 DEF Init, Ordered
<1>3. Owing
  <2>1. \A q \in Queries : owed[q] = Nothing /\ phase[q] = "idle"
    BY DEF Init
  <2>2. \A q \in Queries : Given(q)
    BY <2>1, NothingOwed DEF Given
  <2>. QED BY <2>2, NothingTyped DEF Init, Owing
<1>. QED BY <1>1, <1>2, <1>3 DEF CacheInv

LEMMA OthersOwedTyped ==
  ASSUME CacheInv, NEW q \in Queries
  PROVE  OwedAfter(q) \in [Queries -> [Columns -> Stored]]
BY NothingTyped DEF CacheInv, Owing, OwedAfter

(* What q does leaves the others given what they are owed.                 *)
LEMMA OthersAreGiven ==
  ASSUME CacheInv, NEW q \in Queries, NEW p \in Queries, p # q,
         phase'[p] = phase[p], request'[p] = request[p], unknown'[p] = unknown[p],
         fieldKindMap'[p] = fieldKindMap[p], decided'[p] = decided[p],
         owed'[p] = OwedAfter(q)[p]
  PROVE  Given(p)'
<1>1. Given(p)
  BY DEF CacheInv, Owing
<1>2. CASE owed'[p] = Nothing
  <2>1. OwedTo(p)' = {}
    BY <1>2, NothingOwedNext
  <2>2. KeysOf(request[p], {}) = {}
    BY DEF KeysOf
  <2>3. phase[p] \in {"asking", "reading"} => Waiting(p)'
    <3>1. SUFFICES ASSUME phase[p] \in {"asking", "reading"} PROVE Waiting(p)'
      OBVIOUS
    <3>2. unknown[p] \subseteq ToSet(Payload(request[p]))
      BY <1>1, <3>1 DEF Given, Waiting
    <3>. QED BY <2>1, <2>2, <3>2, NoneIsRecent DEF Waiting
  <2>. QED BY <1>2, <2>1, <2>3 DEF Given
<1>3. CASE owed'[p] = owed[p] /\ phase[p] \notin {"asking", "reading"}
  BY <1>1, <1>3 DEF Given, OwedTo
<1>4. CASE owed'[p] = owed[p] /\ cacheVars' = cacheVars
  BY <1>1, <1>4 DEF Given, OwedTo, Waiting, Cached, cacheVars
<1>. QED BY <1>2, <1>3, <1>4 DEF OwedAfter

(* A column that a query finds in the cache is in its order, and back.     *)
LEMMA FoundKeys ==
  ASSUME Ordered, NEW r \in Requests, NEW c \in Columns
  PROVE  Cached(r, c) # Undecided <=> KeyFor(r, c) \in ToSet(recency)
BY KeyTyped DEF Ordered, Cached

(* What a query finds becomes what it is owed, and the last used.          *)
LEMMA LookUpCacheInv ==
  ASSUME CacheInv, NEW q \in Queries, NEW r \in Requests, LookUp(q, r)
  PROVE  CacheInv'
<1>. DEFINE payload == ToSet(Payload(r))
            found == [c \in Columns |-> IF c \in payload THEN Cached(r, c) ELSE Undecided]
            missing == {c \in payload : Cached(r, c) = Undecided}
            cached == KeysOf(r, payload \cap Columns) \cap ToSet(recency)
<1>1. Inv'
  BY LookUpInv DEF CacheInv
<1>2. /\ recency' \in Orders /\ ToSet(recency') = ToSet(recency)
      /\ Recent(recency', cached)
  <2>1. recency' = Touched(recency, r, Payload(r), Columns) /\ recency \in Orders /\ Recent(recency, {})
    BY NoneIsRecent DEF LookUp, CacheInv, Ordered
  <2>2. Recent(recency', {} \cup cached) /\ recency' \in Orders /\ ToSet(recency') = ToSet(recency)
    BY <2>1, PayloadTyped, TouchedKeeps
  <2>3. {} \cup cached = cached
    OBVIOUS
  <2>. HIDE DEF cached
  <2>. QED BY <2>2, <2>3
<1>3. Ordered'
  BY <1>2 DEF CacheInv, Ordered, LookUp
<1>4. payload \subseteq Columns
  BY PayloadTyped
<1>5. /\ phase'[q] = IF missing = {} THEN "resolved" ELSE "asking"
      /\ request'[q] = r /\ unknown'[q] = missing /\ verdict' = verdict
      /\ missing = {} => fieldKindMap'[q] = found
      /\ owed'[q] = found
      /\ owed' = [OwedAfter(q) EXCEPT ![q] = found]
      /\ setup' = setup
  BY DEF LookUp, OwedAfter, CacheInv, Inv, Typed
<1>6. Given(q)'
  <2>1. OwedTo(q)' = {c \in payload : Cached(r, c) # Undecided}
    BY <1>4, <1>5 DEF OwedTo
  <2>2. KeysOf(r, OwedTo(q)') = cached
    BY <1>4, <2>1, FoundKeys DEF KeysOf, CacheInv
  <2>3. \A c \in OwedTo(q)' : owed'[q][c] = Cached(r, c)'
    BY <1>4, <1>5, <2>1 DEF Cached
  <2>4. Waiting(q)'
    <3>. HIDE DEF cached
    <3>. QED BY <1>2, <1>5, <2>1, <2>2, <2>3 DEF Waiting, Cached
  <2>. HIDE DEF found, missing
  <2>. QED BY <1>5, <2>4 DEF Given
<1>7. ASSUME NEW p \in Queries, p # q PROVE Given(p)'
  <2>1. /\ phase'[p] = phase[p] /\ request'[p] = request[p] /\ unknown'[p] = unknown[p]
        /\ fieldKindMap'[p] = fieldKindMap[p] /\ decided'[p] = decided[p]
    BY <1>7 DEF LookUp, CacheInv, Inv, Typed
  <2>2. owed'[p] = OwedAfter(q)[p]
    BY <1>5, <1>7 DEF OwedAfter
  <2>. QED BY <1>7, <2>1, <2>2, OthersAreGiven
<1>8. owed' \in [Queries -> [Columns -> Stored]]
  <2>1. found \in [Columns -> Stored]
    BY CachedTyped DEF CacheInv, Stored
  <2>. HIDE DEF found
  <2>. QED BY <1>5, <2>1, OthersOwedTyped
<1>. QED BY <1>1, <1>3, <1>5, <1>6, <1>7, <1>8 DEF CacheInv, Owing

(* The columns of a result have keys of their own.                         *)
LEMMA KeysApart ==
  ASSUME NEW r, NEW c, NEW d, KeyFor(r, c) = KeyFor(r, d)
  PROVE  c = d
BY DEF KeyFor

(* What a query learns and what it is owed have a place in the cache       *)
(* together, so that it reads both back.                                   *)
LEMMA LearnsCacheInv ==
  ASSUME CacheInv, NEW q \in Queries, NEW fields \in [unknown[q] -> Replies], Learns(q, fields)
  PROVE  CacheInv'
<1>. DEFINE r == request[q]
            payload == ToSet(Payload(r))
            learned == {c \in unknown[q] : Decides(fields[c])}
            filled == Filled(recency, r, Payload(r), learned)
            known == KeysOf(r, OwedTo(q))
            new == KeysOf(r, payload \cap learned)
            chosen(k) == CHOOSE c \in learned : KeyFor(r, c) = k
<1>1. Inv'
  BY LearnsInv DEF CacheInv
<1>2. /\ r \in Requests /\ payload \subseteq Columns /\ Payload(r) \in Seq(Columns)
      /\ learned \subseteq unknown[q] /\ unknown[q] \subseteq payload
      /\ OwedTo(q) \subseteq payload \ unknown[q]
      /\ \A c \in OwedTo(q) : owed[q][c] = Cached(r, c)
      /\ Recent(recency, known)
      /\ recency \in Orders
      /\ phase[q] = "reading"
  <2>1. phase[q] = "reading" /\ r \in Requests /\ Given(q) /\ recency \in Orders
    BY DEF Learns, CacheInv, Inv, Typed, Owing, Ordered
  <2>2. Waiting(q)
    BY <2>1 DEF Given
  <2>. QED BY <2>1, <2>2, PayloadTyped DEF Waiting
<1>3. payload \cap learned = learned
  BY <1>2
<1>4. /\ filled \in Orders
      /\ ToSet(filled) \subseteq ToSet(recency) \cup new
      /\ Recent(filled, known \cup new)
  <2>. DEFINE P == KeysOf(r, payload)
  <2>1. IsFiniteSet(P) /\ Cardinality(P) <= MaxCached
    BY <1>2, PayloadFits
  <2>2. known \subseteq P
    BY <1>2 DEF KeysOf
  <2>. HIDE DEF P, known, r
  <2>3. KeysOf(r, ToSet(Payload(r))) \subseteq P
    BY DEF P
  <2>. QED BY <1>2, <2>1, <2>2, <2>3, FilledKeeps
<1>5. recency' \in Orders /\ ToSet(recency') = ToSet(filled)
  <2>1. recency' = Touched(filled, r, Payload(r), Columns)
    BY DEF Learns
  <2>. DEFINE K == {}
  <2>2. Recent(filled, K)
    BY NoneIsRecent
  <2>. HIDE DEF filled, r, K
  <2>. QED BY <1>2, <1>4, <2>1, <2>2, TouchedKeeps
<1>6. /\ verdict' = [k \in Keys |-> IF \E c \in learned : KeyFor(r, c) = k
                                    THEN VerdictOf(fields[chosen(k)], r.target)
                                    ELSE Kept(filled)[k]]
      /\ phase'[q] = "resolved" /\ setup' = setup
      /\ fieldKindMap'[q] = [c \in Columns |->
                               IF c \in payload THEN verdict'[KeyFor(r, c)] ELSE Undecided]
      /\ owed'[q] = [c \in Columns |-> IF c \in learned THEN VerdictOf(fields[c], r.target)
                                       ELSE owed[q][c]]
      /\ owed' = [OwedAfter(q) EXCEPT ![q] = owed'[q]]
  BY DEF Learns, OwedAfter, CacheInv, Inv, Typed
<1>. HIDE DEF filled
<1>7. ASSUME NEW c \in learned
      PROVE  /\ verdict'[KeyFor(r, c)] = VerdictOf(fields[c], r.target)
             /\ KeyFor(r, c) \in ToSet(filled)
             /\ VerdictOf(fields[c], r.target) \in Verdicts
  <2>1. c \in Columns /\ fields[c] \in Replies /\ KeyFor(r, c) \in Keys
    BY <1>2, KeyTyped
  <2>2. chosen(KeyFor(r, c)) = c
    BY KeysApart
  <2>3. KeyFor(r, c) \in new
    BY <1>3 DEF KeysOf
  <2>. HIDE DEF chosen
  <2>. QED BY <1>2, <1>4, <1>6, <2>1, <2>2, <2>3, VerdictTyped DEF Recent
<1>8. ASSUME NEW k \in Keys, ~\E c \in learned : KeyFor(r, c) = k
      PROVE  verdict'[k] = IF k \in ToSet(filled) THEN verdict[k] ELSE Undecided
  BY <1>6, <1>8 DEF Kept
<1>9. Undecided \notin Verdicts
  BY DEF Undecided, Verdicts
<1>10. Ordered'
  <2>1. ASSUME NEW k \in Keys PROVE verdict'[k] # Undecided <=> k \in ToSet(recency')
    <3>1. CASE \E c \in learned : KeyFor(r, c) = k
      BY <1>5, <1>7, <1>9, <3>1
    <3>2. CASE ~\E c \in learned : KeyFor(r, c) = k
      <4>1. k \notin new
        BY <1>3, <3>2 DEF KeysOf
      <4>2. k \in ToSet(filled) => verdict[k] # Undecided
        BY <1>4, <4>1 DEF CacheInv, Ordered
      <4>. QED BY <1>5, <1>8, <3>2, <4>2
    <3>. QED BY <3>1, <3>2
  <2>. QED BY <1>5, <2>1 DEF Ordered
<1>11. ASSUME NEW c \in OwedTo(q)' PROVE fieldKindMap'[q][c] = owed'[q][c]
  <2>1. CASE c \in learned
    <3>1. fieldKindMap'[q][c] = verdict'[KeyFor(r, c)]
      BY <1>2, <1>6, <2>1
    <3>2. owed'[q][c] = VerdictOf(fields[c], r.target)
      BY <1>2, <1>6, <2>1
    <3>. QED BY <1>7, <2>1, <3>1, <3>2
  <2>2. CASE c \notin learned
    <3>1. c \in OwedTo(q) /\ owed'[q][c] = owed[q][c]
      BY <1>6, <2>2 DEF OwedTo
    <3>2. c \in payload \ unknown[q] /\ c \in Columns /\ owed[q][c] = verdict[KeyFor(r, c)]
      BY <1>2, <3>1 DEF Cached
    <3>3. KeyFor(r, c) \in Keys /\ KeyFor(r, c) \in known
      BY <1>2, <3>1, <3>2, KeyTyped DEF KeysOf
    <3>4. KeyFor(r, c) \in ToSet(filled)
      BY <1>4, <3>3 DEF Recent
    <3>5. verdict'[KeyFor(r, c)] = verdict[KeyFor(r, c)]
      BY <1>8, <2>2, <3>3, <3>4, KeysApart
    <3>. QED BY <1>6, <3>1, <3>2, <3>5
  <2>. QED BY <2>1, <2>2
<1>12. Given(q)'
  BY <1>6, <1>11 DEF Given
<1>13. ASSUME NEW p \in Queries, p # q PROVE Given(p)'
  <2>1. /\ phase'[p] = phase[p] /\ request'[p] = request[p] /\ unknown'[p] = unknown[p]
        /\ fieldKindMap'[p] = fieldKindMap[p] /\ decided'[p] = decided[p]
    BY <1>13 DEF Learns, CacheInv, Inv, Typed
  <2>2. owed'[p] = OwedAfter(q)[p]
    BY <1>6, <1>13 DEF OwedAfter
  <2>. QED BY <1>13, <2>1, <2>2, OthersAreGiven
<1>14. owed' \in [Queries -> [Columns -> Stored]]
  <2>1. owed'[q] \in [Columns -> Stored]
    <3>1. \A c \in Columns : owed[q][c] \in Stored
      BY DEF CacheInv, Owing
    <3>2. ASSUME NEW c \in Columns PROVE owed'[q][c] \in Stored
      <4>1. owed'[q][c] = IF c \in learned THEN VerdictOf(fields[c], r.target) ELSE owed[q][c]
        BY <1>6
      <4>2. c \in learned => VerdictOf(fields[c], r.target) \in Stored
        BY <1>7 DEF Stored
      <4>. HIDE DEF learned
      <4>. QED BY <3>1, <4>1, <4>2
    <3>. HIDE DEF Stored
    <3>. QED BY <1>6, <3>2
  <2>. QED BY <1>6, <2>1, OthersOwedTyped
<1>15. setup' \in Deployments
  BY <1>6 DEF CacheInv, Owing
<1>. QED BY <1>1, <1>10, <1>12, <1>13, <1>14, <1>15 DEF CacheInv, Owing

(* The map goes before the cache: rows are masked with what is owed.       *)
LEMMA MaskRowsCacheInv ==
  ASSUME CacheInv, NEW q \in Queries, MaskRows(q)
  PROVE  CacheInv'
<1>. DEFINE r == request[q]
            consulted == ToSet(r.columns) \ r.ruled
            lookedUp == {c \in consulted : fieldKindMap[q][c] = Undecided}
            left == [c \in Columns |-> IF c \in consulted THEN owed[q][c] ELSE Undecided]
<1>1. Inv'
  BY MaskRowsInv DEF CacheInv
<1>2. Ordered'
  <2>1. /\ recency' = Touched(recency, r, r.columns, lookedUp) /\ recency \in Orders
        /\ r \in Requests /\ r.columns \in Seq(Columns) /\ verdict' = verdict
    BY RequestsAssumption DEF MaskRows, CacheInv, Ordered, Inv, Typed
  <2>. DEFINE K == {}
  <2>2. Recent(recency, K)
    BY NoneIsRecent
  <2>. HIDE DEF r, lookedUp, K
  <2>3. recency' \in Orders /\ ToSet(recency') = ToSet(recency)
    BY <2>1, <2>2, TouchedKeeps
  <2>. QED BY <2>1, <2>3 DEF CacheInv, Ordered
<1>3. /\ phase[q] = "resolved" /\ phase'[q] = "masked" /\ setup' = setup
      /\ decided'[q] = [c \in Columns |-> IF c \in consulted THEN ResolveKind(q, c) ELSE Undecided]
      /\ owed'[q] = left /\ owed' = [OwedAfter(q) EXCEPT ![q] = left]
  BY DEF MaskRows, OwedAfter, CacheInv, Inv, Typed
<1>4. ASSUME NEW c \in OwedTo(q)' PROVE decided'[q][c] = owed'[q][c]
  <2>1. c \in Columns /\ c \in consulted /\ owed'[q][c] = owed[q][c] /\ c \in OwedTo(q)
    BY <1>3 DEF OwedTo
  <2>2. fieldKindMap[q][c] = owed[q][c] /\ owed[q][c] # Undecided
    BY <1>3, <2>1 DEF CacheInv, Owing, Given, OwedTo
  <2>3. decided'[q][c] = fieldKindMap[q][c]
    BY <1>3, <2>1, <2>2 DEF ResolveKind
  <2>. QED BY <2>1, <2>2, <2>3
<1>5. Given(q)'
  BY <1>3, <1>4 DEF Given
<1>6. ASSUME NEW p \in Queries, p # q PROVE Given(p)'
  <2>1. /\ phase'[p] = phase[p] /\ request'[p] = request[p] /\ unknown'[p] = unknown[p]
        /\ fieldKindMap'[p] = fieldKindMap[p] /\ decided'[p] = decided[p]
    BY <1>6 DEF MaskRows, CacheInv, Inv, Typed
  <2>2. owed'[p] = OwedAfter(q)[p]
    BY <1>3, <1>6 DEF OwedAfter
  <2>. QED BY <1>6, <2>1, <2>2, OthersAreGiven
<1>7. owed' \in [Queries -> [Columns -> Stored]]
  <2>1. left \in [Columns -> Stored]
    BY DEF CacheInv, Owing, Stored
  <2>. HIDE DEF left
  <2>. QED BY <1>3, <2>1, OthersOwedTyped
<1>. QED BY <1>1, <1>2, <1>3, <1>5, <1>6, <1>7 DEF CacheInv, Owing

(* The steps that leave the cache as it is, and what each query of the     *)
(* others is owed.                                                         *)
LEMMA QuietCacheInv ==
  ASSUME CacheInv, Inv', NEW q \in Queries, UNCHANGED <<setup, cacheVars>>,
         \A p \in Queries \ {q} :
           /\ phase'[p] = phase[p] /\ request'[p] = request[p] /\ unknown'[p] = unknown[p]
           /\ fieldKindMap'[p] = fieldKindMap[p] /\ decided'[p] = decided[p],
         owed' = [owed EXCEPT ![q] = owed'[q]],
         \/ owed'[q] = Nothing /\ phase'[q] \notin {"asking", "reading"}
         \/ /\ owed'[q] = owed[q] /\ phase[q] = "asking" /\ phase'[q] = "reading"
            /\ request'[q] = request[q] /\ unknown'[q] = unknown[q]
  PROVE  CacheInv'
<1>1. Ordered'
  BY DEF CacheInv, Ordered, cacheVars
<1>2. Given(q)'
  <2>1. CASE owed'[q] = Nothing /\ phase'[q] \notin {"asking", "reading"}
    BY <2>1, NothingOwedNext DEF Given
  <2>2. CASE /\ owed'[q] = owed[q] /\ phase[q] = "asking" /\ phase'[q] = "reading"
             /\ request'[q] = request[q] /\ unknown'[q] = unknown[q]
    <3>1. Waiting(q)
      BY <2>2 DEF CacheInv, Owing, Given
    <3>2. Waiting(q)'
      BY <2>2, <3>1 DEF Waiting, OwedTo, Cached, cacheVars
    <3>. QED BY <2>2, <3>2 DEF Given
  <2>. QED BY <2>1, <2>2
<1>3. ASSUME NEW p \in Queries, p # q PROVE Given(p)'
  <2>1. owed'[p] = owed[p]
    BY <1>3 DEF CacheInv, Owing
  <2>2. owed'[p] = OwedAfter(q)[p]
    BY <2>1 DEF OwedAfter, cacheVars
  <2>. QED BY <1>3, <2>2, OthersAreGiven
<1>4. owed' \in [Queries -> [Columns -> Stored]]
  BY NothingTyped DEF CacheInv, Owing
<1>5. setup' \in Deployments
  BY DEF CacheInv, Owing
<1>. QED BY <1>1, <1>2, <1>3, <1>4, <1>5 DEF CacheInv, Owing

LEMMA NextCacheInv == CacheInv /\ [Next]_vars => CacheInv'
<1>. SUFFICES ASSUME CacheInv, [Next]_vars PROVE CacheInv'
  OBVIOUS
<1>1. Inv'
  BY NextInv DEF CacheInv
<1>2. ASSUME NEW q \in Queries, NEW r \in Requests, ClassifyWithoutProvider(q, r)
      PROVE  CacheInv'
  <2>1. owed[q] = Nothing
    BY <1>2 DEF ClassifyWithoutProvider, CacheInv, Owing, Given
  <2>2. /\ UNCHANGED <<setup, cacheVars, owed>>
        /\ \A p \in Queries \ {q} :
             /\ phase'[p] = phase[p] /\ request'[p] = request[p] /\ unknown'[p] = unknown[p]
             /\ fieldKindMap'[p] = fieldKindMap[p] /\ decided'[p] = decided[p]
        /\ phase'[q] \notin {"asking", "reading"}
    BY <1>2 DEF ClassifyWithoutProvider, Unresolved, CacheInv, Inv, Typed
  <2>3. owed' = [owed EXCEPT ![q] = owed'[q]] /\ owed'[q] = Nothing
    BY <2>1, <2>2 DEF CacheInv, Owing
  <2>. QED BY <1>1, <2>2, <2>3, QuietCacheInv
<1>3. ASSUME NEW q \in Queries, ResponseBegins(q) PROVE CacheInv'
  <2>1. /\ UNCHANGED <<setup, cacheVars, owed>>
        /\ \A p \in Queries \ {q} :
             /\ phase'[p] = phase[p] /\ request'[p] = request[p] /\ unknown'[p] = unknown[p]
             /\ fieldKindMap'[p] = fieldKindMap[p] /\ decided'[p] = decided[p]
        /\ phase[q] = "asking" /\ phase'[q] = "reading"
        /\ request'[q] = request[q] /\ unknown'[q] = unknown[q]
    BY <1>3 DEF ResponseBegins, CacheInv, Inv, Typed
  <2>2. owed' = [owed EXCEPT ![q] = owed'[q]] /\ owed'[q] = owed[q]
    BY <2>1 DEF CacheInv, Owing
  <2>. QED BY <1>1, <2>1, <2>2, QuietCacheInv
<1>4. ASSUME NEW q \in Queries, ProviderFails(q) \/ TimesOut(q) PROVE CacheInv'
  <2>1. /\ UNCHANGED <<setup, cacheVars>>
        /\ \A p \in Queries \ {q} :
             /\ phase'[p] = phase[p] /\ request'[p] = request[p] /\ unknown'[p] = unknown[p]
             /\ fieldKindMap'[p] = fieldKindMap[p] /\ decided'[p] = decided[p]
        /\ phase'[q] \notin {"asking", "reading"}
        /\ owed' = [owed EXCEPT ![q] = owed'[q]] /\ owed'[q] = Nothing
    BY <1>4 DEF ProviderFails, TimesOut, GivesUp, Unresolved, CacheInv, Inv, Typed, Owing
  <2>. QED BY <1>1, <2>1, QuietCacheInv
<1>5. ASSUME NEW q \in Queries, Return(q) PROVE CacheInv'
  <2>1. /\ UNCHANGED <<setup, cacheVars>>
        /\ \A p \in Queries \ {q} :
             /\ phase'[p] = phase[p] /\ request'[p] = request[p] /\ unknown'[p] = unknown[p]
             /\ fieldKindMap'[p] = fieldKindMap[p] /\ decided'[p] = decided[p]
        /\ phase'[q] \notin {"asking", "reading"}
        /\ owed' = [owed EXCEPT ![q] = owed'[q]] /\ owed'[q] = Nothing
    BY <1>5 DEF Return, CacheInv, Inv, Typed, Owing
  <2>. QED BY <1>1, <2>1, QuietCacheInv
<1>6. CASE UNCHANGED vars
  BY <1>1, <1>6 DEF CacheInv, Ordered, Owing, Given, Waiting, OwedTo, Cached, vars, cacheVars, queryVars
<1>. QED BY <1>2, <1>3, <1>4, <1>5, <1>6, LookUpCacheInv, LearnsCacheInv, MaskRowsCacheInv DEF Next

LEMMA CacheInvariance == Spec => []CacheInv
BY InitCacheInv, NextCacheInv, PTL DEF Spec

(* The cache never outgrows its limit, never holds a key twice, and its    *)
(* order and its verdicts agree.                                           *)
THEOREM TypeCorrect == Spec => []TypeOK
<1>1. CacheInv => TypeOK
  BY DEF CacheInv, Inv, Typed, Ordered, Owing, Orders, Stored, TypeOK
<1>. QED BY <1>1, CacheInvariance, PTL

(* What a query found or was answered is what its rows are masked with:    *)
(* the verdicts it caches evict neither, as they are the last used.        *)
THEOREM VerdictsAreKept == Spec => []VerdictsReachTheRows
<1>1. CacheInv => VerdictsReachTheRows
  BY DEF CacheInv, Owing, Given, OwedTo, VerdictsReachTheRows
<1>. QED BY <1>1, CacheInvariance, PTL

=============================================================================
