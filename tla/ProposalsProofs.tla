-------------------------- MODULE ProposalsProofs --------------------------
(***************************************************************************)
(* Proofs about Proposals for any columns, inputs and processes.           *)
(*                                                                         *)
(* The argument is that of optimistic concurrency: a copy that no other    *)
(* process has overtaken agrees with its file, so a save changes only what *)
(* its command is about.                                                   *)
(***************************************************************************)
EXTENDS Proposals, TLAPS

Classifying == {"human", "asking", "answered"}
Accepting == {"listing", "accepting", "accepted", "promoted"}

(* --status is only set, and --as only given, for accept; classify has an  *)
(* input.                                                                  *)
OptionsFit(p) ==
  /\ pc[p] \in Classifying => option[p] \in Inputs
  /\ pc[p] \in Accepting => option[p] \in As
  /\ pc[p] \notin Accepting => listed[p] = "any"

StoreFresh(p) ==
  "proposals" \in Holding[pc[p]] /\ "proposals" \notin stale[p] => store[p] = proposals

HumanFresh(p) ==
  pc[p] \in {"human", "accepted", "setting"} /\ "catalog" \notin stale[p] =>
    human[p] = verdict

(* The columns a run of classify is about have no verdict.                 *)
KeysUndecided(p) ==
  pc[p] \in {"asking", "answered"} /\ "catalog" \notin stale[p] =>
    \A c \in keys[p] : verdict[c] = "none"

(* The columns an accept has promoted have a verdict.                      *)
AcceptedDecided(p) ==
  pc[p] = "promoted" /\ "catalog" \notin stale[p] =>
    \A c \in Accepted(p) : verdict[c] # "none"

(* The columns accept --status has listed have that status.                *)
KeysAsListed(p) ==
  listed[p] # "any" /\ "list" \notin stale[p] =>
    \A c \in keys[p] : proposals[c].status = listed[p]

Fresh(p) ==
  /\ OptionsFit(p) /\ StoreFresh(p) /\ HumanFresh(p)
  /\ KeysUndecided(p) /\ AcceptedDecided(p) /\ KeysAsListed(p)

Inv == TypeOK /\ \A p \in Clis : Fresh(p)

----------------------------------------------------------------------------

(* The types of one process's variables, apart from the others'.           *)
LocalType(p) ==
  /\ pc[p] \in DOMAIN Holding /\ keys[p] \in SUBSET Columns
  /\ option[p] \in As \cup Inputs /\ listed[p] \in {"any", "safe", "sensitive"}
  /\ human[p] \in Human /\ store[p] \in Store
  /\ stale[p] \subseteq Holding[pc[p]]

(* The states of a process.                                                *)
LEMMA HoldingDomain ==
  DOMAIN Holding = {"idle", "human", "asking", "answered", "listing", "accepting",
                    "accepted", "promoted", "rejecting", "setting"}
BY DEF Holding

(* The catalog and the proposals are empty at first.                       *)
LEMMA EmptyTypes == NoHuman \in Human /\ NoStore \in Store
BY DEF NoHuman, Human, Verdicts, NoStore, Store, Proposal, None

(* A proposal is promoted to a verdict, or not at all.                     *)
LEMMA PromotionType ==
  ASSUME NEW s \in Proposal \cup {None}, NEW as \in As
  PROVE  Promotion(s, as) \in Verdicts
BY DEF Promotion, Proposal, None, As, Verdicts, Statuses, Answers

(***************************************************************************)
(* What a process that does nothing sees of another's step: its own        *)
(* variables are untouched, and a file it holds is either unchanged or     *)
(* marked as overtaken.                                                    *)
(***************************************************************************)
Untouched(q) ==
  /\ UNCHANGED <<pc[q], keys[q], option[q], listed[q], human[q], store[q]>>
  /\ stale[q] \subseteq stale'[q] /\ stale'[q] \subseteq Holding[pc[q]]
  /\ verdict' = verdict \/ ({"catalog"} \cap Holding[pc[q]]) \subseteq stale'[q]
  /\ proposals' = proposals
     \/ ({"proposals", "list"} \cap Holding[pc[q]]) \subseteq stale'[q]

(* Such a process remains right about the files.                           *)
LEMMA UntouchedFresh ==
  ASSUME Inv, NEW q \in Clis, Untouched(q)
  PROVE  Fresh(q)'
<1> USE DEF Untouched
<1>0. Fresh(q) /\ pc[q] \in DOMAIN Holding /\ listed[q] \in {"any", "safe", "sensitive"}
  BY DEF Inv, TypeOK
<1>1. OptionsFit(q)'
  BY <1>0 DEF Fresh, OptionsFit
<1>2. StoreFresh(q)'
  BY <1>0 DEF Fresh, StoreFresh
<1>3. HumanFresh(q)'
  <2>1. pc[q] \in {"human", "accepted", "setting"} => "catalog" \in Holding[pc[q]]
    BY DEF Holding
  <2> QED
    BY <1>0, <2>1 DEF Fresh, HumanFresh
<1>4. KeysUndecided(q)'
  <2>1. pc[q] \in {"asking", "answered"} => "catalog" \in Holding[pc[q]]
    BY DEF Holding
  <2> QED
    BY <1>0, <2>1 DEF Fresh, KeysUndecided
<1>5. AcceptedDecided(q)'
  <2>1. pc[q] = "promoted" => "catalog" \in Holding[pc[q]]
    BY DEF Holding
  <2>2. Accepted(q)' = Accepted(q)
    BY DEF Accepted, Promotion
  <2> QED
    BY <1>0, <2>1, <2>2 DEF Fresh, AcceptedDecided
<1>6. KeysAsListed(q)'
  <2>1. listed[q] # "any" => "list" \in Holding[pc[q]]
    BY <1>0 DEF Fresh, OptionsFit, Accepting, Holding
  <2> QED
    BY <1>0, <2>1 DEF Fresh, KeysAsListed
<1> QED
  BY <1>1, <1>2, <1>3, <1>4, <1>5, <1>6 DEF Fresh

(* The step of one process keeps the invariant when it leaves the files    *)
(* and its own variables well typed and fresh.                             *)
LEMMA OneMoves ==
  ASSUME Inv, NEW p \in Clis, Fresh(p)', LocalType(p)',
         verdict' \in Human, proposals' \in Store, commands' \in 0 .. MaxCommands,
         \A q \in Clis \ {p} : Untouched(q),
         pc' = [pc EXCEPT ![p] = pc'[p]], keys' = [keys EXCEPT ![p] = keys'[p]],
         option' = [option EXCEPT ![p] = option'[p]],
         listed' = [listed EXCEPT ![p] = listed'[p]],
         human' = [human EXCEPT ![p] = human'[p]],
         store' = [store EXCEPT ![p] = store'[p]],
         stale' = [q \in Clis |-> stale'[q]]
  PROVE  Inv'
<1>1. \A q \in Clis : Fresh(q)'
  <2> TAKE q \in Clis
  <2>1. CASE q # p
    BY <2>1, UntouchedFresh
  <2> QED
    BY <2>1
<1>2. \A q \in Clis : stale'[q] \subseteq Holding[pc'[q]]
  <2> TAKE q \in Clis
  <2>1. CASE q # p
    BY <2>1 DEF Untouched
  <2> QED
    BY <2>1 DEF LocalType
<1>6. stale' \in [Clis -> SUBSET {"catalog", "proposals", "list"}]
  <2>1. \A q \in Clis : pc'[q] \in DOMAIN Holding
    BY DEF Inv, TypeOK, LocalType, Untouched
  <2>2. \A at \in DOMAIN Holding : Holding[at] \subseteq {"catalog", "proposals", "list"}
    BY DEF Holding
  <2> QED
    BY <1>2, <2>1, <2>2
<1>3. pc' \in [Clis -> DOMAIN Holding] /\ keys' \in [Clis -> SUBSET Columns]
  BY DEF Inv, TypeOK, LocalType
<1>4. /\ option' \in [Clis -> As \cup Inputs]
      /\ listed' \in [Clis -> {"any", "safe", "sensitive"}]
  BY DEF Inv, TypeOK, LocalType
<1>5. human' \in [Clis -> Human] /\ store' \in [Clis -> Store]
  BY DEF Inv, TypeOK, LocalType
<1> QED
  BY <1>1, <1>2, <1>3, <1>4, <1>5, <1>6 DEF Inv, TypeOK

----------------------------------------------------------------------------
(***************************************************************************)
(* Kinds of steps.                                                         *)
(***************************************************************************)

(* The end of a command leaves nothing to be right about.                  *)
LEMMA EndsFresh ==
  ASSUME Inv, NEW p \in Clis, Ends(p), stale'[p] = {}
  PROVE  /\ Fresh(p)' /\ LocalType(p)'
         /\ pc' = [pc EXCEPT ![p] = pc'[p]] /\ keys' = [keys EXCEPT ![p] = keys'[p]]
         /\ option' = [option EXCEPT ![p] = option'[p]]
         /\ listed' = [listed EXCEPT ![p] = listed'[p]]
         /\ human' = [human EXCEPT ![p] = human'[p]]
         /\ store' = [store EXCEPT ![p] = store'[p]]
         /\ pc'[p] = "idle"
<1>1. /\ pc'[p] = "idle" /\ keys'[p] = {} /\ option'[p] = "none" /\ listed'[p] = "any"
      /\ human'[p] = NoHuman /\ store'[p] = NoStore
  BY DEF Inv, TypeOK, Ends, GoesTo
<1>2. LocalType(p)'
  BY <1>1, EmptyTypes DEF LocalType, Holding, As
<1>3. Fresh(p)'
  BY <1>1 DEF Fresh, OptionsFit, StoreFresh, HumanFresh, KeysUndecided, AcceptedDecided,
              KeysAsListed, Classifying, Accepting, Holding
<1> QED
  BY <1>1, <1>2, <1>3 DEF Ends, GoesTo

(* A save marks the file as overtaken for the others that hold it.         *)
LEMMA OvertakesOthers ==
  ASSUME Inv, NEW p \in Clis, NEW q \in Clis \ {p}, NEW what, NEW own,
         Overtakes(p, what, own),
         UNCHANGED <<pc[q], keys[q], option[q], listed[q], human[q], store[q]>>,
         verdict' = verdict \/ {"catalog"} \subseteq what,
         proposals' = proposals \/ {"proposals", "list"} \subseteq what
  PROVE  Untouched(q)
<1>1. stale'[q] = stale[q] \cup (what \cap Holding[pc[q]])
  BY DEF Overtakes
<1>2. stale[q] \subseteq Holding[pc[q]]
  BY DEF Inv, TypeOK
<1> QED
  BY <1>1, <1>2 DEF Untouched

(* A load touches nobody else.                                             *)
LEMMA LoadsOthers ==
  ASSUME Inv, NEW q \in Clis, UNCHANGED files, stale'[q] = stale[q],
         UNCHANGED <<pc[q], keys[q], option[q], listed[q], human[q], store[q]>>
  PROVE  Untouched(q)
BY DEF Inv, TypeOK, Untouched, files

(* The last save of a command: of the proposals.                           *)
LEMMA SavesProposalsInv ==
  ASSUME Inv, NEW p \in Clis, NEW content \in Store, SavesProposals(p, content)
  PROVE  Inv'
<1>1. /\ proposals' = content /\ UNCHANGED <<verdict, commands>> /\ Ends(p)
      /\ Overtakes(p, {"proposals", "list"}, {})
  BY DEF SavesProposals
<1>2. stale'[p] = {} /\ stale' = [q \in Clis |-> stale'[q]]
  BY <1>1 DEF Overtakes
<1>3. \A q \in Clis \ {p} : Untouched(q)
  <2> TAKE q \in Clis \ {p}
  <2>1. UNCHANGED <<pc[q], keys[q], option[q], listed[q], human[q], store[q]>>
    BY <1>1 DEF Inv, TypeOK, Ends, GoesTo
  <2> QED
    BY <1>1, <2>1, OvertakesOthers
<1>4. verdict' \in Human /\ proposals' \in Store /\ commands' \in 0 .. MaxCommands
  BY <1>1 DEF Inv, TypeOK
<1> QED
  BY <1>1, <1>2, <1>3, <1>4, EndsFresh, OneMoves

(* A command that ends without a save.                                     *)
LEMMA EndsInv ==
  ASSUME Inv, NEW p \in Clis, Ends(p), stale' = [stale EXCEPT ![p] = {}],
         UNCHANGED <<files, commands>>
  PROVE  Inv'
<1>1. stale'[p] = {} /\ stale' = [q \in Clis |-> stale'[q]]
  BY DEF Inv, TypeOK
<1>2. \A q \in Clis \ {p} : Untouched(q)
  <2> TAKE q \in Clis \ {p}
  <2>1. UNCHANGED <<pc[q], keys[q], option[q], listed[q], human[q], store[q]>>
    BY DEF Inv, TypeOK, Ends, GoesTo
  <2>2. stale'[q] = stale[q]
    BY DEF Inv, TypeOK
  <2> QED
    BY <2>1, <2>2, LoadsOthers
<1>3. verdict' \in Human /\ proposals' \in Store /\ commands' \in 0 .. MaxCommands
  BY DEF Inv, TypeOK, files
<1> QED
  BY <1>1, <1>2, <1>3, EndsFresh, OneMoves

(* A step within a command that saves nothing.                             *)
LEMMA LoadsInv ==
  ASSUME Inv, NEW p \in Clis, Fresh(p)', LocalType(p)',
         UNCHANGED <<files, stale>>, commands' \in 0 .. MaxCommands,
         pc' = [pc EXCEPT ![p] = pc'[p]], keys' = [keys EXCEPT ![p] = keys'[p]],
         option' = [option EXCEPT ![p] = option'[p]],
         listed' = [listed EXCEPT ![p] = listed'[p]],
         human' = [human EXCEPT ![p] = human'[p]],
         store' = [store EXCEPT ![p] = store'[p]]
  PROVE  Inv'
<1>1. stale' = [q \in Clis |-> stale'[q]]
  BY DEF Inv, TypeOK
<1>2. \A q \in Clis \ {p} : Untouched(q)
  <2> TAKE q \in Clis \ {p}
  <2>1. UNCHANGED <<pc[q], keys[q], option[q], listed[q], human[q], store[q]>>
    BY DEF Inv, TypeOK
  <2> QED
    BY <2>1, LoadsOthers
<1>3. verdict' \in Human /\ proposals' \in Store
  BY DEF Inv, TypeOK, files
<1> QED
  BY <1>1, <1>2, <1>3, OneMoves

----------------------------------------------------------------------------
(***************************************************************************)
(* One lemma for each step that loads.                                     *)
(***************************************************************************)

(* A process that starts a command has nothing that could be overtaken.    *)
LEMMA StartsClean ==
  ASSUME Inv, NEW p \in Clis, Starts(p)
  PROVE  /\ pc[p] = "idle" /\ stale[p] = {} /\ listed[p] = "any"
         /\ commands' \in 0 .. MaxCommands
<1>1. pc[p] = "idle" /\ stale[p] \subseteq Holding["idle"] /\ Fresh(p)
  BY DEF Inv, TypeOK, Starts
<1>2. stale[p] = {} /\ listed[p] = "any"
  BY <1>1 DEF Holding, Fresh, OptionsFit, Accepting
<1>3. commands' \in 0 .. MaxCommands
  BY MaxCommandsAssumption DEF Inv, TypeOK, Starts
<1> QED
  BY <1>1, <1>2, <1>3

(* classify reads the verdicts.                                            *)
LEMMA ClassifyReadsInv ==
  ASSUME Inv, NEW p \in Clis, NEW input \in Inputs, ClassifyReads(p, input)
  PROVE  Inv'
<1>1. Starts(p) /\ UNCHANGED <<files, keys, listed, store, stale>>
  BY DEF ClassifyReads
<1>2. /\ pc' = [pc EXCEPT ![p] = "human"] /\ option' = [option EXCEPT ![p] = input]
      /\ human' = [human EXCEPT ![p] = verdict]
  BY DEF ClassifyReads, GoesTo
<1>3. /\ pc'[p] = "human" /\ option'[p] = input /\ human'[p] = verdict
      /\ keys'[p] = keys[p] /\ listed'[p] = "any" /\ store'[p] = store[p]
      /\ stale'[p] = {} /\ verdict' = verdict
  BY <1>1, <1>2, StartsClean DEF Inv, TypeOK, files
<1>4. LocalType(p)'
  BY <1>3 DEF Inv, TypeOK, LocalType, Holding
<1>5. Fresh(p)'
  BY <1>3 DEF Fresh, OptionsFit, StoreFresh, HumanFresh, KeysUndecided, AcceptedDecided,
              KeysAsListed, Classifying, Accepting, Holding
<1> QED
  BY <1>1, <1>2, <1>3, <1>4, <1>5, StartsClean, LoadsInv DEF Inv, TypeOK

(* classify picks columns without a verdict.                               *)
LEMMA ClassifyAsksInv ==
  ASSUME Inv, NEW p \in Clis, NEW force, ClassifyAsks(p, force)
  PROVE  Inv'
<1>1. /\ pc[p] = "human" /\ pc' = [pc EXCEPT ![p] = "asking"]
      /\ keys' = [keys EXCEPT ![p] = ToClassify(p, force)]
      /\ human' = [human EXCEPT ![p] = NoHuman]
      /\ UNCHANGED <<files, option, listed, store, commands, stale>>
  BY DEF ClassifyAsks, GoesTo
<1>2. /\ pc'[p] = "asking" /\ keys'[p] = ToClassify(p, force) /\ human'[p] = NoHuman
      /\ verdict' = verdict
  BY <1>1 DEF Inv, TypeOK, files
<1>3. Fresh(p) /\ stale[p] \subseteq {"catalog"}
  BY <1>1 DEF Inv, TypeOK, Holding
<1>4. LocalType(p)'
  BY <1>1, <1>2, <1>3, EmptyTypes DEF Inv, TypeOK, LocalType, Holding, ToClassify
<1>5. OptionsFit(p)' /\ StoreFresh(p)' /\ HumanFresh(p)' /\ AcceptedDecided(p)' /\ KeysAsListed(p)'
  BY <1>1, <1>2, <1>3 DEF Fresh, OptionsFit, StoreFresh, HumanFresh, AcceptedDecided,
              KeysAsListed, Classifying, Accepting, Holding
<1>6. KeysUndecided(p)'
  BY <1>1, <1>2, <1>3 DEF Fresh, HumanFresh, KeysUndecided, ToClassify
<1> QED
  BY <1>1, <1>2, <1>4, <1>5, <1>6, LoadsInv DEF Inv, TypeOK, Fresh

(* recordProposals loads the proposals.                                    *)
LEMMA ClassifyLoadsInv ==
  ASSUME Inv, NEW p \in Clis, ClassifyLoads(p)
  PROVE  Inv'
<1>1. /\ pc[p] = "asking" /\ pc' = [pc EXCEPT ![p] = "answered"]
      /\ store' = [store EXCEPT ![p] = proposals]
      /\ UNCHANGED <<files, keys, option, listed, human, commands, stale>>
  BY DEF ClassifyLoads, GoesTo
<1>2. pc'[p] = "answered" /\ store'[p] = proposals /\ UNCHANGED <<verdict, proposals>>
  BY <1>1 DEF Inv, TypeOK, files
<1>3. Fresh(p) /\ stale[p] \subseteq {"catalog"}
  BY <1>1 DEF Inv, TypeOK, Holding
<1>4. LocalType(p)'
  BY <1>1, <1>2, <1>3 DEF Inv, TypeOK, LocalType, Holding
<1>5. Fresh(p)'
  BY <1>1, <1>2, <1>3
     DEF Fresh, OptionsFit, StoreFresh, HumanFresh, KeysUndecided, AcceptedDecided,
         KeysAsListed, Classifying, Accepting, Holding
<1> QED
  BY <1>1, <1>2, <1>4, <1>5, LoadsInv DEF Inv, TypeOK

(* accept --status lists the columns of that status.                       *)
LEMMA AcceptListsInv ==
  ASSUME Inv, NEW p \in Clis, NEW status \in {"safe", "sensitive"}, NEW as \in As,
         AcceptLists(p, status, as)
  PROVE  Inv'
<1>1. /\ Starts(p) /\ pc' = [pc EXCEPT ![p] = "listing"]
      /\ keys' = [keys EXCEPT ![p] = {c \in Columns : proposals[c].status = status}]
      /\ option' = [option EXCEPT ![p] = as] /\ listed' = [listed EXCEPT ![p] = status]
      /\ UNCHANGED <<files, human, store, stale>>
  BY DEF AcceptLists, GoesTo, copies
<1>2. /\ pc'[p] = "listing" /\ keys'[p] = {c \in Columns : proposals[c].status = status}
      /\ option'[p] = as /\ listed'[p] = status /\ stale'[p] = {}
      /\ UNCHANGED <<verdict, proposals>>
  BY <1>1, StartsClean DEF Inv, TypeOK, files
<1>3. LocalType(p)'
  BY <1>1, <1>2 DEF Inv, TypeOK, LocalType, Holding
<1>4. KeysAsListed(p)'
  BY <1>2 DEF KeysAsListed
<1>5. pc'[p] = "listing" /\ option'[p] = as
  BY <1>2
<1>6. OptionsFit(p)'
  BY <1>5 DEF OptionsFit, Classifying, Accepting
<1>7. StoreFresh(p)'
  BY <1>5 DEF StoreFresh, Holding
<1>8. HumanFresh(p)' /\ KeysUndecided(p)' /\ AcceptedDecided(p)'
  BY <1>5 DEF HumanFresh, KeysUndecided, AcceptedDecided
<1> QED
  BY <1>1, <1>2, <1>3, <1>4, <1>6, <1>7, <1>8, StartsClean, LoadsInv DEF Inv, TypeOK, Fresh

(* acceptProposals loads the proposals.                                    *)
LEMMA AcceptLoadsInv ==
  ASSUME Inv, NEW p \in Clis, AcceptLoads(p)
  PROVE  Inv'
<1>1. /\ pc[p] = "listing" /\ pc' = [pc EXCEPT ![p] = "accepting"]
      /\ store' = [store EXCEPT ![p] = proposals]
      /\ UNCHANGED <<files, keys, option, listed, human, commands, stale>>
  BY DEF AcceptLoads, GoesTo
<1>2. pc'[p] = "accepting" /\ store'[p] = proposals /\ UNCHANGED <<verdict, proposals>>
  BY <1>1 DEF Inv, TypeOK, files
<1>3. Fresh(p) /\ stale[p] \subseteq {"list"}
  BY <1>1 DEF Inv, TypeOK, Holding
<1>4. LocalType(p)'
  BY <1>1, <1>2, <1>3 DEF Inv, TypeOK, LocalType, Holding
<1>5. Fresh(p)'
  BY <1>1, <1>2, <1>3
     DEF Fresh, OptionsFit, StoreFresh, HumanFresh, KeysUndecided, AcceptedDecided,
         KeysAsListed, Classifying, Accepting, Holding
<1> QED
  BY <1>1, <1>2, <1>4, <1>5, LoadsInv DEF Inv, TypeOK

(* accept of named columns does so at once.                                *)
LEMMA AcceptNamedInv ==
  ASSUME Inv, NEW p \in Clis, NEW named \in Named, NEW as \in As, AcceptNamed(p, named, as)
  PROVE  Inv'
<1>1. /\ Starts(p) /\ pc' = [pc EXCEPT ![p] = "accepting"]
      /\ keys' = [keys EXCEPT ![p] = named] /\ option' = [option EXCEPT ![p] = as]
      /\ store' = [store EXCEPT ![p] = proposals]
      /\ UNCHANGED <<files, listed, human, stale>>
  BY DEF AcceptNamed, GoesTo
<1>2. /\ pc'[p] = "accepting" /\ keys'[p] = named /\ option'[p] = as /\ store'[p] = proposals
      /\ listed'[p] = "any" /\ stale'[p] = {} /\ UNCHANGED <<verdict, proposals>>
  BY <1>1, StartsClean DEF Inv, TypeOK, files
<1>3. LocalType(p)'
  BY <1>1, <1>2 DEF Inv, TypeOK, LocalType, Holding, Named
<1>4. Fresh(p)'
  BY <1>2 DEF Fresh, OptionsFit, StoreFresh, HumanFresh, KeysUndecided, AcceptedDecided,
              KeysAsListed, Classifying, Accepting, Holding
<1> QED
  BY <1>1, <1>2, <1>3, <1>4, StartsClean, LoadsInv DEF Inv, TypeOK

(* acceptProposals loads the catalog, or has nothing to accept.            *)
LEMMA AcceptDecidesInv ==
  ASSUME Inv, NEW p \in Clis, AcceptDecides(p)
  PROVE  Inv'
<1>1. CASE Ends(p) /\ stale' = [stale EXCEPT ![p] = {}]
  BY <1>1, EndsInv DEF AcceptDecides
<1>2. CASE /\ pc' = [pc EXCEPT ![p] = "accepted"] /\ human' = [human EXCEPT ![p] = verdict]
           /\ UNCHANGED <<keys, option, listed, store, stale>>
  <2>1. pc[p] = "accepting" /\ UNCHANGED <<files, commands>>
    BY DEF AcceptDecides
  <2>2. pc'[p] = "accepted" /\ human'[p] = verdict /\ UNCHANGED <<verdict, proposals>>
    BY <1>2, <2>1 DEF Inv, TypeOK, files
  <2>3. Fresh(p) /\ stale[p] \subseteq {"list", "proposals"}
    BY <2>1 DEF Inv, TypeOK, Holding
  <2>4. LocalType(p)'
    BY <1>2, <2>1, <2>2, <2>3 DEF Inv, TypeOK, LocalType, Holding
  <2>5. Fresh(p)'
    BY <1>2, <2>1, <2>2, <2>3
       DEF Fresh, OptionsFit, StoreFresh, HumanFresh, KeysUndecided, AcceptedDecided,
           KeysAsListed, Classifying, Accepting, Holding
  <2> QED
    BY <1>2, <2>1, <2>2, <2>4, <2>5, LoadsInv DEF Inv, TypeOK
<1> QED
  BY <1>1, <1>2 DEF AcceptDecides, GoesTo

(* reject loads the proposals.                                             *)
LEMMA RejectLoadsInv ==
  ASSUME Inv, NEW p \in Clis, NEW named \in Named, RejectLoads(p, named)
  PROVE  Inv'
<1>1. /\ Starts(p) /\ pc' = [pc EXCEPT ![p] = "rejecting"]
      /\ keys' = [keys EXCEPT ![p] = named]
      /\ store' = [store EXCEPT ![p] = proposals]
      /\ UNCHANGED <<files, option, listed, human, stale>>
  BY DEF RejectLoads, GoesTo
<1>2. /\ pc'[p] = "rejecting" /\ keys'[p] = named /\ store'[p] = proposals
      /\ listed'[p] = "any" /\ stale'[p] = {} /\ UNCHANGED <<verdict, proposals>>
  BY <1>1, StartsClean DEF Inv, TypeOK, files
<1>3. LocalType(p)'
  BY <1>1, <1>2 DEF Inv, TypeOK, LocalType, Holding, Named
<1>4. Fresh(p)'
  BY <1>2 DEF Fresh, OptionsFit, StoreFresh, HumanFresh, KeysUndecided, AcceptedDecided,
              KeysAsListed, Classifying, Accepting, Holding
<1> QED
  BY <1>1, <1>2, <1>3, <1>4, StartsClean, LoadsInv DEF Inv, TypeOK

(* set loads the catalog.                                                  *)
LEMMA SetLoadsInv ==
  ASSUME Inv, NEW p \in Clis, NEW c \in Columns, SetLoads(p, c)
  PROVE  Inv'
<1>1. /\ Starts(p) /\ pc' = [pc EXCEPT ![p] = "setting"]
      /\ keys' = [keys EXCEPT ![p] = {c}]
      /\ human' = [human EXCEPT ![p] = verdict]
      /\ UNCHANGED <<files, option, listed, store, stale>>
  BY DEF SetLoads, GoesTo
<1>2. /\ pc'[p] = "setting" /\ keys'[p] = {c} /\ human'[p] = verdict
      /\ listed'[p] = "any" /\ stale'[p] = {} /\ UNCHANGED <<verdict, proposals>>
  BY <1>1, StartsClean DEF Inv, TypeOK, files
<1>3. LocalType(p)'
  BY <1>1, <1>2 DEF Inv, TypeOK, LocalType, Holding
<1>4. Fresh(p)'
  BY <1>2 DEF Fresh, OptionsFit, StoreFresh, HumanFresh, KeysUndecided, AcceptedDecided,
              KeysAsListed, Classifying, Accepting, Holding
<1> QED
  BY <1>1, <1>2, <1>3, <1>4, StartsClean, LoadsInv DEF Inv, TypeOK

----------------------------------------------------------------------------
(***************************************************************************)
(* One lemma for each step that saves: what it changes, and that it keeps  *)
(* the invariant.                                                          *)
(***************************************************************************)

(* recordProposals saves.                                                  *)
LEMMA ClassifySavesInv ==
  ASSUME Inv, NEW p \in Clis, ClassifySaves(p)
  PROVE  Inv' /\ verdict' = verdict
<1>1. PICK answer \in [keys[p] -> Answers] : SavesProposals(p, Recorded(p, answer))
  BY DEF ClassifySaves
<1>2. option[p] \in Inputs /\ store[p] \in Store
  BY DEF Inv, TypeOK, Fresh, OptionsFit, Classifying, ClassifySaves
<1>3. Recorded(p, answer) \in Store
  BY <1>2 DEF Recorded, Store, Proposal, Statuses
<1> QED
  BY <1>1, <1>3, SavesProposalsInv DEF SavesProposals

(* accept saves the catalog.                                               *)
LEMMA AcceptSavesCatalogInv ==
  ASSUME Inv, NEW p \in Clis, AcceptSavesCatalog(p)
  PROVE  Inv' /\ proposals' = proposals
<1>1. /\ pc[p] = "accepted" /\ pc' = [pc EXCEPT ![p] = "promoted"]
      /\ verdict' = Promoted(p) /\ Overtakes(p, {"catalog"}, stale[p])
      /\ UNCHANGED <<proposals, keys, option, listed, human, store, commands>>
  BY DEF AcceptSavesCatalog, GoesTo, copies
<1>2. pc'[p] = "promoted" /\ stale'[p] = stale[p] /\ stale' = [q \in Clis |-> stale'[q]]
  BY <1>1 DEF Overtakes, Inv, TypeOK
<1>3. /\ Fresh(p) /\ stale[p] \subseteq {"list", "proposals", "catalog"}
      /\ option[p] \in As /\ store[p] \in Store /\ human[p] \in Human
  BY <1>1 DEF Inv, TypeOK, Holding, Fresh, OptionsFit, Accepting
<1>4. verdict' \in Human
  <2>1. \A c \in Columns : Promotion(store[p][c], option[p]) \in Verdicts
    BY <1>3, PromotionType DEF Store
  <2> QED
    BY <1>1, <1>3, <2>1 DEF Promoted, Human
<1>5. LocalType(p)'
  BY <1>1, <1>2, <1>3 DEF Inv, TypeOK, LocalType, Holding
<1>6. AcceptedDecided(p)'
  <2>1. Accepted(p)' = Accepted(p)
    BY <1>1 DEF Accepted
  <2>2. \A c \in Accepted(p) : verdict'[c] # "none"
    <3>1. Accepted(p) \subseteq Columns
      BY DEF Accepted, Inv, TypeOK
    <3> QED
      BY <1>1, <3>1 DEF Promoted, Accepted
  <2> QED
    BY <2>1, <2>2 DEF AcceptedDecided
<1>7. OptionsFit(p)' /\ StoreFresh(p)' /\ HumanFresh(p)' /\ KeysUndecided(p)' /\ KeysAsListed(p)'
  BY <1>1, <1>2, <1>3
     DEF Fresh, OptionsFit, StoreFresh, HumanFresh, KeysUndecided, KeysAsListed,
         Classifying, Accepting, Holding
<1>8. \A q \in Clis \ {p} : Untouched(q)
  <2> TAKE q \in Clis \ {p}
  <2>1. UNCHANGED <<pc[q], keys[q], option[q], listed[q], human[q], store[q]>>
    BY <1>1 DEF Inv, TypeOK
  <2> QED
    BY <1>1, <2>1, OvertakesOthers
<1>9. Inv'
  BY <1>1, <1>2, <1>4, <1>5, <1>6, <1>7, <1>8, OneMoves DEF Inv, TypeOK, Fresh
<1> QED
  BY <1>1, <1>9

(* accept saves the proposals.                                             *)
LEMMA AcceptSavesProposalsInv ==
  ASSUME Inv, NEW p \in Clis, AcceptSavesProposals(p)
  PROVE  Inv' /\ verdict' = verdict
<1> DEFINE content == [c \in Columns |-> IF c \in Accepted(p) THEN None ELSE store[p][c]]
<1>1. SavesProposals(p, content)
  BY DEF AcceptSavesProposals
<1>2. content \in Store
  BY DEF Inv, TypeOK, Store
<1> QED
  BY <1>1, <1>2, SavesProposalsInv DEF SavesProposals

(* reject saves the proposals, or has nothing to reject.                   *)
LEMMA RejectSavesInv ==
  ASSUME Inv, NEW p \in Clis, RejectSaves(p)
  PROVE  Inv' /\ verdict' = verdict
<1> DEFINE content == [c \in Columns |-> IF c \in Rejected(p)
                                        THEN [store[p][c] EXCEPT !.status = "rejected"]
                                        ELSE store[p][c]]
<1>1. CASE Rejected(p) # {}
  <2>1. SavesProposals(p, content)
    BY <1>1 DEF RejectSaves
  <2>2. \A c \in Rejected(p) : store[p][c] \in Proposal
    BY DEF Inv, TypeOK, Store, Rejected
  <2>3. content \in Store
    BY <2>2 DEF Inv, TypeOK, Store, Proposal, Statuses
  <2> QED
    BY <2>1, <2>3, SavesProposalsInv DEF SavesProposals
<1>2. CASE Rejected(p) = {}
  BY <1>2, EndsInv DEF RejectSaves, files
<1> QED
  BY <1>1, <1>2

(* set and unset save the catalog.                                         *)
LEMMA SetSavesInv ==
  ASSUME Inv, NEW p \in Clis, NEW v \in Verdicts, SetSaves(p, v)
  PROVE  Inv' /\ proposals' = proposals
<1>1. /\ verdict' = [c \in Columns |-> IF c \in keys[p] THEN v ELSE human[p][c]]
      /\ Overtakes(p, {"catalog"}, {}) /\ Ends(p) /\ UNCHANGED <<proposals, commands>>
  BY DEF SetSaves
<1>2. stale'[p] = {} /\ stale' = [q \in Clis |-> stale'[q]]
  BY <1>1 DEF Overtakes
<1>3. \A q \in Clis \ {p} : Untouched(q)
  <2> TAKE q \in Clis \ {p}
  <2>1. UNCHANGED <<pc[q], keys[q], option[q], listed[q], human[q], store[q]>>
    BY <1>1 DEF Inv, TypeOK, Ends, GoesTo
  <2> QED
    BY <1>1, <2>1, OvertakesOthers
<1>4. verdict' \in Human /\ proposals' \in Store /\ commands' \in 0 .. MaxCommands
  BY <1>1 DEF Inv, TypeOK, Human
<1> QED
  BY <1>1, <1>2, <1>3, <1>4, EndsFresh, OneMoves

(* A process is interrupted.                                               *)
LEMMA InterruptedInv ==
  ASSUME Inv, NEW p \in Clis, Interrupted(p)
  PROVE  Inv'
BY EndsInv DEF Interrupted

----------------------------------------------------------------------------

(* Nothing is under way at first.                                          *)
LEMMA InitInv == Init => Inv
<1> SUFFICES ASSUME Init PROVE Inv
  OBVIOUS
<1>1. TypeOK
  BY EmptyTypes, MaxCommandsAssumption DEF Init, TypeOK, Holding, As
<1>2. ASSUME NEW p \in Clis PROVE Fresh(p)
  BY DEF Init, Fresh, OptionsFit, StoreFresh, HumanFresh, KeysUndecided, AcceptedDecided,
         KeysAsListed, Classifying, Accepting, Holding
<1> QED
  BY <1>1, <1>2 DEF Inv

(* Every step keeps the invariant.                                         *)
LEMMA NextInv == Inv /\ [Next]_allVars => Inv'
<1> SUFFICES ASSUME Inv, [Next]_allVars PROVE Inv'
  OBVIOUS
<1>1. CASE UNCHANGED allVars
  BY <1>1 DEF allVars, vars, files, copies, Inv, TypeOK, Fresh, OptionsFit, StoreFresh,
     HumanFresh, KeysUndecided, AcceptedDecided, KeysAsListed, Accepted
<1>2. ASSUME NEW p \in Clis, Classify(p) PROVE Inv'
  BY <1>2, ClassifyReadsInv, ClassifyAsksInv, ClassifyLoadsInv, ClassifySavesInv DEF Classify
<1>3. ASSUME NEW p \in Clis, Accept(p) PROVE Inv'
  BY <1>3, AcceptListsInv, AcceptNamedInv, AcceptLoadsInv, AcceptDecidesInv,
     AcceptSavesCatalogInv, AcceptSavesProposalsInv DEF Accept
<1>4. ASSUME NEW p \in Clis, Reject(p) PROVE Inv'
  BY <1>4, RejectLoadsInv, RejectSavesInv DEF Reject
<1>5. ASSUME NEW p \in Clis, Set(p) PROVE Inv'
  BY <1>5, SetLoadsInv, SetSavesInv DEF Set
<1>6. ASSUME NEW p \in Clis, Interrupted(p) PROVE Inv'
  BY <1>6, InterruptedInv
<1> QED
  BY <1>1, <1>2, <1>3, <1>4, <1>5, <1>6 DEF Next

(* The invariant holds in every behaviour.                                 *)
THEOREM Invariance == Spec => []Inv
BY InitInv, NextInv, PTL DEF Spec

(* Both files and every copy keep their types.                             *)
THEOREM TypeCorrect == Spec => []TypeOK
BY Invariance, PTL DEF Inv

----------------------------------------------------------------------------
(***************************************************************************)
(* What each step changes.                                                 *)
(***************************************************************************)

(* Only the last step of classify, accept and reject changes proposals.    *)
LEMMA ProposalsChange ==
  ASSUME Inv, Next, proposals' # proposals
  PROVE  \E p \in Clis : /\ ClassifySaves(p) \/ AcceptSavesProposals(p) \/ RejectSaves(p)
                         /\ pc[p] # "idle" /\ pc'[p] = "idle"
<1>1. PICK p \in Clis : Classify(p) \/ Accept(p) \/ Reject(p) \/ Set(p) \/ Interrupted(p)
  BY DEF Next
<1>2. ClassifySaves(p) \/ AcceptSavesProposals(p) \/ RejectSaves(p)
  <2>1. ~Set(p) /\ ~Interrupted(p)
    BY DEF Set, SetLoads, SetSaves, Interrupted, files
  <2>2. CASE Classify(p)
    BY <2>2 DEF Classify, ClassifyReads, ClassifyAsks, ClassifyLoads, files
  <2>3. CASE Accept(p)
    BY <2>3 DEF Accept, AcceptLists, AcceptNamed, AcceptLoads, AcceptDecides,
       AcceptSavesCatalog, files
  <2>4. CASE Reject(p)
    BY <2>4 DEF Reject, RejectLoads, files
  <2> QED
    BY <1>1, <2>1, <2>2, <2>3, <2>4
<1>3. pc[p] # "idle"
  BY <1>2 DEF ClassifySaves, AcceptSavesProposals, RejectSaves
<1>4. Ends(p)
  BY <1>2 DEF ClassifySaves, AcceptSavesProposals, RejectSaves, SavesProposals
<1>5. pc'[p] = "idle"
  BY <1>4 DEF Inv, TypeOK, Ends, GoesTo
<1> QED
  BY <1>2, <1>3, <1>5

(* Only accept, set and unset change verdicts.                             *)
LEMMA VerdictsChange ==
  ASSUME Inv, Next, verdict' # verdict
  PROVE  \E p \in Clis : AcceptSavesCatalog(p) \/ \E v \in Verdicts : SetSaves(p, v)
<1>1. PICK p \in Clis : Classify(p) \/ Accept(p) \/ Reject(p) \/ Set(p) \/ Interrupted(p)
  BY DEF Next
<1>2. ~Classify(p) /\ ~Reject(p) /\ ~Interrupted(p)
  BY DEF Classify, ClassifyReads, ClassifyAsks, ClassifyLoads, ClassifySaves,
     Reject, RejectLoads, RejectSaves, SavesProposals, Interrupted, files
<1>3. CASE Accept(p)
  BY <1>3 DEF Accept, AcceptLists, AcceptNamed, AcceptLoads, AcceptDecides,
     AcceptSavesProposals, SavesProposals, files
<1>4. CASE Set(p)
  BY <1>4 DEF Set, SetLoads, files
<1> QED
  BY <1>1, <1>2, <1>3, <1>4

(* What classify saves, column by column, over a store nobody overtook.    *)
LEMMA ClassifySavesWhat ==
  ASSUME Inv, NEW p \in Clis, ClassifySaves(p), "proposals" \notin stale[p],
         NEW c \in Columns, proposals'[c] # proposals[c]
  PROVE  /\ c \in keys[p]
         /\ proposals'[c] \in Proposal /\ proposals'[c].input = option[p]
         /\ ~(proposals[c].status = "rejected" /\ proposals[c].input = option[p])
<1>1. PICK answer \in [keys[p] -> Answers] : proposals' = Recorded(p, answer)
  BY DEF ClassifySaves, SavesProposals
<1>2. store[p] = proposals
  BY DEF Inv, Fresh, StoreFresh, ClassifySaves, Holding
<1>3. c \in keys[p] /\ ~StaysRejected(p, c)
  BY <1>1, <1>2 DEF Recorded
<1>4. proposals'[c] = [status |-> answer[c], input |-> option[p]]
  BY <1>1, <1>3 DEF Recorded
<1>5. option[p] \in Inputs
  BY DEF Inv, Fresh, OptionsFit, Classifying, ClassifySaves
<1> QED
  BY <1>2, <1>3, <1>4, <1>5 DEF StaysRejected, Proposal, Statuses

(* What accept removes: promoted proposals, never a rejected one.          *)
LEMMA AcceptSavesWhat ==
  ASSUME Inv, NEW p \in Clis, AcceptSavesProposals(p), "proposals" \notin stale[p],
         NEW c \in Columns, proposals'[c] # proposals[c]
  PROVE  /\ c \in Accepted(p) /\ proposals'[c] = None
         /\ proposals[c].status # "rejected"
<1>1. proposals' = [d \in Columns |-> IF d \in Accepted(p) THEN None ELSE store[p][d]]
  BY DEF AcceptSavesProposals, SavesProposals
<1>2. store[p] = proposals
  BY DEF Inv, Fresh, StoreFresh, AcceptSavesProposals, Holding
<1>3. c \in Accepted(p) /\ proposals'[c] = None
  BY <1>1, <1>2
<1> QED
  BY <1>2, <1>3 DEF Accepted, Promotion

(* What reject changes: proposals it turns into rejected ones.             *)
LEMMA RejectSavesWhat ==
  ASSUME Inv, NEW p \in Clis, RejectSaves(p), "proposals" \notin stale[p],
         NEW c \in Columns, proposals'[c] # proposals[c]
  PROVE  /\ proposals'[c].status = "rejected" /\ proposals'[c] # None
         /\ proposals[c].status # "rejected"
<1>1. Rejected(p) # {}
  BY DEF RejectSaves, files
<1>2. proposals' = [d \in Columns |-> IF d \in Rejected(p)
                                     THEN [store[p][d] EXCEPT !.status = "rejected"]
                                     ELSE store[p][d]]
  BY <1>1 DEF RejectSaves, SavesProposals
<1>3. store[p] = proposals
  BY DEF Inv, Fresh, StoreFresh, RejectSaves, Holding
<1>4. c \in Rejected(p) /\ proposals'[c] = [proposals[c] EXCEPT !.status = "rejected"]
  BY <1>2, <1>3
<1>5. proposals[c] \in Proposal
  BY <1>3, <1>4 DEF Rejected, Inv, TypeOK, Store
<1>6. proposals'[c].status = "rejected" /\ proposals[c].status # "rejected"
  BY <1>4, <1>5 DEF Proposal
<1>7. proposals'[c] # None
  BY <1>6 DEF None
<1> QED
  BY <1>6, <1>7

----------------------------------------------------------------------------

(* A rejected proposal changes only when its input has, or by a process    *)
(* that saved over another's save.                                         *)
THEOREM RejectedStaysRejected == Spec => RejectedStays
<1>1. ASSUME Inv, Next, NEW c \in Columns, proposals[c].status = "rejected",
             proposals'[c] # proposals[c], ~\E p \in Clis : Behind(p, {"proposals"})
      PROVE  proposals'[c] # None /\ proposals'[c].input # proposals[c].input
  <2>1. PICK p \in Clis : /\ ClassifySaves(p) \/ AcceptSavesProposals(p) \/ RejectSaves(p)
                         /\ pc[p] # "idle" /\ pc'[p] = "idle"
    BY <1>1, ProposalsChange
  <2>2. "proposals" \notin stale[p]
    BY <1>1, <2>1 DEF Behind, Moves
  <2>3. ClassifySaves(p)
    BY <1>1, <2>1, <2>2, AcceptSavesWhat, RejectSavesWhat
  <2>4. proposals'[c] \in Proposal /\ proposals'[c].input # proposals[c].input
    BY <1>1, <2>2, <2>3, ClassifySavesWhat
  <2>5. proposals'[c] # None
    BY <2>4 DEF Proposal, None, Statuses, Answers
  <2> QED
    BY <2>4, <2>5
<1>2. Inv /\ [Next]_allVars =>
        [\A c \in Columns :
           proposals[c].status = "rejected" /\ proposals'[c] # proposals[c] =>
             \/ proposals'[c] # None /\ proposals'[c].input # proposals[c].input
             \/ \E p \in Clis : Behind(p, {"proposals"})]_allVars
  BY <1>1
<1> QED
  BY <1>2, Invariance, PTL DEF Spec, RejectedStays

(* A proposal leaves the file only when its column has a verdict, or by a  *)
(* process that saved over another's save.                                 *)
THEOREM GoneOnlyDecided == Spec => GoneIsDecided
<1>1. ASSUME Inv, Next, NEW c \in Columns, proposals[c] # None, proposals'[c] = None,
             ~\E p \in Clis : Behind(p, {"proposals", "catalog"})
      PROVE  verdict[c] # "none"
  <2>1. PICK p \in Clis : /\ ClassifySaves(p) \/ AcceptSavesProposals(p) \/ RejectSaves(p)
                         /\ pc[p] # "idle" /\ pc'[p] = "idle"
    BY <1>1, ProposalsChange
  <2>2. "proposals" \notin stale[p] /\ "catalog" \notin stale[p]
    BY <1>1, <2>1 DEF Behind, Moves
  <2>3. ~ClassifySaves(p)
    <3> SUFFICES ASSUME ClassifySaves(p) PROVE FALSE
      OBVIOUS
    <3>1. None \in Proposal
      BY <1>1, <2>2, ClassifySavesWhat
    <3> QED
      BY <3>1 DEF Proposal, None, Statuses, Answers
  <2>4. AcceptSavesProposals(p) /\ c \in Accepted(p)
    BY <1>1, <2>1, <2>2, <2>3, AcceptSavesWhat, RejectSavesWhat
  <2> QED
    BY <1>1, <2>2, <2>4 DEF Inv, Fresh, AcceptedDecided, AcceptSavesProposals
<1>2. Inv /\ [Next]_allVars =>
        [\A c \in Columns :
           proposals[c] # None /\ proposals'[c] = None =>
             \/ verdict[c] # "none"
             \/ \E p \in Clis : Behind(p, {"proposals", "catalog"})]_allVars
  BY <1>1
<1> QED
  BY <1>2, Invariance, PTL DEF Spec, GoneIsDecided

(* A new proposal is for a column without a verdict, or comes from a       *)
(* process that others have overtaken.                                     *)
THEOREM ProposesOnlyUndecided == Spec => ProposesUndecided
<1>1. ASSUME Inv, Next, NEW c \in Columns, proposals'[c] # proposals[c],
             proposals'[c].status \in Answers,
             ~\E p \in Clis : Behind(p, {"proposals", "catalog"})
      PROVE  verdict[c] = "none"
  <2>1. PICK p \in Clis : /\ ClassifySaves(p) \/ AcceptSavesProposals(p) \/ RejectSaves(p)
                         /\ pc[p] # "idle" /\ pc'[p] = "idle"
    BY <1>1, ProposalsChange
  <2>2. "proposals" \notin stale[p] /\ "catalog" \notin stale[p]
    BY <1>1, <2>1 DEF Behind, Moves
  <2>3. None.status \notin Answers /\ "rejected" \notin Answers
    BY DEF None, Answers
  <2>4. ClassifySaves(p)
    BY <1>1, <2>1, <2>2, <2>3, AcceptSavesWhat, RejectSavesWhat
  <2>5. c \in keys[p] /\ pc[p] = "answered"
    BY <1>1, <2>2, <2>4, ClassifySavesWhat DEF ClassifySaves
  <2> QED
    BY <1>1, <2>2, <2>5 DEF Inv, Fresh, KeysUndecided
<1>2. Inv /\ [Next]_allVars =>
        [\A c \in Columns :
           proposals'[c] # proposals[c] /\ proposals'[c].status \in Answers =>
             \/ verdict[c] = "none"
             \/ \E p \in Clis : Behind(p, {"proposals", "catalog"})]_allVars
  BY <1>1
<1> QED
  BY <1>2, Invariance, PTL DEF Spec, ProposesUndecided

(* A command changes the verdicts of its own columns only, and accept      *)
(* --status gives the verdict it asked for, unless overtaken.              *)
THEOREM AcceptedAsListed == Spec => AcceptsAsListed
<1>1. ASSUME Inv, Next, NEW c \in Columns, verdict'[c] # verdict[c]
      PROVE  \E p \in Clis :
               /\ Moves(p)
               /\ \/ stale[p] # {}
                  \/ /\ c \in keys[p]
                     /\ listed[p] # "any" /\ option[p] = "none" => verdict'[c] = listed[p]
  <2>1. PICK p \in Clis : AcceptSavesCatalog(p) \/ \E v \in Verdicts : SetSaves(p, v)
    BY <1>1, VerdictsChange
  <2>2. Moves(p)
    BY <1>1, <2>1 DEF Moves, AcceptSavesCatalog, SetSaves, Ends, GoesTo, Inv, TypeOK
  <2>3. ASSUME stale[p] = {}
        PROVE  /\ c \in keys[p]
               /\ listed[p] # "any" /\ option[p] = "none" => verdict'[c] = listed[p]
    <3>1. CASE AcceptSavesCatalog(p)
      <4>1. verdict' = Promoted(p) /\ pc[p] = "accepted"
        BY <3>1 DEF AcceptSavesCatalog
      <4>2. human[p] = verdict /\ store[p] = proposals
        BY <1>1, <2>3, <4>1 DEF Inv, Fresh, HumanFresh, StoreFresh, Holding
      <4>3. c \in Accepted(p) /\ verdict'[c] = Promotion(store[p][c], option[p])
        BY <1>1, <4>1, <4>2 DEF Promoted
      <4>4. ASSUME listed[p] # "any", option[p] = "none" PROVE verdict'[c] = listed[p]
        <5>1. proposals[c].status = listed[p]
          BY <1>1, <2>3, <4>3, <4>4 DEF Inv, Fresh, KeysAsListed, Accepted
        <5> QED
          BY <4>2, <4>3, <4>4, <5>1 DEF Promotion, Accepted
      <4> QED
        BY <4>3, <4>4 DEF Accepted
    <3>2. CASE \E v \in Verdicts : SetSaves(p, v)
      <4>1. pc[p] = "setting" /\ \A d \in Columns \ keys[p] : verdict'[d] = human[p][d]
        BY <3>2 DEF SetSaves
      <4>2. human[p] = verdict /\ listed[p] = "any"
        BY <1>1, <2>3, <4>1 DEF Inv, Fresh, HumanFresh, OptionsFit, Accepting
      <4> QED
        BY <1>1, <4>1, <4>2
    <3> QED
      BY <2>1, <3>1, <3>2
  <2> QED
    BY <2>2, <2>3
<1>2. Inv /\ [Next]_allVars =>
        [\A c \in Columns : verdict'[c] # verdict[c] =>
           \E p \in Clis :
             /\ Moves(p)
             /\ \/ stale[p] # {}
                \/ /\ c \in keys[p]
                   /\ listed[p] # "any" /\ option[p] = "none" =>
                        verdict'[c] = listed[p]]_allVars
  BY <1>1
<1> QED
  BY <1>2, Invariance, PTL DEF Spec, AcceptsAsListed

=============================================================================
