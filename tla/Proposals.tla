----------------------------- MODULE Proposals -----------------------------
(***************************************************************************)
(* Schema classification: the proposals file, the human verdicts of the    *)
(* catalog file, and the command line processes that change both           *)
(* (cli/anon-classify.js, cli/anon-catalog.js over                         *)
(* anonymization/classifier.js).                                           *)
(*                                                                         *)
(* Every command loads a file, edits its copy and saves the whole of it by *)
(* rename.  Nothing is locked: the actions below are one load or one save  *)
(* each, and other processes run between them.  classify, moreover, waits  *)
(* for a model between the loads it decides by and the load it saves.      *)
(* A process may be interrupted anywhere; what it has saved remains.       *)
(*                                                                         *)
(* An input is what inputHash digests: a table's columns as one target has *)
(* them, the model and the prompt.  One run of classify has one input.     *)
(* Kinds, notes and reasons are left out: a command with an unknown --kind *)
(* is one that does not name the column.  classify --eval and the listings *)
(* save nothing and are left out.                                          *)
(***************************************************************************)
EXTENDS Naturals

CONSTANTS
  Columns,     (* Classifiable columns.                                     *)
  Inputs,      (* Inputs a column can be classified from.                   *)
  Clis,        (* Command line processes.                                   *)
  MaxCommands  (* Bound: commands started.                                  *)

ASSUME MaxCommandsAssumption == MaxCommands \in Nat

Verdicts == {"none", "safe", "sensitive"}
Answers == {"safe", "sensitive", "review"}   (* proposed-safe, ...           *)
Statuses == Answers \cup {"rejected"}

(* No proposal, or its status and the input it was made from.              *)
None == [status |-> "none"]
Proposal == [status : Statuses, input : Inputs]
Store == [Columns -> Proposal \cup {None}]
Human == [Columns -> Verdicts]

NoStore == [c \in Columns |-> None]
NoHuman == [c \in Columns |-> "none"]

VARIABLES
  verdict,    (* The human verdicts in the catalog file.                    *)
  proposals,  (* The proposals file.                                        *)
  pc,         (* The last thing each process has done, see Holding.         *)
  keys,       (* The columns its command is about.                          *)
  option,     (* --as, for accept; the input, for classify.                 *)
  listed,     (* accept --status: the status, or "any" without it.          *)
  human,      (* Its copy of the verdicts.                                  *)
  store,      (* Its copy of the proposals.                                 *)
  commands    (* How many commands were started.                            *)

files == <<verdict, proposals>>
copies == <<human, store>>
vars == <<files, pc, keys, option, listed, copies, commands>>

(***************************************************************************)
(* A history variable, which no action of the code reads: for each process *)
(* which of the files it holds were saved by another since it read them.   *)
(***************************************************************************)
VARIABLE stale
allVars == <<vars, stale>>

(* What a process has read and still uses: its copy of the catalog, its    *)
(* copy of the proposals, the list of the proposals with a status.         *)
Holding ==
  [idle |-> {},
   human |-> {"catalog"},                (* classify read the verdicts       *)
   asking |-> {"catalog"},               (* ... and the proposals, and asks  *)
   answered |-> {"catalog", "proposals"},(* ... and recordProposals loaded   *)
   listing |-> {"list"},                 (* accept --status listed its keys  *)
   accepting |-> {"list", "proposals"},  (* acceptProposals loaded them      *)
   accepted |-> {"list", "proposals", "catalog"},  (* ... and the catalog    *)
   promoted |-> {"list", "proposals", "catalog"},  (* ... and saved it       *)
   rejecting |-> {"proposals"},          (* reject loaded the proposals      *)
   setting |-> {"catalog"}]              (* set or unset loaded the catalog  *)

Init ==
  /\ verdict = NoHuman
  /\ proposals = NoStore
  /\ pc = [p \in Clis |-> "idle"]
  /\ keys = [p \in Clis |-> {}]
  /\ option = [p \in Clis |-> "none"]
  /\ listed = [p \in Clis |-> "any"]
  /\ human = [p \in Clis |-> NoHuman]
  /\ store = [p \in Clis |-> NoStore]
  /\ commands = 0
  /\ stale = [p \in Clis |-> {}]

----------------------------------------------------------------------------
(***************************************************************************)
(* Steps of a process.                                                     *)
(***************************************************************************)

Starts(p) ==
  /\ pc[p] = "idle"
  /\ commands < MaxCommands
  /\ commands' = commands + 1

GoesTo(p, at) == pc' = [pc EXCEPT ![p] = at]

(* The command is over, or its process was interrupted.                    *)
Ends(p) ==
  /\ GoesTo(p, "idle")
  /\ keys' = [keys EXCEPT ![p] = {}]
  /\ option' = [option EXCEPT ![p] = "none"]
  /\ listed' = [listed EXCEPT ![p] = "any"]
  /\ human' = [human EXCEPT ![p] = NoHuman]
  /\ store' = [store EXCEPT ![p] = NoStore]

(* Process p saved a file: the others that hold it are behind.             *)
Overtakes(p, what, own) ==
  stale' = [q \in Clis |-> IF q = p THEN own ELSE stale[q] \cup (what \cap Holding[pc[q]])]

SavesProposals(p, content) ==
  /\ proposals' = content
  /\ Overtakes(p, {"proposals", "list"}, {})
  /\ Ends(p)
  /\ UNCHANGED <<verdict, commands>>

Interrupted(p) ==
  /\ pc[p] # "idle"
  /\ Ends(p)
  /\ stale' = [stale EXCEPT ![p] = {}]
  /\ UNCHANGED <<files, commands>>

(***************************************************************************)
(* classify                                                                *)
(***************************************************************************)

(* The schema is read from the target, then the verdicts from the catalog. *)
ClassifyReads(p, input) ==
  /\ Starts(p)
  /\ GoesTo(p, "human")
  /\ option' = [option EXCEPT ![p] = input]
  /\ human' = [human EXCEPT ![p] = verdict]
  /\ UNCHANGED <<files, keys, listed, store, stale>>

(* Mutated form: a column with a verdict is classified again.              *)
ToClassifyAll(p, force) ==
  {c \in Columns : force \/ proposals[c] = None \/ proposals[c].input # option[p]}

(* Columns with a verdict are skipped, and unless --force is given columns *)
(* with a proposal, rejected or not, made from the same input.             *)
ToClassify(p, force) ==
  {c \in Columns : /\ human[p][c] = "none"
                   /\ force \/ proposals[c] = None \/ proposals[c].input # option[p]}

ClassifyAsks(p, force) ==
  /\ pc[p] = "human"
  /\ GoesTo(p, "asking")
  /\ keys' = [keys EXCEPT ![p] = ToClassify(p, force)]
  /\ human' = [human EXCEPT ![p] = NoHuman]
  /\ UNCHANGED <<files, option, listed, store, commands, stale>>

(* Rules and model have decided; recordProposals loads the proposals.      *)
ClassifyLoads(p) ==
  /\ pc[p] = "asking"
  /\ GoesTo(p, "answered")
  /\ store' = [store EXCEPT ![p] = proposals]
  /\ UNCHANGED <<files, keys, option, listed, human, commands, stale>>

(* Mutated form: a rejected proposal is replaced like any other.           *)
ReplacedLikeAny(p, c) == FALSE

(* "Rejected proposals with an unchanged input stay rejected."             *)
StaysRejected(p, c) ==
  store[p][c].status = "rejected" /\ store[p][c].input = option[p]

Recorded(p, answer) ==
  [c \in Columns |->
     IF c \notin keys[p] \/ StaysRejected(p, c) THEN store[p][c]
     ELSE [status |-> answer[c], input |-> option[p]]]

ClassifySaves(p) ==
  /\ pc[p] = "answered"
  /\ \E answer \in [keys[p] -> Answers] : SavesProposals(p, Recorded(p, answer))

(***************************************************************************)
(* accept: of the named columns, or of those with a given status.          *)
(***************************************************************************)
AcceptLists(p, status, as) ==
  /\ Starts(p)
  /\ \E c \in Columns : proposals[c].status = status
  /\ GoesTo(p, "listing")
  /\ keys' = [keys EXCEPT ![p] = {c \in Columns : proposals[c].status = status}]
  /\ option' = [option EXCEPT ![p] = as]
  /\ listed' = [listed EXCEPT ![p] = status]
  /\ UNCHANGED <<files, copies, stale>>

(* acceptProposals loads the proposals (again, after AcceptLists).         *)
AcceptLoads(p) ==
  /\ pc[p] = "listing"
  /\ GoesTo(p, "accepting")
  /\ store' = [store EXCEPT ![p] = proposals]
  /\ UNCHANGED <<files, keys, option, listed, human, commands, stale>>

AcceptNamed(p, named, as) ==
  /\ Starts(p)
  /\ GoesTo(p, "accepting")
  /\ keys' = [keys EXCEPT ![p] = named]
  /\ option' = [option EXCEPT ![p] = as]
  /\ store' = [store EXCEPT ![p] = proposals]
  /\ UNCHANGED <<files, listed, human, stale>>

(* Mutated form: a proposal to review is promoted without a choice.        *)
PromotionOfAny(proposal, as) ==
  IF proposal = None \/ proposal.status = "rejected" THEN "none"
  ELSE IF as # "none" THEN as
  ELSE proposal.status

(* The verdict a proposal is promoted to, "none" when it is skipped.       *)
Promotion(proposal, as) ==
  IF proposal = None \/ proposal.status = "rejected" THEN "none"
  ELSE IF as # "none" THEN as
  ELSE IF proposal.status = "review" THEN "none"
  ELSE proposal.status

(* Mutated form: --status selects what is printed, everything is accepted. *)
AcceptedAll(p) == {c \in Columns : Promotion(store[p][c], option[p]) # "none"}

(* What acceptProposals does not skip.                                     *)
Accepted(p) == {c \in keys[p] : Promotion(store[p][c], option[p]) # "none"}

(* It loads the catalog, and stops when there is nothing to accept.        *)
AcceptDecides(p) ==
  /\ pc[p] = "accepting"
  /\ \/ /\ Accepted(p) # {}
        /\ GoesTo(p, "accepted")
        /\ human' = [human EXCEPT ![p] = verdict]
        /\ UNCHANGED <<keys, option, listed, store, stale>>
     \/ /\ Accepted(p) = {}
        /\ Ends(p)
        /\ stale' = [stale EXCEPT ![p] = {}]
  /\ UNCHANGED <<files, commands>>

Promoted(p) ==
  [c \in Columns |-> IF c \in Accepted(p) THEN Promotion(store[p][c], option[p])
                     ELSE human[p][c]]

(* Mutated form: the proposals first, then the catalog.                    *)
AcceptSavesProposalsFirst(p) ==
  /\ pc[p] = "accepted"
  /\ GoesTo(p, "promoted")
  /\ proposals' = [c \in Columns |-> IF c \in Accepted(p) THEN None ELSE store[p][c]]
  /\ Overtakes(p, {"proposals", "list"}, stale[p])
  /\ UNCHANGED <<verdict, keys, option, listed, copies, commands>>

(* First the catalog is saved ...                                          *)
AcceptSavesCatalog(p) ==
  /\ pc[p] = "accepted"
  /\ GoesTo(p, "promoted")
  /\ verdict' = Promoted(p)
  /\ Overtakes(p, {"catalog"}, stale[p])
  /\ UNCHANGED <<proposals, keys, option, listed, copies, commands>>

(* ... then the proposals, without the accepted ones.                      *)
AcceptSavesProposals(p) ==
  /\ pc[p] = "promoted"
  /\ SavesProposals(p, [c \in Columns |-> IF c \in Accepted(p) THEN None ELSE store[p][c]])

(***************************************************************************)
(* reject                                                                  *)
(***************************************************************************)
RejectLoads(p, named) ==
  /\ Starts(p)
  /\ GoesTo(p, "rejecting")
  /\ keys' = [keys EXCEPT ![p] = named]
  /\ store' = [store EXCEPT ![p] = proposals]
  /\ UNCHANGED <<files, option, listed, human, stale>>

Rejected(p) == {c \in keys[p] : store[p][c] # None}

RejectSaves(p) ==
  /\ pc[p] = "rejecting"
  /\ IF Rejected(p) # {}
     THEN SavesProposals(p, [c \in Columns |-> IF c \in Rejected(p)
                                               THEN [store[p][c] EXCEPT !.status = "rejected"]
                                               ELSE store[p][c]])
     ELSE /\ Ends(p)
          /\ stale' = [stale EXCEPT ![p] = {}]
          /\ UNCHANGED <<files, commands>>

(***************************************************************************)
(* set and unset                                                           *)
(***************************************************************************)
SetLoads(p, c) ==
  /\ Starts(p)
  /\ GoesTo(p, "setting")
  /\ keys' = [keys EXCEPT ![p] = {c}]
  /\ human' = [human EXCEPT ![p] = verdict]
  /\ UNCHANGED <<files, option, listed, store, stale>>

(* unset refuses a column that has no verdict, and then the process ends   *)
(* as if interrupted.                                                      *)
SetSaves(p, v) ==
  /\ pc[p] = "setting"
  /\ v = "none" => \A c \in keys[p] : human[p][c] # "none"
  /\ verdict' = [c \in Columns |-> IF c \in keys[p] THEN v ELSE human[p][c]]
  /\ Overtakes(p, {"catalog"}, {})
  /\ Ends(p)
  /\ UNCHANGED <<proposals, commands>>

----------------------------------------------------------------------------

Classify(p) ==
  \/ \E input \in Inputs : ClassifyReads(p, input)
  \/ \E force \in BOOLEAN : ClassifyAsks(p, force)
  \/ ClassifyLoads(p) \/ ClassifySaves(p)

As == {"none", "safe", "sensitive"}
Named == (SUBSET Columns) \ {{}}

Accept(p) ==
  \/ \E status \in {"safe", "sensitive"}, as \in As : AcceptLists(p, status, as)
  \/ \E named \in Named, as \in As : AcceptNamed(p, named, as)
  \/ AcceptLoads(p) \/ AcceptDecides(p)
  \/ AcceptSavesCatalog(p) \/ AcceptSavesProposals(p)

Reject(p) == (\E named \in Named : RejectLoads(p, named)) \/ RejectSaves(p)

Set(p) ==
  \/ \E c \in Columns : SetLoads(p, c)
  \/ \E v \in Verdicts : SetSaves(p, v)

Next == \E p \in Clis : Classify(p) \/ Accept(p) \/ Reject(p) \/ Set(p) \/ Interrupted(p)

Spec == Init /\ [][Next]_allVars

----------------------------------------------------------------------------

TypeOK ==
  /\ verdict \in Human
  /\ proposals \in Store
  /\ pc \in [Clis -> DOMAIN Holding]
  /\ keys \in [Clis -> SUBSET Columns]
  /\ option \in [Clis -> As \cup Inputs]
  /\ listed \in [Clis -> {"any", "safe", "sensitive"}]
  /\ human \in [Clis -> Human]
  /\ store \in [Clis -> Store]
  /\ commands \in 0 .. MaxCommands
  /\ stale \in [Clis -> SUBSET {"catalog", "proposals", "list"}]
  /\ \A p \in Clis : stale[p] \subseteq Holding[pc[p]]

Moves(p) == pc'[p] # pc[p]
Behind(p, held) == Moves(p) /\ stale[p] \cap held # {}

(* "A rejected proposal is not proposed again until its input changes",    *)
(* unless the process that does so saved over another's save.              *)
RejectedStays ==
  [][\A c \in Columns :
       proposals[c].status = "rejected" /\ proposals'[c] # proposals[c] =>
         \/ proposals'[c] # None /\ proposals'[c].input # proposals[c].input
         \/ \E p \in Clis : Behind(p, {"proposals"})]_allVars

(* A proposal leaves the file only once the catalog has a verdict for its  *)
(* column: an accept interrupted between its two saves can be repeated.    *)
GoneIsDecided ==
  [][\A c \in Columns :
       proposals[c] # None /\ proposals'[c] = None =>
         \/ verdict[c] # "none"
         \/ \E p \in Clis : Behind(p, {"proposals", "catalog"})]_allVars

(* classify makes proposals for columns that had no verdict when it read   *)
(* the catalog, and have none now unless the catalog was saved since.      *)
ProposesUndecided ==
  [][\A c \in Columns :
       proposals'[c] # proposals[c] /\ proposals'[c].status \in Answers =>
         \/ verdict[c] = "none"
         \/ \E p \in Clis : Behind(p, {"proposals", "catalog"})]_allVars

(* A command changes the verdict of no column but its own, and accept      *)
(* --status gives no other verdict than that status, unless another        *)
(* process saved what the command goes by.                                 *)
AcceptsAsListed ==
  [][\A c \in Columns : verdict'[c] # verdict[c] =>
       \E p \in Clis :
         /\ Moves(p)
         /\ \/ stale[p] # {}
            \/ /\ c \in keys[p]
               /\ listed[p] # "any" /\ option[p] = "none" => verdict'[c] = listed[p]]_allVars

=============================================================================
