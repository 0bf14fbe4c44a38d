------------------------------- MODULE DbTools -------------------------------
(***************************************************************************)
(* The tools that reach a database: db_read, db_write and                  *)
(* run_diagnostic_query of lib/handlers.js, with the policy engine and the *)
(* error sanitizer they call.                                              *)
(*                                                                         *)
(* A call is checked against the target and the statement, awaits the      *)
(* driver, then awaits the anonymizer where the policy requires it, and    *)
(* any error thrown on the way becomes its answer.  Calls share only the   *)
(* registry, which no call changes.  The statement guard is abstracted to  *)
(* the kind of the statement, rows to whether they are masked, and an      *)
(* error's text to what it quotes of the data.                             *)
(***************************************************************************)
EXTENDS TargetRegistry, FiniteSets

CONSTANTS
  TargetIds,   (* The target_ids of the registry.                           *)
  Calls,       (* Tool calls.                                               *)
  Files,       (* The targets files to consider: id -> raw target.          *)
  Variables,   (* The environments to consider: id -> overrides.            *)
  NoTarget     (* A target_id that is not in the registry, or none.         *)

ASSUME TargetIdsAssumption == IsFiniteSet(TargetIds)
ASSUME NoTargetAssumption == NoTarget \notin TargetIds
ASSUME FilesAssumption == Files \subseteq [TargetIds -> RawTarget]
ASSUME VariablesAssumption == Variables \subseteq [TargetIds -> Overrides]

VARIABLES
  file,      (* The targets file the server was started with.               *)
  env,       (* The TARGET_<ID>_... variables.                              *)
  failOpen,  (* ANON_FAIL_OPEN.                                             *)
  registry,  (* The runtime targets.                                        *)
  pc,        (* Where each call is: idle, driver, anonymizer, answered.     *)
  call,      (* What was called: the tool, the target and the statement.    *)
  fetched,   (* Whether the driver returned rows to a call.                 *)
  answer,    (* What the client is told.                                    *)
  effect,    (* Calls whose statement changed the database.                 *)
  verified   (* History: calls whose rows a provider classified.            *)

config == <<file, env, failOpen, registry>>
vars == <<config, pc, call, fetched, answer, effect, verified>>

(* A statement as the guards of db_read and db_write see it.               *)
Statements == {"read", "write", "other"}

(***************************************************************************)
(* The text of an error: "plain" holds nothing of the data (no SQL Server  *)
(* error, one of compile time, or one that quotes no value); the others    *)
(* quote a value as it is between apostrophes, and "apostrophe" one that   *)
(* has an apostrophe itself (or, of a duplicate key, a parenthesis).  Of   *)
(* the two sanitizeSqlErrorMessage leaves "scrubbed", without the value,   *)
(* and "rest", what follows the apostrophe.                                *)
(***************************************************************************)
Quoting == {"value", "apostrophe"}
Texts == {"none", "plain", "scrubbed", "rest"} \cup Quoting
Answer(code, rows, text) == [code |-> code, rows |-> rows, text |-> text]
NoAnswer == Answer("none", "none", "none")

(* named: the client gave the target_id, not only an environment.          *)
Call(tool, t, named, sql) == [tool |-> tool, target |-> t, named |-> named, sql |-> sql]
Refusals == {"target_not_found", "policy_denied", "invalid_sql"}

Init ==
  /\ file \in Files
  /\ env \in Variables
  /\ failOpen \in BOOLEAN
  /\ \A t \in TargetIds : SchemaAccepts(Configured(file[t], env[t]))
  /\ registry = [t \in TargetIds |-> LoadTarget(file[t], env[t])]
  /\ pc = [c \in Calls |-> "idle"]
  /\ call = [c \in Calls |-> Call("none", NoTarget, FALSE, "other")]
  /\ fetched = [c \in Calls |-> FALSE]
  /\ answer = [c \in Calls |-> NoAnswer]
  /\ effect = {}
  /\ verified = {}

----------------------------------------------------------------------------
(***************************************************************************)
(* evaluateToolPolicy, and the checks a tool makes before the driver.      *)
(***************************************************************************)

PolicyAllows(tool, target) ==
  /\ target.status = "active"
  /\ ~(tool = "db_write" /\ IsProductionTarget(target))
  /\ tool \in target.allowed_tools
  /\ tool = "db_read" => target.read_enabled
  /\ tool = "db_write" => target.write_enabled

AnonymizationRequired(target) == target.anonymization_enabled

GuardAccepts(tool, sql) == sql = IF tool = "db_read" THEN "read" ELSE "write"

(* sanitizeSqlErrorMessage: a quoted fragment ends at the next apostrophe. *)
Sanitized(text) ==
  CASE text = "value"      -> "scrubbed"
    [] text = "apostrophe" -> "rest"
    [] OTHER               -> text

(* The catch of the two tools: db_read scrubs the error of an anonymized   *)
(* target, db_write reports it as it is.                                   *)
Failure(tool, target, text) ==
  IF tool = "db_read"
  THEN Answer("db_read_failed", "none",
              IF AnonymizationRequired(target) THEN Sanitized(text) ELSE text)
  ELSE Answer("db_write_failed", "none", text)

(* The tool a call runs: run_diagnostic_query calls db_read.               *)
ToolOf(c) == IF call[c].tool = "db_write" THEN "db_write" ELSE "db_read"

(* Either the call is refused at once, or it awaits the driver.            *)
Begin(c, tool, t, named, sql) ==
  /\ call' = [call EXCEPT ![c] = Call(tool, t, named, sql)]
  /\ UNCHANGED <<config, fetched, effect, verified>>
  /\ LET name == IF tool = "db_write" THEN "db_write" ELSE "db_read"
         Refuse(code) ==
           /\ pc' = [pc EXCEPT ![c] = "answered"]
           /\ answer' = [answer EXCEPT ![c] = Answer(code, "none", "plain")]
     IN IF t = NoTarget THEN Refuse("target_not_found")
        ELSE IF ~PolicyAllows(name, registry[t]) THEN Refuse("policy_denied")
        ELSE IF ~GuardAccepts(name, sql) THEN Refuse("invalid_sql")
        ELSE IF ~registry[t].ready
        THEN /\ pc' = [pc EXCEPT ![c] = "answered"]
             /\ answer' = [answer EXCEPT ![c] = Failure(name, registry[t], "plain")]
        ELSE pc' = [pc EXCEPT ![c] = "driver"] /\ UNCHANGED answer

CallTool(c) ==
  /\ pc[c] = "idle"
  /\ \E tool \in Tools, t \in TargetIds \cup {NoTarget}, sql \in Statements :
       Begin(c, tool, t, TRUE, sql)

(***************************************************************************)
(* run_diagnostic_query: resolveDiagnosticTarget, then db_read.            *)
(***************************************************************************)

(* Mutated form: of several active targets the first is taken.             *)
ResolveFirst(environment, explicit) ==
  LET active == {t \in TargetIds : registry[t].status = "active"}
      named  == {t \in active : registry[t].environment = Plain(environment)}
  IN IF explicit # NoTarget THEN named \cap {explicit}
     ELSE IF named # {} THEN {CHOOSE t \in named : TRUE} ELSE {}

(* The target a diagnostic query runs on: none, or one.                    *)
ResolveDiagnosticTarget(environment, explicit) ==
  LET active == {t \in TargetIds : registry[t].status = "active"}
      named  == {t \in active : registry[t].environment = Plain(environment)}
  IN IF explicit # NoTarget THEN named \cap {explicit}
     ELSE IF Cardinality(named) = 1 THEN named ELSE {}

CallDiagnostic(c) ==
  /\ pc[c] = "idle"
  /\ \E environment \in {"dev", "prod"}, explicit \in TargetIds \cup {NoTarget},
        sql \in Statements :
       LET found == ResolveDiagnosticTarget(environment, explicit)
           named == explicit # NoTarget
       IN \/ /\ found = {}
             /\ call' = [call EXCEPT ![c] = Call(environment, NoTarget, named, sql)]
             /\ pc' = [pc EXCEPT ![c] = "answered"]
             /\ answer' = [answer EXCEPT ![c] = Answer("blocked", "none", "plain")]
             /\ UNCHANGED <<config, fetched, effect, verified>>
          \/ \E t \in found : Begin(c, environment, t, named, sql)

(***************************************************************************)
(* The await of the driver.                                                *)
(***************************************************************************)

(* A SELECT returned rows, or a write took effect and its OUTPUT did.  An  *)
(* empty result of db_write skips the anonymizer; an empty one of db_read  *)
(* does not.                                                               *)
DriverReturns(c) ==
  /\ pc[c] = "driver"
  /\ \E rows \in BOOLEAN :
       LET required == AnonymizationRequired(registry[call[c].target])
                         /\ (ToolOf(c) = "db_read" \/ rows)
       IN /\ fetched' = [fetched EXCEPT ![c] = rows]
          /\ IF required
             THEN pc' = [pc EXCEPT ![c] = "anonymizer"] /\ UNCHANGED answer
             ELSE /\ pc' = [pc EXCEPT ![c] = "answered"]
                  /\ answer' = [answer EXCEPT
                       ![c] = Answer("ok", IF rows THEN "raw" ELSE "none", "none")]
  /\ effect' = IF ToolOf(c) = "db_write" THEN effect \cup {c} ELSE effect
  /\ UNCHANGED <<config, call, verified>>

(* The driver throws.  A write that timed out may have taken effect.       *)
DriverThrows(c) ==
  /\ pc[c] = "driver"
  /\ \E text \in {"plain"} \cup Quoting :
       answer' = [answer EXCEPT ![c] = Failure(ToolOf(c), registry[call[c].target], text)]
  /\ pc' = [pc EXCEPT ![c] = "answered"]
  /\ effect' \in {effect} \cup (IF ToolOf(c) = "db_write" THEN {effect \cup {c}} ELSE {})
  /\ UNCHANGED <<config, call, fetched, verified>>

(***************************************************************************)
(* The await of anonymizeQueryResult.                                      *)
(***************************************************************************)

(* Mutated form: ANON_FAIL_OPEN holds for every environment.               *)
FailOpenEverywhere(target) == failOpen

(* resolveFailOpen: only for known non-production environments.            *)
ResolveFailOpen(target) ==
  failOpen /\ target.environment.word \in {"dev", "test", "staging"}

(* anonymizeRows asks the provider about rows, unless deterministic; when  *)
(* it fails, strict mode refuses the rows and the others mask by rules.    *)
AnonymizerReturns(c) ==
  LET target == registry[call[c].target]
      strict == target.anonymization_mode = "llm-strict"
      asks   == fetched[c] /\ target.anonymization_mode # "deterministic"
  IN /\ pc[c] = "anonymizer"
     /\ pc' = [pc EXCEPT ![c] = "answered"]
     /\ \/ /\ asks
           /\ verified' = verified \cup {c}
           /\ answer' = [answer EXCEPT ![c] = Answer("ok", "masked", "none")]
        \/ /\ ~asks \/ ~strict \/ ResolveFailOpen(target)
           /\ answer' = [answer EXCEPT
                ![c] = Answer("ok", IF fetched[c] THEN "masked" ELSE "none", "none")]
           /\ UNCHANGED verified
        \/ /\ asks /\ strict /\ ~ResolveFailOpen(target)
           /\ answer' = [answer EXCEPT ![c] = Failure(ToolOf(c), target, "plain")]
           /\ UNCHANGED verified
     /\ UNCHANGED <<config, call, fetched, effect>>

----------------------------------------------------------------------------

Next ==
  \E c \in Calls :
    \/ CallTool(c) \/ CallDiagnostic(c)
    \/ DriverReturns(c) \/ DriverThrows(c)
    \/ AnonymizerReturns(c)

Spec == Init /\ [][Next]_vars

----------------------------------------------------------------------------

TypeOK ==
  /\ registry \in [TargetIds -> Target]
  /\ pc \in [Calls -> {"idle", "driver", "anonymizer", "answered"}]
  /\ call \in [Calls -> [tool : Tools \cup {"dev", "prod", "none"},
                         target : TargetIds \cup {NoTarget}, named : BOOLEAN,
                         sql : Statements]]
  /\ answer \in [Calls -> [code : Refusals \cup
                             {"none", "ok", "blocked", "db_read_failed", "db_write_failed"},
                           rows : {"none", "raw", "masked"},
                           text : Texts]]
  /\ fetched \in [Calls -> BOOLEAN]
  /\ effect \in SUBSET Calls
  /\ verified \in SUBSET Calls

(* What the operator wrote in the targets file for the target of a call.   *)
Written(c) == file[call[c].target]
Production(c) ==
  call[c].target # NoTarget /\ Written(c).environment.word \in {"prod", "production"}

(* The answer gives data as it stands in the database: in its rows, or in  *)
(* a whole value that its error quotes.                                    *)
Bare(c) == answer[c].rows = "raw" \/ answer[c].text \in Quoting

(* Whatever label the file gives production and whatever the environment   *)
(* variables say, no statement of db_write changes a production database,  *)
(* and its data leaves bare, in rows or in the error of a failed           *)
(* statement, only if its own entry in the file disables anonymization     *)
(* (README, "Production fence"; docs/ANONYMIZATION.md on errors).  That    *)
(* db_write reports errors unscrubbed is thus no matter here; "rest",      *)
(* which the sanitizer leaves of a value with an apostrophe, is excepted.  *)
ProductionIsFenced ==
  \A c \in Calls :
    Production(c) =>
      /\ c \notin effect
      /\ Bare(c) => ~Written(c).anonymization_enabled

(* In llm-strict mode rows a provider did not classify are not returned,   *)
(* unless failing open was asked for, and never so in production nor in an *)
(* environment not known to be a development one.                          *)
StrictFailsClosed ==
  \A c \in Calls :
    /\ answer[c].rows = "masked"
    /\ c \notin verified
    /\ registry[call[c].target].anonymization_mode = "llm-strict"
    => /\ failOpen
       /\ Written(c).environment.word \in {"dev", "development", "test", "staging"}

(* The active entries that the file puts in an environment, by whatever    *)
(* label.                                                                  *)
Spellings(environment) ==
  IF environment = "dev" THEN {"dev", "development"} ELSE {"prod", "production"}

Candidates(environment) ==
  {t \in TargetIds : /\ file[t].status = "active"
                     /\ file[t].environment.word \in Spellings(environment)}

(* A diagnostic query that names no target runs on the one active target   *)
(* the file has in that environment, however the entries spell it, and on  *)
(* none where it has several; one that names a target runs on an active    *)
(* one of that environment ("to resolve to exactly one active target_id",  *)
(* lib/tools.js).                                                          *)
DiagnosticsAreUnambiguous ==
  \A c \in Calls :
    call[c].tool \in {"dev", "prod"} /\ call[c].target # NoTarget =>
      /\ call[c].target \in Candidates(call[c].tool)
      /\ ~call[c].named => Candidates(call[c].tool) = {call[c].target}

=============================================================================
