--------------------------- MODULE TargetRegistry ---------------------------
(***************************************************************************)
(* How a target of the targets file becomes a runtime target               *)
(* (lib/target-registry.js): its environment label is normalized, the      *)
(* TARGET_<ID>_... variables override it, the schema accepts or refuses    *)
(* it, and the production fence takes the right to write from it.          *)
(*                                                                         *)
(* A target is a record of the fields the tools' behaviour depends on.  An *)
(* override is a record of the same switches, "unset" where the variable   *)
(* is absent or empty; one that is not a boolean stops the server and is   *)
(* left out.  An environment label is the word it comes to once blanks and *)
(* capitals are gone, and whether it was written plainly, without any.     *)
(***************************************************************************)

Labels == [word : STRING, plain : BOOLEAN]
Plain(word) == [word |-> word, plain |-> TRUE]

Environments == {Plain(word) : word \in {"dev", "test", "qa", "uat", "staging", "prod"}}
Modes == {"off", "deterministic", "hybrid", "llm-strict"}
Tools == {"db_read", "db_write"}
Switch == {"unset", "true", "false"}

TargetIn(environments) ==
  [environment : environments, status : {"active", "disabled"},
   read_enabled : BOOLEAN, write_enabled : BOOLEAN,
   anonymization_enabled : BOOLEAN, anonymization_mode : Modes,
   llm_provider : {"none", "ollama"}, allowed_tools : SUBSET Tools,
   ready : BOOLEAN]

Target == TargetIn(Environments)

(* What an entry of the file and a target's variables may be.              *)
RawTarget == TargetIn(Labels)
Overrides ==
  [read_enabled : Switch, write_enabled : Switch, anonymization_enabled : Switch,
   anonymization_mode : Modes \cup {"unset"}, llm_provider : {"none", "ollama", "unset"}]

(* normalizeEnvironment: trimmed, in lower case, then the aliases.         *)
NormalizeEnvironment(label) ==
  CASE label.word = "development" -> Plain("dev")
    [] label.word = "production"  -> Plain("prod")
    [] OTHER                      -> Plain(label.word)

(* Mutated form: the label is compared before it is normalized.            *)
IsProductionLabel(target) == target.environment = Plain("production")

IsProductionTarget(target) == NormalizeEnvironment(target.environment) = Plain("prod")

NormalizeRuntimeTarget(raw) ==
  [raw EXCEPT !.environment = NormalizeEnvironment(@)]

(* The value of a switch once an override, if there is one, is applied.    *)
Overridden(value, switch) == IF switch = "unset" THEN value ELSE switch = "true"

(* The same of a value that is not a switch.                               *)
Replaced(value, override) == IF override = "unset" THEN value ELSE override

(* Without anonymization nothing of its configuration remains.             *)
WithoutAnonymizer(target) ==
  IF target.anonymization_enabled THEN target
  ELSE [target EXCEPT !.anonymization_mode = "off", !.llm_provider = "none"]

(* On a production target the overrides that would enable writes or        *)
(* disable anonymization are ignored (with a warning).                     *)
ApplyTargetEnvOverrides(target, env) ==
  LET production == IsProductionTarget(target)
      write      == Overridden(target.write_enabled, env.write_enabled)
      anonymized == Overridden(target.anonymization_enabled, env.anonymization_enabled)
  IN WithoutAnonymizer(
       [target EXCEPT
          !.read_enabled = Overridden(@, env.read_enabled),
          !.write_enabled = IF production /\ env.write_enabled = "true" THEN @ ELSE write,
          !.anonymization_enabled = IF production /\ @ THEN @ ELSE anonymized,
          !.anonymization_mode = Replaced(@, env.anonymization_mode),
          !.llm_provider = Replaced(@, env.llm_provider)])

(* Mutated form: the environment is any string, not one of the list.       *)
SchemaOfAnyEnvironment(target) ==
  /\ ~target.anonymization_enabled =>
       target.anonymization_mode = "off" /\ target.llm_provider = "none"
  /\ target.anonymization_enabled /\ target.llm_provider = "none" =>
       target.anonymization_mode = "deterministic"

(* The schema: an anonymization that asks a provider needs one.            *)
SchemaAccepts(target) ==
  /\ target.environment \in Environments
  /\ ~target.anonymization_enabled =>
       target.anonymization_mode = "off" /\ target.llm_provider = "none"
  /\ target.anonymization_enabled /\ target.llm_provider = "none" =>
       target.anonymization_mode = "deterministic"

ApplyProductionFence(target) ==
  IF IsProductionTarget(target)
  THEN [target EXCEPT !.write_enabled = FALSE, !.allowed_tools = @ \ {"db_write"}]
  ELSE target

(* loadTargetRegistry, for one target: what the schema is given, and what  *)
(* the registry hands out once the schema has accepted it.                 *)
Configured(raw, env) == ApplyTargetEnvOverrides(NormalizeRuntimeTarget(raw), env)
LoadTarget(raw, env) == ApplyProductionFence(Configured(raw, env))

=============================================================================
