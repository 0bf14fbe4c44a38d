------------------------------ MODULE MCDbTools ------------------------------
(***************************************************************************)
(* One call on a registry of two targets.  The first takes every mix of an *)
(* environment of each sort (the schema refuses "sandbox"), its label      *)
(* written plainly or not, switches, anonymization and overrides; the      *)
(* second is a plain active target, so that a diagnostic query may be      *)
(* ambiguous.  Calls share nothing that changes, hence one is enough.      *)
(***************************************************************************)
EXTENDS DbTools

CONSTANTS first, second

Anonymizations ==
  {<<FALSE, "off", "none">>, <<TRUE, "deterministic", "none">>,
   <<TRUE, "hybrid", "ollama">>, <<TRUE, "llm-strict", "ollama">>}

RawTargets ==
  {[environment |-> label, status |-> state[1], ready |-> state[2],
    read_enabled |-> r, write_enabled |-> w, allowed_tools |-> tools,
    anonymization_enabled |-> a[1], anonymization_mode |-> a[2], llm_provider |-> a[3]] :
     label \in {Plain("development"), Plain("qa"), Plain("production"), Plain("sandbox"),
               [word |-> "prod", plain |-> FALSE], [word |-> "development", plain |-> FALSE]},
     state \in {<<"active", TRUE>>, <<"active", FALSE>>, <<"disabled", TRUE>>},
     r \in BOOLEAN, w \in BOOLEAN, tools \in {{"db_read"}, Tools}, a \in Anonymizations}

PlainTarget(label) ==
  [environment |-> label, status |-> "active", ready |-> TRUE,
   read_enabled |-> TRUE, write_enabled |-> TRUE, allowed_tools |-> Tools,
   anonymization_enabled |-> FALSE, anonymization_mode |-> "off", llm_provider |-> "none"]

MCFiles ==
  {[t \in TargetIds |-> IF t = first THEN raw ELSE PlainTarget(label)] :
     raw \in RawTargets, label \in {Plain("dev"), Plain("prod")}}

Unset ==
  [read_enabled |-> "unset", write_enabled |-> "unset",
   anonymization_enabled |-> "unset", anonymization_mode |-> "unset",
   llm_provider |-> "unset"]

MCVariables ==
  {[t \in TargetIds |->
      IF t = first
      THEN [read_enabled |-> "unset", write_enabled |-> w,
            anonymization_enabled |-> a, anonymization_mode |-> m,
            llm_provider |-> IF m = "unset" THEN "unset" ELSE p]
      ELSE Unset] :
     w \in Switch, a \in {"unset", "false"}, m \in {"unset", "llm-strict"},
     p \in {"unset", "ollama"}}

=============================================================================
