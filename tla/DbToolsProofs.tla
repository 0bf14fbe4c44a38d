---------------------------- MODULE DbToolsProofs ----------------------------
(***************************************************************************)
(* Proofs about DbTools, for any registry, targets file, environment and   *)
(* calls: what the tools promise of production targets, of strict targets  *)
(* and of diagnostic queries.                                              *)
(***************************************************************************)
EXTENDS DbTools, FiniteSetTheorems, TLAPS

(* How a target's entry in the file bounds the target the tools see.       *)
Respects(target, raw) ==
  /\ target \in Target
  /\ target.status = raw.status
  /\ NormalizeEnvironment(raw.environment) = target.environment
  /\ target.environment = Plain("prod") =>
       /\ ~target.write_enabled
       /\ raw.anonymization_enabled => target.anonymization_enabled

(* Clearing the anonymizer's configuration keeps a target a target.        *)
LEMMA WithoutAnonymizerKeeps ==
  ASSUME NEW environments, NEW target \in TargetIn(environments)
  PROVE  /\ WithoutAnonymizer(target) \in TargetIn(environments)
         /\ WithoutAnonymizer(target).anonymization_enabled = target.anonymization_enabled
         /\ WithoutAnonymizer(target).status = target.status
<1>1. CASE target.anonymization_enabled
  BY <1>1 DEF WithoutAnonymizer
<1>2. CASE ~target.anonymization_enabled
  <2> DEFINE cleared == [target EXCEPT !.anonymization_mode = "off", !.llm_provider = "none"]
  <2>1. cleared \in TargetIn(environments)
    BY DEF TargetIn, Modes
  <2>2. /\ cleared.anonymization_enabled = target.anonymization_enabled
        /\ cleared.status = target.status
    BY DEF TargetIn
  <2> QED
    BY <1>2, <2>1, <2>2 DEF WithoutAnonymizer
<1> QED
  BY <1>1, <1>2

(* Whatever the variables say, a target that the schema accepts respects   *)
(* its entry: applyTargetEnvOverrides and the production fence.            *)
LEMMA LoadedRespectsEntry ==
  ASSUME NEW raw \in RawTarget, NEW o \in Overrides, SchemaAccepts(Configured(raw, o))
  PROVE  Respects(LoadTarget(raw, o), raw)
<1> DEFINE label == NormalizeEnvironment(raw.environment)
           configured == Configured(raw, o)
<1>1. NormalizeEnvironment(label) = label
  BY DEF NormalizeEnvironment, Plain
<1>2. /\ configured \in TargetIn({label})
      /\ configured.status = raw.status
      /\ label = Plain("prod") /\ raw.anonymization_enabled => configured.anonymization_enabled
  <2> DEFINE normal == NormalizeRuntimeTarget(raw)
             production == IsProductionTarget(normal)
             read       == Overridden(normal.read_enabled, o.read_enabled)
             write      == IF production /\ o.write_enabled = "true" THEN normal.write_enabled
                           ELSE Overridden(normal.write_enabled, o.write_enabled)
             anonymized == IF production /\ normal.anonymization_enabled
                           THEN normal.anonymization_enabled
                           ELSE Overridden(normal.anonymization_enabled, o.anonymization_enabled)
             mode       == Replaced(normal.anonymization_mode, o.anonymization_mode)
             provider   == Replaced(normal.llm_provider, o.llm_provider)
             overridden ==
               [normal EXCEPT
                  !.read_enabled = read, !.write_enabled = write,
                  !.anonymization_enabled = anonymized,
                  !.anonymization_mode = mode, !.llm_provider = provider]
  <2>1. /\ normal \in TargetIn({label}) /\ normal.status = raw.status
        /\ normal.anonymization_enabled = raw.anonymization_enabled
    BY DEF NormalizeRuntimeTarget, RawTarget, TargetIn
  <2>2. production <=> label = Plain("prod")
    BY <2>1, <1>1 DEF IsProductionTarget, TargetIn
  <2>3. configured = WithoutAnonymizer(overridden)
    BY DEF Configured, ApplyTargetEnvOverrides
  <2>4. \A value \in BOOLEAN, switch \in Switch : Overridden(value, switch) \in BOOLEAN
    BY DEF Overridden, Switch
  <2> HIDE DEF normal, production
  <2>5. /\ read \in BOOLEAN /\ write \in BOOLEAN /\ anonymized \in BOOLEAN
        /\ production /\ normal.anonymization_enabled => anonymized
    BY <2>1, <2>4 DEF TargetIn, Overrides
  <2>6. mode \in Modes /\ provider \in {"none", "ollama"}
    BY <2>1 DEF Replaced, Overrides, TargetIn
  <2> HIDE DEF read, write, anonymized, mode, provider
  <2>7. /\ overridden \in TargetIn({label}) /\ overridden.status = normal.status
        /\ overridden.anonymization_enabled = anonymized
    BY <2>1, <2>5, <2>6 DEF TargetIn
  <2> HIDE DEF overridden
  <2>8. /\ WithoutAnonymizer(overridden) \in TargetIn({label})
        /\ WithoutAnonymizer(overridden).anonymization_enabled = overridden.anonymization_enabled
        /\ WithoutAnonymizer(overridden).status = overridden.status
    BY <2>7, WithoutAnonymizerKeeps
  <2> QED
    BY <2>1, <2>2, <2>3, <2>5, <2>7, <2>8
<1>3. configured \in Target /\ configured.environment = label
  BY <1>2 DEF SchemaAccepts, Target, TargetIn
<1>4. IsProductionTarget(configured) <=> label = Plain("prod")
  BY <1>1, <1>3 DEF IsProductionTarget
<1> HIDE DEF configured
<1>5. ApplyProductionFence(configured) \in Target
  BY <1>3 DEF ApplyProductionFence, Target, TargetIn
<1>6. /\ ApplyProductionFence(configured).environment = label
      /\ ApplyProductionFence(configured).anonymization_enabled = configured.anonymization_enabled
      /\ ApplyProductionFence(configured).status = configured.status
      /\ label = Plain("prod") => ~ApplyProductionFence(configured).write_enabled
  BY <1>3, <1>4 DEF ApplyProductionFence, Target, TargetIn
<1>7. LoadTarget(raw, o) = ApplyProductionFence(configured)
  BY DEF LoadTarget, configured
<1> QED
  BY <1>2, <1>5, <1>6, <1>7 DEF Respects

----------------------------------------------------------------------------

(* The registry respects the file, and no call changes either.             *)
Loaded ==
  /\ file \in [TargetIds -> RawTarget]
  /\ failOpen \in BOOLEAN
  /\ \A t \in TargetIds : Respects(registry[t], file[t])

(* A call that has not been made has no effect and no answer; one that     *)
(* awaits the driver or the anonymizer was allowed on a target.            *)
Admitted(c) ==
  /\ pc[c] \in {"idle", "driver"} => c \notin effect
  /\ pc[c] \in {"idle", "driver", "anonymizer"} => answer[c] = NoAnswer
  /\ pc[c] \in {"driver", "anonymizer"} =>
       /\ call[c].target \in TargetIds
       /\ PolicyAllows(ToolOf(c), registry[call[c].target])

(* The properties, of one call.                                            *)
Fenced(c) ==
  Production(c) =>
    /\ c \notin effect
    /\ Bare(c) => ~Written(c).anonymization_enabled

Closed(c) ==
  /\ answer[c].rows = "masked"
  /\ c \notin verified
  /\ registry[call[c].target].anonymization_mode = "llm-strict"
  => /\ failOpen
     /\ Written(c).environment.word \in {"dev", "development", "test", "staging"}

Unambiguous(c) ==
  call[c].tool \in {"dev", "prod"} /\ call[c].target # NoTarget =>
    /\ call[c].target \in Candidates(call[c].tool)
    /\ ~call[c].named => Candidates(call[c].tool) = {call[c].target}

CallInv(c) == Admitted(c) /\ Fenced(c) /\ Closed(c) /\ Unambiguous(c)

(***************************************************************************)
(* The inductive invariant.  That a production target has no effects is    *)
(* not inductive: it needs what the policy allowed the call that awaits    *)
(* the driver, and that the fence took the right to write from the target. *)
(***************************************************************************)
Inv == TypeOK /\ Loaded /\ \A c \in Calls : CallInv(c)

(* A production entry of the file is a production target: it takes no      *)
(* write, and is anonymized if its entry is.                               *)
LEMMA ProductionTargets ==
  ASSUME Inv, NEW c \in Calls, Production(c)
  PROVE  /\ call[c].target \in TargetIds
         /\ ~PolicyAllows("db_write", registry[call[c].target])
         /\ Written(c).anonymization_enabled => registry[call[c].target].anonymization_enabled
<1>1. call[c].target \in TargetIds
  BY DEF Inv, TypeOK, Production
<1>2. registry[call[c].target].environment = Plain("prod")
  BY <1>1 DEF Inv, Loaded, Respects, Production, Written, NormalizeEnvironment
<1> QED
  BY <1>1, <1>2 DEF Inv, Loaded, Respects, Written, PolicyAllows

(* The server starts with a registry that respects the file.               *)
LEMMA Initially == Init => Inv
<1> SUFFICES ASSUME Init PROVE Inv
  OBVIOUS
<1>1. file \in [TargetIds -> RawTarget] /\ env \in [TargetIds -> Overrides]
  BY FilesAssumption, VariablesAssumption DEF Init
<1>2. \A t \in TargetIds : Respects(registry[t], file[t])
  BY <1>1, LoadedRespectsEntry DEF Init
<1>3. registry \in [TargetIds -> Target]
  BY <1>2 DEF Init, Respects
<1>4. TypeOK
  BY <1>3 DEF Init, TypeOK, NoAnswer, Answer, Statements, Refusals, Texts, Call
<1>5. \A c \in Calls : CallInv(c)
  BY DEF Init, CallInv, Admitted, Fenced, Closed, Unambiguous, Candidates, Production,
     NoAnswer, Answer, Call, Bare, Quoting
<1> QED
  BY <1>1, <1>2, <1>4, <1>5 DEF Init, Inv, Loaded

(* The registry is constant.                                               *)
LEMMA ConfigKeeps ==
  ASSUME Inv, UNCHANGED config
  PROVE  Loaded' /\ registry' = registry /\ registry' \in [TargetIds -> Target]
  BY DEF Inv, TypeOK, Loaded, config

(* What a client may be told.                                              *)
Answers ==
  [code : Refusals \cup {"none", "ok", "blocked", "db_read_failed", "db_write_failed"},
   rows : {"none", "raw", "masked"}, text : Texts]

(* A failure never has rows, and quotes no whole value of an anonymized    *)
(* target, unless it is db_write's.                                        *)
LEMMA FailuresAreAnswers ==
  ASSUME NEW tool, NEW target, NEW text \in {"plain"} \cup Quoting
  PROVE  /\ Failure(tool, target, text) \in Answers
         /\ Failure(tool, target, text).rows = "none"
         /\ text = "plain" \/ (tool = "db_read" /\ AnonymizationRequired(target)) =>
              Failure(tool, target, text).text \notin Quoting
  BY DEF Failure, Sanitized, Answer, Answers, Texts, Quoting

(* A step of one call keeps the invariant of every other.                  *)
LEMMA OneCallSteps ==
  ASSUME Inv, UNCHANGED config, NEW c \in Calls, TypeOK', CallInv(c)',
         \A d \in Calls \ {c} :
           /\ pc'[d] = pc[d] /\ call'[d] = call[d] /\ answer'[d] = answer[d]
           /\ d \in effect' <=> d \in effect
           /\ d \in verified' <=> d \in verified
  PROVE  Inv'
<1>1. ASSUME NEW d \in Calls, d # c PROVE CallInv(d)'
  BY <1>1 DEF Inv, CallInv, config, Admitted, Fenced, Bare, Closed, Unambiguous, Candidates, Production,
     Written, ToolOf, PolicyAllows
<1> QED
  BY <1>1, ConfigKeeps DEF Inv

(* The file and the registry agree on the active targets of an environment *)
LEMMA CandidatesAreActive ==
  ASSUME Inv, NEW environment \in {"dev", "prod"}
  PROVE  Candidates(environment) =
           {t \in TargetIds : /\ registry[t].status = "active"
                              /\ registry[t].environment = Plain(environment)}
<1>1. ASSUME NEW label \in Labels
      PROVE  NormalizeEnvironment(label) = Plain(environment)
               <=> label.word \in Spellings(environment)
  BY <1>1 DEF NormalizeEnvironment, Plain, Spellings, Labels
<1>2. ASSUME NEW t \in TargetIds
      PROVE  /\ file[t].environment \in Labels
             /\ registry[t].status = file[t].status
             /\ registry[t].environment = NormalizeEnvironment(file[t].environment)
  BY <1>2 DEF Inv, Loaded, Respects, RawTarget, TargetIn
<1> QED
  BY <1>1, <1>2 DEF Candidates

(* Begin: a call is refused, or admitted on a target the policy allows.    *)
LEMMA BeginKeeps ==
  ASSUME Inv, NEW c \in Calls, pc[c] = "idle",
         NEW tool \in Tools \cup {"dev", "prod"}, NEW t \in TargetIds \cup {NoTarget},
         NEW named \in BOOLEAN, NEW sql \in Statements,
         tool \in {"dev", "prod"} /\ t # NoTarget =>
           t \in Candidates(tool) /\ (~named => Candidates(tool) = {t}),
         Begin(c, tool, t, named, sql)
  PROVE  Inv'
<1> DEFINE name == IF tool = "db_write" THEN "db_write" ELSE "db_read"
<1>1. /\ UNCHANGED <<config, fetched, effect, verified>>
      /\ call' = [call EXCEPT ![c] = Call(tool, t, named, sql)]
  BY DEF Begin
<1>2. \/ /\ pc' = [pc EXCEPT ![c] = "answered"]
         /\ \E code \in Refusals \cup {"db_read_failed", "db_write_failed"} :
              answer' = [answer EXCEPT ![c] = Answer(code, "none", "plain")]
      \/ /\ t # NoTarget /\ PolicyAllows(name, registry[t])
         /\ pc' = [pc EXCEPT ![c] = "driver"]
         /\ UNCHANGED answer
  BY DEF Begin, Refusals, Failure, Sanitized
<1>3. TypeOK'
  <2>1. answer' \in [Calls -> Answers]
    BY <1>2 DEF Inv, TypeOK, Answer, Answers, Texts
  <2>2. call' \in [Calls -> [tool : Tools \cup {"dev", "prod", "none"},
                            target : TargetIds \cup {NoTarget}, named : BOOLEAN,
                            sql : Statements]]
    BY <1>1 DEF Inv, TypeOK, Call
  <2>3. pc' \in [Calls -> {"idle", "driver", "anonymizer", "answered"}]
    BY <1>2 DEF Inv, TypeOK
  <2> QED
    BY <1>1, <2>1, <2>2, <2>3, ConfigKeeps DEF Inv, TypeOK, Answers
<1>4. c \notin effect /\ answer[c] = NoAnswer
  BY DEF Inv, CallInv, Admitted
<1>5. /\ call'[c].tool = tool /\ call'[c].target = t /\ call'[c].named = named
      /\ answer'[c].rows = "none" /\ answer'[c].text \notin Quoting
  BY <1>1, <1>2, <1>4 DEF Inv, TypeOK, Answer, NoAnswer, Call, Quoting
<1>6. Admitted(c)'
  BY <1>1, <1>2, <1>4, <1>5 DEF Inv, TypeOK, Admitted, ToolOf, config, PolicyAllows
<1>7. CallInv(c)'
  BY <1>1, <1>4, <1>5, <1>6 DEF CallInv, Fenced, Bare, Closed, Unambiguous, Candidates, config
<1> QED
  BY <1>1, <1>2, <1>3, <1>7, OneCallSteps DEF Inv, TypeOK

(* run_diagnostic_query runs, if it does, on an active target of its       *)
(* environment, and on the only one unless the client named it.            *)
LEMMA CallDiagnosticKeeps ==
  ASSUME Inv, NEW c \in Calls, CallDiagnostic(c)
  PROVE  Inv'
<1>1. PICK environment \in {"dev", "prod"}, explicit \in TargetIds \cup {NoTarget},
           sql \in Statements :
        \/ /\ call' = [call EXCEPT
                ![c] = Call(environment, NoTarget, explicit # NoTarget, sql)]
           /\ pc' = [pc EXCEPT ![c] = "answered"]
           /\ answer' = [answer EXCEPT ![c] = Answer("blocked", "none", "plain")]
           /\ UNCHANGED <<config, fetched, effect, verified>>
        \/ \E t \in ResolveDiagnosticTarget(environment, explicit) :
             Begin(c, environment, t, explicit # NoTarget, sql)
  BY DEF CallDiagnostic
<1>2. ASSUME NEW t \in ResolveDiagnosticTarget(environment, explicit)
      PROVE  /\ t \in Candidates(environment)
             /\ explicit = NoTarget => Candidates(environment) = {t}
  <2> DEFINE named == Candidates(environment)
  <2>1. /\ t \in named
        /\ explicit = NoTarget => Cardinality(named) = 1
    BY <1>2, CandidatesAreActive DEF ResolveDiagnosticTarget
  <2>2. IsFiniteSet(named)
    BY TargetIdsAssumption, FS_Subset DEF Candidates
  <2>3. ASSUME Cardinality(named) = 1 PROVE named = {t}
    BY <2>1, <2>2, <2>3, FS_Singleton
  <2> QED
    BY <2>1, <2>3
<1>3. CASE \E t \in ResolveDiagnosticTarget(environment, explicit) :
             Begin(c, environment, t, explicit # NoTarget, sql)
  BY <1>2, <1>3, BeginKeeps DEF CallDiagnostic, Candidates
<1>4. CASE /\ call' = [call EXCEPT
                ![c] = Call(environment, NoTarget, explicit # NoTarget, sql)]
           /\ pc' = [pc EXCEPT ![c] = "answered"]
           /\ answer' = [answer EXCEPT ![c] = Answer("blocked", "none", "plain")]
           /\ UNCHANGED <<config, fetched, effect, verified>>
  <2>1. TypeOK'
    BY <1>4, ConfigKeeps DEF Inv, TypeOK, Answer, Call, Texts
  <2>2. /\ call'[c].target = NoTarget
        /\ answer'[c] = Answer("blocked", "none", "plain")
        /\ pc'[c] = "answered"
    BY <1>4 DEF Inv, TypeOK, Call
  <2>3. CallInv(c)'
    BY <2>2 DEF CallInv, Admitted, Fenced, Closed, Unambiguous, Candidates, Production, Answer,
       Bare, Quoting
  <2> QED
    BY <1>4, <2>1, <2>3, OneCallSteps DEF Inv, TypeOK
<1> QED
  BY <1>1, <1>3, <1>4

(* The driver returns: a call that took effect was a write the policy      *)
(* allowed, and rows that go out raw are those of a plain target.          *)
LEMMA DriverReturnsKeeps ==
  ASSUME Inv, NEW c \in Calls, DriverReturns(c)
  PROVE  Inv'
<1> DEFINE target == registry[call[c].target]
<1>1. PICK rows \in BOOLEAN :
        /\ fetched' = [fetched EXCEPT ![c] = rows]
        /\ \/ /\ pc' = [pc EXCEPT ![c] = "anonymizer"]
              /\ UNCHANGED answer
           \/ /\ rows => ~AnonymizationRequired(target)
              /\ pc' = [pc EXCEPT ![c] = "answered"]
              /\ answer' = [answer EXCEPT
                   ![c] = Answer("ok", IF rows THEN "raw" ELSE "none", "none")]
  BY DEF DriverReturns
<1>2. /\ pc[c] = "driver"
      /\ effect' = IF ToolOf(c) = "db_write" THEN effect \cup {c} ELSE effect
      /\ UNCHANGED <<config, call, verified>>
  BY DEF DriverReturns
<1>3. TypeOK'
  <2>1. answer' \in [Calls -> Answers]
    BY <1>1 DEF Inv, TypeOK, Answer, Answers, Texts
  <2>2. /\ pc' \in [Calls -> {"idle", "driver", "anonymizer", "answered"}]
        /\ fetched' \in [Calls -> BOOLEAN]
        /\ effect' \in SUBSET Calls
    BY <1>1, <1>2 DEF Inv, TypeOK
  <2> QED
    BY <1>2, <2>1, <2>2, ConfigKeeps DEF Inv, TypeOK, Answers
<1>4. /\ call[c].target \in TargetIds /\ PolicyAllows(ToolOf(c), target)
      /\ c \notin effect /\ answer[c] = NoAnswer
  BY <1>2 DEF Inv, CallInv, Admitted
<1>5. /\ answer'[c].rows = "raw" => ~target.anonymization_enabled
      /\ answer'[c].rows # "masked" /\ answer'[c].text \notin Quoting
  BY <1>1, <1>4 DEF Inv, TypeOK, Answer, NoAnswer, AnonymizationRequired, Quoting
<1>6. ASSUME Production(c)
      PROVE  c \notin effect' /\ (Bare(c)' => ~Written(c).anonymization_enabled)
  BY <1>2, <1>4, <1>5, <1>6, ProductionTargets DEF Bare
<1>7. Admitted(c)'
  BY <1>1, <1>2, <1>4 DEF Inv, TypeOK, Admitted, ToolOf, config, PolicyAllows
<1>8. CallInv(c)'
  BY <1>2, <1>4, <1>5, <1>6, <1>7
     DEF Inv, CallInv, Fenced, Closed, Unambiguous, Candidates, config, Production, Written
<1> QED
  BY <1>1, <1>2, <1>3, <1>8, OneCallSteps DEF Inv, TypeOK

(* The driver throws: only a write the policy allowed may have taken       *)
(* effect, and a production target, which allows none, has the error       *)
(* scrubbed if it is anonymized.                                           *)
LEMMA DriverThrowsKeeps ==
  ASSUME Inv, NEW c \in Calls, DriverThrows(c)
  PROVE  Inv'
<1> DEFINE target == registry[call[c].target]
<1>1. PICK text \in {"plain"} \cup Quoting :
        answer' = [answer EXCEPT ![c] = Failure(ToolOf(c), target, text)]
  BY DEF DriverThrows
<1>2. /\ pc[c] = "driver" /\ pc' = [pc EXCEPT ![c] = "answered"]
      /\ \/ effect' = effect
         \/ ToolOf(c) = "db_write" /\ effect' = effect \cup {c}
      /\ UNCHANGED <<config, call, fetched, verified>>
  BY DEF DriverThrows
<1>3. TypeOK'
  <2>1. answer' \in [Calls -> Answers]
    BY <1>1, FailuresAreAnswers DEF Inv, TypeOK, Answers
  <2>2. /\ pc' \in [Calls -> {"idle", "driver", "anonymizer", "answered"}]
        /\ effect' \in SUBSET Calls
    BY <1>2 DEF Inv, TypeOK
  <2> QED
    BY <1>2, <2>1, <2>2, ConfigKeeps DEF Inv, TypeOK, Answers
<1>4. /\ call[c].target \in TargetIds /\ PolicyAllows(ToolOf(c), target) /\ c \notin effect
  BY <1>2 DEF Inv, CallInv, Admitted
<1>5. answer'[c].rows = "none"
  BY <1>1, FailuresAreAnswers DEF Inv, TypeOK
<1>6. ASSUME Production(c)
      PROVE  c \notin effect' /\ (Bare(c)' => ~Written(c).anonymization_enabled)
  <2>1. ToolOf(c) = "db_read"
    BY <1>4, <1>6, ProductionTargets DEF ToolOf
  <2>2. Written(c).anonymization_enabled => answer'[c].text \notin Quoting
    BY <1>1, <1>6, <2>1, FailuresAreAnswers, ProductionTargets
       DEF Inv, TypeOK, AnonymizationRequired
  <2> QED
    BY <1>2, <1>4, <1>5, <2>1, <2>2 DEF Bare
<1>7. CallInv(c)'
  BY <1>2, <1>4, <1>5, <1>6
     DEF Inv, TypeOK, CallInv, Admitted, Fenced, Closed, Unambiguous, Candidates, config,
         Production, Written, ToolOf
<1> QED
  BY <1>1, <1>2, <1>3, <1>7, OneCallSteps DEF Inv, TypeOK

(* The anonymizer returns: rows nobody classified leave a strict target    *)
(* only where failing open is allowed.                                     *)
LEMMA AnonymizerReturnsKeeps ==
  ASSUME Inv, NEW c \in Calls, AnonymizerReturns(c)
  PROVE  Inv'
<1> DEFINE target == registry[call[c].target]
           strict == target.anonymization_mode = "llm-strict"
<1>1. /\ pc[c] = "anonymizer" /\ pc' = [pc EXCEPT ![c] = "answered"]
      /\ UNCHANGED <<config, call, fetched, effect>>
  BY DEF AnonymizerReturns
<1>2. /\ verified' \in {verified, verified \cup {c}}
      /\ \/ answer' = [answer EXCEPT ![c] = Failure(ToolOf(c), target, "plain")]
         \/ answer' = [answer EXCEPT ![c] = Answer("ok", "none", "none")]
         \/ /\ answer' = [answer EXCEPT ![c] = Answer("ok", "masked", "none")]
            /\ strict /\ c \notin verified' => ResolveFailOpen(target)
  BY DEF AnonymizerReturns
<1>3. TypeOK'
  <2>1. answer' \in [Calls -> Answers]
    <3>1. /\ Failure(ToolOf(c), target, "plain") \in Answers
          /\ Answer("ok", "none", "none") \in Answers
          /\ Answer("ok", "masked", "none") \in Answers
      BY FailuresAreAnswers DEF Answer, Answers, Texts, Quoting
    <3>2. answer \in [Calls -> Answers]
      BY DEF Inv, TypeOK, Answers
    <3> QED
      BY <1>2, <3>1, <3>2
  <2>2. /\ pc' \in [Calls -> {"idle", "driver", "anonymizer", "answered"}]
        /\ verified' \in SUBSET Calls
    BY <1>1, <1>2 DEF Inv, TypeOK
  <2> QED
    BY <1>1, <2>1, <2>2, ConfigKeeps DEF Inv, TypeOK, Answers
<1>4. call[c].target \in TargetIds
  BY <1>1 DEF Inv, CallInv, Admitted
<1>5. /\ answer'[c].rows # "raw" /\ answer'[c].text \notin Quoting
      /\ answer'[c].rows = "masked" /\ strict /\ c \notin verified' => ResolveFailOpen(target)
  BY <1>2, FailuresAreAnswers DEF Inv, TypeOK, Answer, Quoting
<1>6. ResolveFailOpen(target) =>
        /\ failOpen
        /\ Written(c).environment.word \in {"dev", "development", "test", "staging"}
  <2>1. ASSUME NEW label, NormalizeEnvironment(label).word \in {"dev", "test", "staging"}
        PROVE  label.word \in {"dev", "development", "test", "staging"}
    BY <2>1 DEF NormalizeEnvironment, Plain
  <2>2. target.environment = NormalizeEnvironment(Written(c).environment)
    BY <1>4 DEF Inv, Loaded, Respects, Written
  <2> QED
    BY <2>1, <2>2 DEF ResolveFailOpen
<1>7. CallInv(c)'
  BY <1>1, <1>4, <1>5, <1>6
     DEF Inv, TypeOK, CallInv, Admitted, Fenced, Closed, Unambiguous, Candidates, config,
         Production, Written, Bare
<1> QED
  BY <1>1, <1>2, <1>3, <1>7, OneCallSteps DEF Inv, TypeOK

(* The invariant holds always.                                             *)
THEOREM ToolsInvariant == Spec => []Inv
<1>1. Init => Inv
  BY Initially
<1>2. Inv /\ [Next]_vars => Inv'
  <2> SUFFICES ASSUME Inv, [Next]_vars PROVE Inv'
    OBVIOUS
  <2>1. ASSUME NEW c \in Calls, CallTool(c) PROVE Inv'
    BY <2>1, BeginKeeps DEF CallTool, Tools
  <2>2. CASE UNCHANGED vars
    BY <2>2 DEF vars, config, Inv, TypeOK, Loaded, CallInv, Admitted, Fenced, Bare, Closed,
         Unambiguous, Candidates, Production, Written, ToolOf, PolicyAllows
  <2> QED
    BY <2>1, <2>2, CallDiagnosticKeeps, DriverReturnsKeeps, DriverThrowsKeeps,
       AnonymizerReturnsKeeps DEF Next
<1> QED
  BY <1>1, <1>2, PTL DEF Spec

(* Every state of the tools is well typed: the registry holds only targets *)
(* the schema allows, whatever the file and the variables say.             *)
THEOREM ToolsTypeCorrect == Spec => []TypeOK
<1>1. Inv => TypeOK
  BY DEF Inv
<1> QED
  BY <1>1, ToolsInvariant, PTL

(* db_write never changes a target whose entry says production, and data   *)
(* of one leaves bare, in rows or errors, only if its entry disables       *)
(* anonymization.                                                          *)
THEOREM ProductionFenced == Spec => []ProductionIsFenced
<1>1. Inv => ProductionIsFenced
  BY DEF Inv, CallInv, Fenced, ProductionIsFenced
<1> QED
  BY <1>1, ToolsInvariant, PTL

(* In llm-strict mode unclassified rows leave only when failing open was   *)
(* asked for, on a target whose entry names a development environment.     *)
THEOREM StrictClosed == Spec => []StrictFailsClosed
<1>1. Inv => StrictFailsClosed
  BY DEF Inv, CallInv, Closed, StrictFailsClosed
<1> QED
  BY <1>1, ToolsInvariant, PTL

(* A diagnostic query runs on an active target the file has in the         *)
(* environment it asks for, and on the only one unless the client named it *)
THEOREM DiagnosticsUnambiguous == Spec => []DiagnosticsAreUnambiguous
<1>1. Inv => DiagnosticsAreUnambiguous
  BY DEF Inv, CallInv, Unambiguous, DiagnosticsAreUnambiguous
<1> QED
  BY <1>1, ToolsInvariant, PTL

=============================================================================
