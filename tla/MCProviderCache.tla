--------------------------- MODULE MCProviderCache ---------------------------
(***************************************************************************)
(* Two queries at a time, of two targets.  The cache has room for two      *)
(* verdicts and the results name four keys, so that verdicts are evicted   *)
(* under the queries that await an answer; one result has a column more    *)
(* than a query asks about.  Only the first target asks a provider, and in *)
(* one of its deployments refuses what is left unclassified; the second    *)
(* asks nobody, yet masks its rows by what the cache holds for it.         *)
(***************************************************************************)
EXTENDS ProviderCache

CONSTANTS t1, t2, a, b, c, tab

MCRequests ==
  {[target |-> t1, sources |-> {tab}, columns |-> <<a, b>>, ruled |-> {}],
   [target |-> t1, sources |-> {tab}, columns |-> <<b, c, a>>, ruled |-> {b}],
   [target |-> t2, sources |-> {tab}, columns |-> <<a>>, ruled |-> {}]}

Setup(mode, provider) ==
  [mode |-> mode, strategy |-> "hybrid", provider |-> provider, failOpen |-> FALSE]

MCDeployments ==
  {[t \in {t1, t2} |-> IF t = t1 THEN Setup(mode, "ready") ELSE Setup("hybrid", "none")] :
     mode \in {"hybrid", "llm-strict"}}
=============================================================================
