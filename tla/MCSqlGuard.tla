----------------------------- MODULE MCSqlGuard -----------------------------
(***************************************************************************)
(* Texts of six clauses: enough for common table expressions before a      *)
(* statement with a query in parentheses and a second statement after it,  *)
(* for a MERGE with both of its branches and an OUTPUT clause, and for an  *)
(* INSERT of a union.  A third statement adds nothing to a second.         *)
(***************************************************************************)
EXTENDS SqlTexts
=============================================================================
