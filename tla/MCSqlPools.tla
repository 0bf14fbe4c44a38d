----------------------------- MODULE MCSqlPools -----------------------------
(***************************************************************************)
(* Two connection strings, two callers and two overlapping shutdowns.      *)
(* Three attempts: a connection string can be retried after a failure, or  *)
(* reopened after a shutdown, while the other one is connecting.           *)
(***************************************************************************)
EXTENDS SqlPools
=============================================================================
