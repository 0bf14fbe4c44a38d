--------------------------- MODULE VerdictRegister ---------------------------
(***************************************************************************)
(* What the cache of provider verdicts promises a query, whatever it       *)
(* evicts and however the queries overlap.                                 *)
(*                                                                         *)
(* Each target has, for each set of source tables and each column name, a  *)
(* register: a provider's answer to a query of that target writes it and   *)
(* it may be forgotten at any time.  While a query runs, each of its       *)
(* columns is decided by one read of its own register, or left undecided.  *)
(***************************************************************************)
EXTENDS Sequences

CONSTANTS
  Columns,  (* Class names of columns.                                      *)
  Requests, (* The queries there may be: target, sources and columns.       *)
  Queries,  (* Queries that run at once.                                    *)
  Verdicts, (* What a register holds.                                       *)
  Undecided (* A register that holds nothing, a column with no verdict.     *)

VARIABLES
  known,   (* The registers.                                                *)
  running, (* The queries that run.                                         *)
  asked,   (* What each of them asks for.                                   *)
  decided  (* The verdict on each of its columns, so far.                   *)

vars == <<known, running, asked, decided>>

Registers == {<<r.target, r.sources, c>> : r \in Requests, c \in Columns}

RegisterOf(r, c) == <<r.target, r.sources, c>>

Nothing == [c \in Columns |-> Undecided]

Init ==
  /\ known = [k \in Registers |-> Undecided]
  /\ running = {}
  /\ asked \in [Queries -> Requests]
  /\ decided = [q \in Queries |-> Nothing]

(* Registers are forgotten, and those of q's columns may take an answer.   *)
Rewritten(q) ==
  \A k \in Registers :
    \/ known'[k] \in {known[k], Undecided}
    \/ known'[k] \in Verdicts /\ \E c \in Columns : k = RegisterOf(asked[q], c)

(* The columns decided in this step read the registers as it leaves them.  *)
(* A verdict may go unused, when an earlier rule decides the column.       *)
ReadBy(q) ==
  \A c \in Columns :
    \/ decided'[q][c] \in {decided[q][c], Undecided}
    \/ decided[q][c] = Undecided /\ decided'[q][c] = known'[RegisterOf(asked[q], c)]

OthersAreUndisturbed(q) ==
  /\ \A p \in Queries \ {q} : decided'[p] = decided[p] /\ asked'[p] = asked[p]
  /\ running' \ {q} = running \ {q}

Start(q) ==
  /\ q \notin running
  /\ running' = running \cup {q}
  /\ asked'[q] \in Requests
  /\ \A c \in Columns :
       decided'[q][c] \in {Undecided, known[RegisterOf(asked'[q], c)]}
  /\ OthersAreUndisturbed(q)
  /\ UNCHANGED known

Step(q) ==
  /\ q \in running
  /\ q \in running'
  /\ asked'[q] = asked[q]
  /\ Rewritten(q)
  /\ ReadBy(q)
  /\ OthersAreUndisturbed(q)

End(q) ==
  /\ q \in running
  /\ running' = running \ {q}
  /\ decided' = [decided EXCEPT ![q] = Nothing]
  /\ UNCHANGED <<known, asked>>

Next == \E q \in Queries : Start(q) \/ Step(q) \/ End(q)

Spec == Init /\ [][Next]_vars

=============================================================================
