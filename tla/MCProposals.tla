---------------------------- MODULE MCProposals ----------------------------
(* The instance of Proposals that TLC checks: two columns, two processes.  *)
EXTENDS Proposals, TLC

CONSTANTS c1, c2, i1, i2, p1, p2

MCColumns == {c1, c2}
MCInputs == {i1, i2}
MCClis == {p1, p2}

(* Columns, inputs and processes are interchangeable.                      *)
Symmetry == Permutations(MCColumns) \cup Permutations(MCInputs) \cup Permutations(MCClis)

=============================================================================
