---------------------------- MODULE BoundedRows ----------------------------
(***************************************************************************)
(* What a statement's rows become, seen from outside the driver: the       *)
(* answer is a failure, or the longest prefix of the rows that keeps to    *)
(* both caps, with its size and whether it is all of them.                 *)
(*                                                                         *)
(* A row is the number of bytes of its JSON text.                          *)
(***************************************************************************)
EXTENDS Naturals, Sequences, SequencesExt

VARIABLES
  source,    (* The rows the statement has, in order.                       *)
  maxRows,   (* The cap on rows, NoCap for none; no real cap is 0.           *)
  maxBytes,  (* The cap on the bytes of the rows' JSON text.                *)
  answer

NoCap == 0
Pending == [status |-> "pending"]
Failed == [status |-> "failed"]

(* The length of the JSON text of an array: two brackets, and a comma      *)
(* between any two rows.                                                   *)
JsonBytes(rows) ==
  2 + FoldLeft(+, 0, rows) + IF rows = <<>> THEN 0 ELSE Len(rows) - 1

Fits(rows) ==
  \/ rows = <<>>
  \/ /\ maxRows = NoCap \/ Len(rows) <= maxRows
     /\ maxBytes = NoCap \/ JsonBytes(rows) <= maxBytes

IsLongest(rows) ==
  /\ IsPrefix(rows, source) /\ Fits(rows)
  /\ \A longer \in Prefixes(source) : Fits(longer) => Len(longer) <= Len(rows)

Init == answer = Pending

Answer ==
  /\ answer = Pending
  /\ \E rows \in Prefixes(source) :
       /\ IsLongest(rows)
       /\ answer' = [status |-> "rows", rows |-> rows, bytes |-> JsonBytes(rows),
                     truncated |-> rows # source]
  /\ UNCHANGED <<source, maxRows, maxBytes>>

Fail ==
  /\ answer = Pending
  /\ answer' = Failed
  /\ UNCHANGED <<source, maxRows, maxBytes>>

Spec == Init /\ [][Answer \/ Fail]_<<source, maxRows, maxBytes, answer>>

=============================================================================
