----------------------------- MODULE ReadStream -----------------------------
(***************************************************************************)
(* The execution of one statement by the SQL Server driver                 *)
(* (drivers/sqlserver.js): executeSqlServerRead streams the rows through   *)
(* streamBoundedRows inside a transaction that is always rolled back, and  *)
(* executeSqlServerWrite bounds the rows it was given whole.               *)
(*                                                                         *)
(* The server and mssql are external: once a request is under way its      *)
(* events arrive in every order the handlers have to deal with, a          *)
(* cancelled request still delivers rows and errors that were on their     *)
(* way, and it may also have run to its end already.                       *)
(***************************************************************************)
EXTENDS Naturals, Sequences

CONSTANTS
  Sizes,      (* Sizes of a row's JSON text, in bytes.                      *)
  MaxLen,     (* Bound: rows of the first recordset.                        *)
  RowCaps,    (* Values of maxRows.                                         *)
  ByteCaps,   (* Values of maxResultBytes, NoCap for null.                  *)
  MaxLate     (* Bound: rows of a second recordset.                         *)

ASSUME SizesAssumption == Sizes \subseteq Nat
ASSUME RowCapsAssumption == RowCaps \subseteq Nat \ {0}
ASSUME ByteCapsAssumption == ByteCaps \subseteq Nat
ASSUME MaxLenAssumption == MaxLen \in Nat
ASSUME MaxLateAssumption == MaxLate \in Nat

(* No cap is configured as 0: maxRows and maxResultBytes are positive.    *)
NoCap == 0

VARIABLES
  source,      (* The rows of the first recordset.                          *)
  maxRows, maxBytes,
  pc,          (* What executeSqlServerRead or -Write awaits.               *)
  transaction, (* none, open, or ended.                                     *)
  sent,        (* Rows of the first recordset the server has sent.          *)
  late,        (* Rows of a second recordset it has sent.                   *)
  erred,       (* It has reported an error, of whatever kind.               *)
  recordsetCount, rows, rowsSeen, resultBytes, truncated, stopped,
  streamError, (* An error that makes the read fail was reported.           *)
  answer

request == <<sent, late, erred>>
handler == <<recordsetCount, rows, rowsSeen, resultBytes, truncated, stopped, streamError>>
given == <<source, maxRows, maxBytes>>

(***************************************************************************)
(* A history variable: something other than the read's own cancellation    *)
(* went wrong.                                                             *)
(***************************************************************************)
VARIABLE faulted
vars == <<given, pc, transaction, request, handler, answer, faulted>>

Pending == [status |-> "pending"]
Failed == [status |-> "failed"]

Sources == UNION {[1 .. n -> Sizes] : n \in 0 .. MaxLen}

(* A read has both caps; a write has only the second.                      *)
Init ==
  /\ source \in Sources
  /\ maxBytes \in ByteCaps
  /\ \/ maxRows \in RowCaps /\ pc = "describe"
     \/ maxRows = NoCap /\ pc = "write"
  /\ transaction = "none"
  /\ sent = 0 /\ late = 0 /\ erred = FALSE
  /\ recordsetCount = 0
  /\ rows = <<>>
  /\ rowsSeen = 0
  /\ resultBytes = 2
  /\ truncated = FALSE
  /\ stopped = FALSE
  /\ streamError = FALSE
  /\ answer = Pending
  /\ faulted = FALSE

----------------------------------------------------------------------------
(***************************************************************************)
(* executeSqlServerRead.                                                   *)
(***************************************************************************)

(* describeColumnOrigins, or no call of it, never fails the read.          *)
Describe ==
  /\ pc = "describe"
  /\ pc' = "begin"
  /\ UNCHANGED <<given, transaction, request, handler, answer, faulted>>

BeginSucceeds ==
  /\ pc = "begin"
  /\ pc' = "stream"
  /\ transaction' = "open"
  /\ UNCHANGED <<given, request, handler, answer, faulted>>

BeginFails ==
  /\ pc = "begin"
  /\ pc' = "answered"
  /\ answer' = Failed
  /\ faulted' = TRUE
  /\ UNCHANGED <<given, transaction, request, handler>>

(***************************************************************************)
(* streamBoundedRows: the handlers of the request's events.                *)
(***************************************************************************)
OnRecordset ==
  /\ pc = "stream"
  /\ recordsetCount = 0 \/ (recordsetCount = 1 /\ sent = Len(source))
  /\ recordsetCount' = recordsetCount + 1
  /\ UNCHANGED <<given, pc, transaction, request, rows, rowsSeen, resultBytes, truncated,
                 stopped, streamError, answer, faulted>>

(* Mutated form: the comma between two rows is forgotten.                  *)
NoSeparator == 0

Separator == IF rows = <<>> THEN 0 ELSE 1

ExceedsBytes(rowBytes) ==
  maxBytes # NoCap /\ resultBytes + Separator + rowBytes > maxBytes

Ignored ==
  UNCHANGED <<rows, rowsSeen, resultBytes, truncated, stopped>>

Stop ==
  /\ truncated' = TRUE
  /\ stopped' = TRUE
  /\ UNCHANGED <<rows, resultBytes>>

(* Mutated form: rows that arrive after the cancellation are counted.      *)
TakeRowAfterStop(rowBytes) ==
  IF recordsetCount > 1 THEN Ignored
  ELSE /\ rowsSeen' = rowsSeen + 1
       /\ IF rowsSeen' > maxRows \/ ExceedsBytes(rowBytes) THEN Stop
          ELSE /\ resultBytes' = resultBytes + Separator + rowBytes
               /\ rows' = Append(rows, rowBytes)
               /\ UNCHANGED <<truncated, stopped>>

(* The row handler: a row after the stop, or of another recordset, is      *)
(* ignored.                                                                *)
TakeRow(rowBytes) ==
  IF stopped \/ recordsetCount > 1 THEN Ignored
  ELSE /\ rowsSeen' = rowsSeen + 1
       /\ IF rowsSeen' > maxRows \/ ExceedsBytes(rowBytes) THEN Stop
          ELSE /\ resultBytes' = resultBytes + Separator + rowBytes
               /\ rows' = Append(rows, rowBytes)
               /\ UNCHANGED <<truncated, stopped>>

OnRow ==
  /\ pc = "stream"
  /\ recordsetCount = 1
  /\ sent < Len(source)
  /\ sent' = sent + 1
  /\ TakeRow(source[sent'])
  /\ UNCHANGED <<given, pc, transaction, late, erred, recordsetCount, streamError, answer,
                 faulted>>

OnLateRow ==
  /\ pc = "stream"
  /\ recordsetCount = 2
  /\ late < MaxLate
  /\ late' = late + 1
  /\ \E rowBytes \in Sizes : TakeRow(rowBytes)
  /\ UNCHANGED <<given, pc, transaction, sent, erred, recordsetCount, streamError, answer,
                 faulted>>

(* Mutated form: a cancellation is an error like any other.                *)
OnCanceledAsError ==
  /\ pc = "stream"
  /\ stopped
  /\ erred' = TRUE
  /\ streamError' = TRUE
  /\ UNCHANGED <<given, pc, transaction, sent, late, recordsetCount, rows, rowsSeen,
                 resultBytes, truncated, stopped, answer, faulted>>

(* The request reports its cancellation.                                   *)
OnCanceled ==
  /\ pc = "stream"
  /\ stopped
  /\ erred' = TRUE
  /\ UNCHANGED <<given, pc, transaction, sent, late, handler, answer, faulted>>

(* Any other error, before or after the read has stopped.                  *)
OnError ==
  /\ pc = "stream"
  /\ erred' = TRUE
  /\ streamError' = TRUE
  /\ faulted' = TRUE
  /\ UNCHANGED <<given, pc, transaction, sent, late, recordsetCount, rows, rowsSeen,
                 resultBytes, truncated, stopped, answer>>

(* The promise of request.query resolves: in stream mode also after an     *)
(* error.  Without one the server has sent every row.                      *)
QueryResolves ==
  /\ pc = "stream"
  /\ erred \/ (recordsetCount > 0 /\ sent = Len(source))
  /\ pc' = "rollback"
  /\ UNCHANGED <<given, transaction, request, handler, answer, faulted>>

(* It rejects when the request could not be sent.                          *)
QueryRejects ==
  /\ pc = "stream"
  /\ recordsetCount = 0
  /\ pc' = "rollback"
  /\ streamError' = TRUE
  /\ faulted' = TRUE
  /\ UNCHANGED <<given, transaction, request, recordsetCount, rows, rowsSeen, resultBytes,
                 truncated, stopped, answer>>

Outcome ==
  IF streamError THEN Failed
  ELSE [status |-> "rows", rows |-> rows, bytes |-> resultBytes, truncated |-> truncated]

(* finally: rollback, whose own failure is swallowed.                      *)
Rollback ==
  /\ pc = "rollback"
  /\ pc' = "answered"
  /\ transaction' = "ended"
  /\ answer' = Outcome
  /\ UNCHANGED <<given, request, handler, faulted>>

(***************************************************************************)
(* executeSqlServerWrite: one query, then buildBoundedRows.                *)
(***************************************************************************)

(* resultBytes after the first n rows were accepted.                       *)
WrittenBytes[n \in 0 .. Len(source)] ==
  IF n = 0 THEN 2
  ELSE WrittenBytes[n - 1] + (IF n = 1 THEN 0 ELSE 1) + source[n]

(* The loop breaks at the first row that does not fit.                     *)
WrittenRows ==
  CHOOSE n \in 0 .. Len(source) :
    /\ \A i \in 1 .. n : maxBytes = NoCap \/ WrittenBytes[i] <= maxBytes
    /\ n < Len(source) => maxBytes # NoCap /\ WrittenBytes[n + 1] > maxBytes

WriteSucceeds ==
  /\ pc = "write"
  /\ pc' = "answered"
  /\ answer' = [status |-> "rows", rows |-> SubSeq(source, 1, WrittenRows),
                bytes |-> WrittenBytes[WrittenRows], truncated |-> WrittenRows < Len(source)]
  /\ UNCHANGED <<given, transaction, request, handler, faulted>>

WriteFails ==
  /\ pc = "write"
  /\ pc' = "answered"
  /\ answer' = Failed
  /\ faulted' = TRUE
  /\ UNCHANGED <<given, transaction, request, handler>>

----------------------------------------------------------------------------

Next ==
  \/ Describe \/ BeginSucceeds \/ BeginFails
  \/ OnRecordset \/ OnRow \/ OnLateRow \/ OnCanceled \/ OnError
  \/ QueryResolves \/ QueryRejects \/ Rollback
  \/ WriteSucceeds \/ WriteFails

Spec == Init /\ [][Next]_vars

----------------------------------------------------------------------------

(* "At most max_rows + 1 rows are ever held": rowsSeen is bounded by it.   *)
TypeOK ==
  /\ source \in Sources
  /\ maxRows \in RowCaps \cup {NoCap}
  /\ maxBytes \in ByteCaps
  /\ pc \in {"describe", "begin", "stream", "rollback", "write", "answered"}
  /\ transaction \in {"none", "open", "ended"}
  /\ sent \in 0 .. MaxLen /\ late \in 0 .. MaxLate /\ erred \in BOOLEAN
  /\ recordsetCount \in 0 .. 2
  /\ rows \in Sources
  /\ rowsSeen \in 0 .. IF maxRows = NoCap THEN 0 ELSE maxRows + 1
  /\ resultBytes \in Nat
  /\ truncated \in BOOLEAN /\ stopped \in BOOLEAN /\ streamError \in BOOLEAN
  /\ answer.status \in {"pending", "failed", "rows"}
  /\ faulted \in BOOLEAN

(* A read and a write, whatever the order of events, answer with the       *)
(* longest prefix within the caps, or fail.                                *)
Bounded ==
  INSTANCE BoundedRows WITH
    source <- source, maxRows <- maxRows, maxBytes <- maxBytes, answer <- answer
AnswersBounded == Bounded!Spec

(* A read fails exactly when something but its own cancellation failed: no *)
(* error is swallowed by a cap that was reached, and no cap is an error.   *)
FailsOnFault == pc = "answered" => (answer = Failed) = faulted

=============================================================================
