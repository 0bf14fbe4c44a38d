(* Deadlock is not checked: an answered statement has no successor. *)
CONSTANTS
  Sizes <- MCSizes
  MaxLen = 3
  RowCaps <- MCRowCaps
  ByteCaps <- MCByteCaps
  MaxLate = 1
SPECIFICATION Spec
CHECK_DEADLOCK FALSE
INVARIANTS
  TypeOK
  FailsOnFault
PROPERTIES
  AnswersBounded
