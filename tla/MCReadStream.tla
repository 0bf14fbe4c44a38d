---------------------------- MODULE MCReadStream ----------------------------
(* The instance of ReadStream that TLC checks.  A row is two or five bytes *)
(* long; the caps include the exact sizes of one, two and three rows, one  *)
(* byte less, and a cap that not even an empty array keeps to.             *)
EXTENDS ReadStream

MCSizes == {2, 5}
MCRowCaps == 1 .. 3
MCByteCaps == {NoCap, 1, 3, 4, 6, 7, 9, 10, 12, 13}

=============================================================================
