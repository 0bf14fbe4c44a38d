------------------------- MODULE MCServerLifecycle -------------------------
(***************************************************************************)
(* Two shutdowns over one session, one connection string and one tool call *)
(* at a time: the second shutdown can overtake the first while that one    *)
(* closes the session, and with two attempts a pool is opened after the    *)
(* cache was taken.  The clock runs to the time to live, so that a session *)
(* is renewed at 1 and one that is not has expired at 2.                   *)
(***************************************************************************)
EXTENDS ServerLifecycle
=============================================================================
