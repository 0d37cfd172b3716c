----------------------------- MODULE MCTaskStream -----------------------------
(* TaskStream with one task: the streams and fetches of two tasks meet in  *)
(* the lists alone, which an answer replaces as a whole.                   *)
EXTENDS TaskStream
CONSTANTS t1
=============================================================================
