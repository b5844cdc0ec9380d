----------------------------- MODULE MCExceptions -----------------------------
(* Small instances of Exceptions for TLC. The thread may stop: it ends, dies   *)
(* or aborts. Calls nest up to MaxDepth.                                       *)
EXTENDS Exceptions
===============================================================================
