----------------------------- MODULE MCCardStream -----------------------------
(* Small instances of CardStream for TLC.                                   *)
EXTENDS CardStream
=============================================================================
