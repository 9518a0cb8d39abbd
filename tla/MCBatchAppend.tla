--------------------------- MODULE MCBatchAppend ---------------------------
(***************************************************************************)
(* Instances of BatchAppend for TLC: three appends that share a session.    *)
(***************************************************************************)
EXTENDS BatchAppend
=============================================================================
