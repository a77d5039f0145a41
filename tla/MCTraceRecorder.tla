--------------------------- MODULE MCTraceRecorder ---------------------------
(***************************************************************************)
(* TraceRecorder and the inductive invariant of its proofs, for TLC.       *)
(***************************************************************************)
EXTENDS TraceRecorderProofs
=============================================================================
