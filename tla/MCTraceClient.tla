---------------------------- MODULE MCTraceClient ----------------------------
(***************************************************************************)
(* TraceClient for TLC; clients are interchangeable in the safety runs.    *)
(***************************************************************************)
EXTENDS TraceClient, TLC

ClientSymmetry == Permutations(Clients)
=============================================================================
