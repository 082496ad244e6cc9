----------------------------- MODULE MCDataPaths -----------------------------
(***************************************************************************)
(* Instances of DataPaths for TLC.                                         *)
(***************************************************************************)
EXTENDS DataPaths

CONSTANTS h1, h2, s1, s2
=============================================================================
