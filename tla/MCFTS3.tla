------------------------------- MODULE MCFTS3 -------------------------------
(***************************************************************************)
(* Small instances of FTS3 for TLC.                                        *)
(***************************************************************************)
EXTENDS FTS3, TLC

\* agents and files are all alike
Interchangeable == Permutations(Agent) \cup Permutations(File)
=============================================================================
