------------------------------- MODULE MCJobs -------------------------------
(***************************************************************************)
(* Small instances of Jobs for TLC.                                        *)
(***************************************************************************)
EXTENDS Jobs, TLC

\* pilots are all alike
Interchangeable == Permutations(Pilot)

\* what a pilot reports takes the time of a remote call
Pilots == Pilot
=============================================================================
