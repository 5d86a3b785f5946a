------------------------ MODULE MCRequestManagement -------------------------
(***************************************************************************)
(* Small instances of RequestManagement for TLC.                           *)
(***************************************************************************)
EXTENDS RequestManagement

\* one operation with a file
OneOp == [r \in Req |-> <<1>>]

\* an operation on a file, then one without files
TwoOps == [r \in Req |-> <<1, 0>>]
=============================================================================
