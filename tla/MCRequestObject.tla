-------------------------- MODULE MCRequestObject ---------------------------
(***************************************************************************)
(* Small instances of RequestObject: operations with two, one or no files. *)
(***************************************************************************)
EXTENDS RequestObject

SmallPlans == {<<2>>, <<0, 1>>, <<1, 2>>, <<2, 0>>, <<1, 0, 1>>, <<0, 0, 2>>}
=============================================================================
