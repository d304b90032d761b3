------------------------------ MODULE MCTools ------------------------------
(***************************************************************************)
(* Tools with short names, digests and signs.                              *)
(***************************************************************************)
EXTENDS Tools

CONSTANTS a, b

Short == {<<a>>, <<b>>, <<a, b>>}
=============================================================================
