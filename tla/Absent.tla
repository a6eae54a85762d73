-------------------------------- MODULE Absent --------------------------------
(***************************************************************************)
(* The value None of the program, and a key that is missing.               *)
(***************************************************************************)
CONSTANT Null
=============================================================================
