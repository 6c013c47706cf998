----------------------------- MODULE MCWeaveIR -----------------------------
(***************************************************************************)
(* The smallest table in which a merge moves something: a function, two    *)
(* blocks and an instruction in each.  Both blocks have the one name there *)
(* is, so that taking the first away would redirect a branch to the other. *)
(***************************************************************************)
EXTENDS WeaveIR
=============================================================================
