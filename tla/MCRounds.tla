------------------------------ MODULE MCRounds ------------------------------
(***************************************************************************)
(* Rounds for TLC.                                                         *)
(***************************************************************************)
EXTENDS Rounds
=============================================================================
