---------------------------- MODULE MCHttpChecker ----------------------------
(***************************************************************************)
(* HttpChecker for TLC.                                                    *)
(***************************************************************************)
EXTENDS HttpChecker

CONSTANTS c1, c2
=============================================================================
