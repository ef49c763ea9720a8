---------------------------- MODULE MCSiteStatus ----------------------------
(***************************************************************************)
(* SiteStatus for TLC: the constants are numbers, given in the cfg.        *)
(***************************************************************************)
EXTENDS SiteStatus
=============================================================================
