-------------------------- MODULE MCCheckController --------------------------
(***************************************************************************)
(* CheckController for TLC: three sites a jetmon server asks about, one of *)
(* them twice, and one of them asked about by a second server.             *)
(***************************************************************************)
EXTENDS CheckController

CONSTANTS s1, s2, s3, a, b, c1, c2, c3, again, other

MCHealthCheck   == {c1, c2, c3, again, other}
MCsite          == (c1 :> s1) @@ (c2 :> s2) @@ (c3 :> s3) @@ (again :> s1) @@ (other :> s2)
MCjetmon_server == [hc \in MCHealthCheck |-> IF hc = other THEN b ELSE a]
=============================================================================
