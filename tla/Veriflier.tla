------------------------------ MODULE Veriflier ------------------------------
(***************************************************************************)
(* What a veriflier promises the jetmon servers: a site it is asked about  *)
(* is checked once at a time, however many requests are added together,    *)
(* every check yields one result, and results are delivered or lost.  Its  *)
(* queue, its runners and its signals are hidden.                          *)
(*                                                                         *)
(* CheckController.tla implements this specification, and the verifliers   *)
(* of PeerConfirm.tla behave according to it.                              *)
(***************************************************************************)
EXTENDS Naturals

CONSTANT Site

VARIABLES pending,  \* sites under check
          replies   \* replies[s]: results about s not yet delivered or lost

Init == pending = {} /\ replies = [s \in Site |-> 0]

addChecks(sites) ==
  /\ sites \cap pending = {}
  /\ pending' = pending \cup sites
  /\ UNCHANGED replies

finishedChecking(site) ==
  /\ site \in pending
  /\ pending' = pending \ {site}
  /\ replies' = [replies EXCEPT ![site] = @ + 1]

finishedSending ==
  /\ DOMAIN replies' = Site
  /\ \A s \in Site : replies'[s] \in 0 .. replies[s]
  /\ UNCHANGED pending

Next ==
  \/ finishedSending
  \/ \E sites \in SUBSET Site : addChecks(sites)
  \/ \E s \in Site : finishedChecking(s)

Spec == Init /\ [][Next]_<<pending, replies>>
=============================================================================
