---------------------------- MODULE MCWorkerPool ----------------------------
(***************************************************************************)
(* WorkerPool for TLC.                                                     *)
(***************************************************************************)
EXTENDS WorkerPool

CONSTANTS p1, p2

\* Every job fetched is of one site, as when a round comes back to it; or no
\* two are.
OneSite  == [j \in Job |-> 1]
OwnSites == [j \in Job |-> j]

PidSymmetry == Permutations(Pid)
=============================================================================
