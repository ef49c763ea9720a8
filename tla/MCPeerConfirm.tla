---------------------------- MODULE MCPeerConfirm ----------------------------
(***************************************************************************)
(* PeerConfirm for TLC.  Sites, and peers, differ by their identity only.  *)
(***************************************************************************)
EXTENDS PeerConfirm, TLC

CONSTANTS s1, s2, a, b

\* Every peer is in use from the start.
AllPeers == Spec /\ verifiers = Peer

Symmetry == Permutations(Site) \cup Permutations(Peer)
=============================================================================
