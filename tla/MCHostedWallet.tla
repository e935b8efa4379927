--------------------------- MODULE MCHostedWallet ---------------------------
(* Two users and two concurrent requests of HostedWallet. *)
EXTENDS HostedWallet, TLC

CONSTANTS u1, u2, r1, r2

MCUsers == {u1, u2}
MCRequests == {r1, r2}
Symmetry == Permutations(MCUsers) \cup Permutations(MCRequests)
=============================================================================
