---------------------------- MODULE MCXMSSWallet ----------------------------
(* Instances of XMSSWallet for TLC. *)
EXTENDS XMSSWallet, TLC

CONSTANTS n1, n2, n3, m1

\* Generated trees are interchangeable.
Symmetry == Permutations(Natives)
=============================================================================
