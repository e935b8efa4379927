---------------------------- MODULE MCTreeLedger ----------------------------
(* Two datadirs; a miner and a wallet thread share the first one.           *)
EXTENDS TreeLedger

CONSTANTS d1, d2, miner, wallet, other

MCDirOf == [t \in Threads |-> IF t = other THEN d2 ELSE d1]
=============================================================================
