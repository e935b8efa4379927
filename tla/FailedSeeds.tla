---------------------------- MODULE FailedSeeds ----------------------------
(***************************************************************************)
(* FailedSeedList: the trees a miner built and discarded, the commitments  *)
(* to them, the Merkle root over the commitments and the form they take in *)
(* the coinbase.  Only operators; BlockProof uses them.                    *)
(*                                                                         *)
(* Hashes are free constructors: two are equal only if what they hash is.  *)
(***************************************************************************)
EXTENDS Integers, Sequences, SequencesExt, FiniteSetsExt

CONSTANTS
  MinSeeds,  \* MIN_FAILED_SEEDS
  MaxSeeds   \* MAX_FAILED_SEEDS

ASSUME SeedCounts == MinSeeds \in Nat \ {0} /\ MaxSeeds \in Nat /\ MinSeeds <= MaxSeeds

EntryBytes == 128   \* SEED_BYTES + 32
HeaderBytes == 9    \* magic, count, height

NoSeeds(height) == [height |-> height, entries |-> <<>>]

(* AddFailedSeed: ignored once the list is full; the height is the list's, *)
(* not the entry's.                                                        *)
AddFailedSeed(list, seed, root, height) ==
  IF Len(list.entries) >= MaxSeeds THEN list
  ELSE [height |-> height, entries |-> Append(list.entries, [seed |-> seed, root |-> root])]

Commitment(entry, height) == <<"commitment", entry.root, entry.seed, height>>

\* Mutant: an odd last one is left out.
PairsDropOdd(level) ==
  [n \in 1..Max({1, Len(level) \div 2}) |-> <<"node", level[2 * n - 1], level[2 * n]>>]

(* One level of the tree: neighbours are hashed together, an odd last one  *)
(* with itself.                                                            *)
Pairs(level) ==
  FoldLeft(LAMBDA next, n :
             Append(next, <<"node", level[2 * n - 1],
                            level[Min({2 * n, Len(level)})]>>),
           <<>>, [n \in 1..((Len(level) + 1) \div 2) |-> n])

NullRoot == <<>>

(* ComputeMerkleRoot *)
SeedsRoot(list) ==
  IF list.entries = <<>> THEN NullRoot
  ELSE LET leaves == [n \in DOMAIN list.entries |-> Commitment(list.entries[n], list.height)]
       IN FoldLeft(LAMBDA level, n : IF Len(level) > 1 THEN Pairs(level) ELSE level,
                   leaves, leaves)[1]

(* Serialize and Deserialize. The count is written in front of the entries *)
(* and bytes after the last counted entry are ignored.                     *)
Serialize(list) ==
  [count |-> Len(list.entries), height |-> list.height, body |-> list.entries]

Deserializes(data) ==
  data.count \in MinSeeds..MaxSeeds /\ Len(data.body) >= data.count

Deserialize(data) == [height |-> data.height, entries |-> SubSeq(data.body, 1, data.count)]

VerifyAgainstHeader(list, root) ==
  Len(list.entries) >= MinSeeds /\ SeedsRoot(list) = root
=============================================================================
