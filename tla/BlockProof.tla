----------------------------- MODULE BlockProof -----------------------------
(***************************************************************************)
(* The proof of a block, from the miner's template to the check by every   *)
(* node: which parts of the block a proof signs, how it and the failed     *)
(* seeds are put into the coinbase, what CheckPoUW accepts, and which leaf *)
(* and addresses ConnectBlock then takes from the coinbase.  The miner     *)
(* reads the chain's tip three times while other blocks arrive.  Blocks    *)
(* that carry the miner's proof but differ elsewhere are offered too.      *)
(*                                                                         *)
(* Leaf reuse is in LeafDB, the retries of the mining loop in Miner.       *)
(***************************************************************************)
EXTENDS FailedSeeds

CONSTANTS
  V3Height,      \* nPoUWv3StartHeight
  SeedHeight,    \* nPoUWFSLSeedVerifyHeight
  MaxHeight,     \* bound on the chain's length
  MaxData,       \* nPoUWMaxSigSize
  MaxTrees       \* POUW_MAX_TREES_PER_CALL

ASSUME ProofConstants ==
  /\ V3Height \in Nat /\ SeedHeight \in Nat /\ MaxHeight \in Nat
  /\ MaxData \in Nat /\ MaxTrees \in Nat

VARIABLES
  tip,       \* height of the active chain's tip
  pc,        \* where the miner is
  block,     \* the miner's block, from CreateNewBlock on
  seeds,     \* failed_seeds
  signed,    \* next_height, as read for the preimage
  offered,   \* the block a node checks
  verdict,   \* CheckPoUW's answer
  leaf,      \* the key ConnectBlock marks in DB_POUW_LEAF
  burned     \* DB_POUW_BURNED_ADDR

vars == <<tip, pc, block, seeds, signed, offered, verdict, leaf, burned>>

------------------------------------------------------------------------------
(* Trees are numbered by their seed.  Tree 0 has the largest root that     *)
(* meets the target, the others lie above it.                              *)

Target == 100
RootOf(seed) == Target + seed
Winner == 0
WinnerLeaf == 7
XMSSLeaves == 1024
PaidKey == 999       \* the key of a payout to a bare public key
OtherKey == 998      \* a key that is neither the payout's nor the proof's
FirstBytes == 9999   \* the first bytes of a long push, read as a leaf
ProofBytes == 2564   \* SERIAL_SIZE

(* Coinbase outputs, by their push; each has one.  A marker has the magic  *)
(* of a proof and a key, and is too short for a proof; it is an OP_RETURN  *)
(* or, tagged, another script.  A long push has no magic.                  *)
PayHash == [kind |-> "payhash"]       \* 20 bytes, not an OP_RETURN
PayKey == [kind |-> "paykey"]         \* 64 bytes, not an OP_RETURN
Witness == [kind |-> "witness"]       \* OP_RETURN, 36 bytes
ProofOut(key, lf, over) ==
  [kind |-> "proof", key |-> key, leaf |-> lf, over |-> over, bytes |-> ProofBytes]
Marker(key) == [kind |-> "marker", key |-> key, bytes |-> 68]
Tagged(key) == [kind |-> "tagged", key |-> key]
Long == [kind |-> "long"]             \* OP_RETURN, more than 64 bytes
SeedsOut(list) == [kind |-> "seeds", data |-> Serialize(list)]

(* The first output of a kind, where a loop over the outputs stops. *)
Has(outs, kind) == \E n \in DOMAIN outs : outs[n].kind = kind
First(outs, kind) == outs[Min({n \in DOMAIN outs : outs[n].kind = kind})]

(* The outputs that are of none of the kinds, in order. *)
Without(outs, kinds) ==
  LET kept[n \in 0..Len(outs)] ==
        IF n = 0 THEN <<>>
        ELSE IF outs[n].kind \in kinds THEN kept[n - 1]
        ELSE Append(kept[n - 1], outs[n])
  IN kept[Len(outs)]

(* The OP_RETURNs with a magic. *)
Stripped == {"proof", "marker", "seeds"}

\* Mutant: only the coinbase is signed.
BaseRootCoinbaseOnly(b) == <<Without(b.outs, Stripped), "any">>

(* ComputePoUWBaseMerkleRoot, also inlined in GenerateBlock. *)
BaseRoot(b) == <<Without(b.outs, Stripped), b.txs>>

(* The message a proof signs, at a height. *)
Preimage(b, height) ==
  [prev |-> b.prev, time |-> b.time,
   base |-> IF height >= V3Height THEN BaseRoot(b) ELSE <<>>]

NoBlock == [prev |-> 0, time |-> 0, txs |-> "none", outs |-> <<>>, leaf |-> 0, croot |-> NullRoot]

------------------------------------------------------------------------------
(* CheckPoUW. *)

CheckPoUWv2(b, proof, height) ==
  /\ RootOf(proof.key) <= Target
  /\ proof.leaf = b.leaf
  /\ proof.over = Preimage(b, height)

SeedsVerdict(b, list, height) ==
  CASE ~VerifyAgainstHeader(list, b.croot) -> "pouw-commitments-mismatch"
    [] OTHER ->
       IF \E n \in DOMAIN list.entries : list.entries[n].root <= Target
         THEN "pouw-fsl-root-valid"
       ELSE IF /\ height >= SeedHeight
               /\ \E n \in DOMAIN list.entries :
                    list.entries[n].root # RootOf(list.entries[n].seed)
         THEN "pouw-fsl-seed-mismatch"
       ELSE "accepted"

(* The loop for the proof passes over a marker and ends at a proof; on the *)
(* way it refuses what is too long.                                        *)
TooLarge(outs) ==
  \E n \in DOMAIN outs :
    /\ outs[n].kind \in {"proof", "marker"} /\ outs[n].bytes > MaxData
    /\ \A k \in 1..(n - 1) : outs[k].kind # "proof"

(* A block is checked at the height its parent gives it. *)
CheckPoUW(b) ==
  LET height == b.prev + 1
      data == First(b.outs, "seeds").data
  IN CASE TooLarge(b.outs) -> "pouw-sig-too-large"
       [] ~TooLarge(b.outs) /\ ~Has(b.outs, "proof") -> "pouw-no-pk"
       [] OTHER ->
          IF b.leaf >= XMSSLeaves THEN "pouw-leaf-oob"
          ELSE IF ~CheckPoUWv2(b, First(b.outs, "proof"), height) THEN "pouw-v2-invalid"
          ELSE IF ~Has(b.outs, "seeds")
            THEN IF b.croot = NullRoot THEN "accepted" ELSE "pouw-commitments-spurious"
          ELSE IF HeaderBytes + EntryBytes * Len(data.body) > MaxData
            THEN "pouw-fsl-too-large"
          ELSE IF ~Deserializes(data) THEN "pouw-fsl-malformed"
          ELSE SeedsVerdict(b, Deserialize(data), height)

------------------------------------------------------------------------------
(* What ConnectBlock takes from the coinbase. *)

(* An output as ParseCoinbasePoUWLeaf looks at it: a push of at least 68   *)
(* bytes with the magic, in any script, or the parts of an old-style proof.*)
ReadsAsProof(o) == o.kind \in {"proof", "marker", "tagged"}
ReadsAsKey(o) == o.kind = "paykey"
ReadsAsSignature(o) == o.kind \in {"seeds", "long"}

\* Mutant: the old format is tried first.
ParseOldFormatFirst(b) ==
  LET long == {n \in DOMAIN b.outs : b.outs[n].kind \in {"proof", "seeds"}}
      first == b.outs[Min(long)]
  IN IF long = {} THEN <<>>
     ELSE IF \E k \in 1..(Min(long) - 1) : ReadsAsKey(b.outs[k])
       THEN <<PaidKey, FirstBytes>>
     ELSE IF first.kind = "proof" THEN <<first.key, b.leaf>> ELSE <<>>

(* ParseCoinbasePoUWLeaf: the first output that reads as a proof, or else  *)
(* a long push after one of 64 bytes, which is an old-style signature.     *)
ParseCoinbasePoUWLeaf(b) ==
  LET hits == {n \in DOMAIN b.outs :
                 \/ ReadsAsProof(b.outs[n])
                 \/ ReadsAsSignature(b.outs[n]) /\ \E k \in 1..(n - 1) : ReadsAsKey(b.outs[k])}
      first == b.outs[Min(hits)]
  IN IF hits = {} THEN <<>>
     ELSE IF ReadsAsProof(first) THEN <<first.key, b.leaf>>
     ELSE <<PaidKey, FirstBytes>>

(* The addresses of the first seed list. *)
BurnedBy(b) ==
  IF Has(b.outs, "seeds") /\ Deserializes(First(b.outs, "seeds").data)
    THEN Range(Deserialize(First(b.outs, "seeds").data).entries) ELSE {}

------------------------------------------------------------------------------

Init ==
  /\ tip \in 0..MaxHeight /\ pc = "idle"
  /\ block = NoBlock /\ seeds = NoSeeds(0) /\ signed = 0
  /\ offered = NoBlock /\ verdict = "none" /\ leaf = <<>> /\ burned = {}

(* A block by somebody else becomes the tip. *)
TipMoves ==
  /\ tip < MaxHeight /\ pc \in {"idle", "template", "listed"}
  /\ tip' = tip + 1
  /\ UNCHANGED <<pc, block, seeds, signed, offered, verdict, leaf, burned>>

(* CreateNewBlock on the tip, paying to either kind of address. *)
CreateNewBlock(pay) ==
  /\ pc = "idle" /\ pc' = "template"
  /\ block' = [NoBlock EXCEPT !.prev = tip, !.txs = "template", !.outs = <<pay, Witness>>]
  /\ UNCHANGED <<tip, seeds, signed, offered, verdict, leaf, burned>>

(* GenerateBlock begins: the height of the failed seeds. *)
ReadSeedsHeight ==
  /\ pc = "template" /\ pc' = "listed"
  /\ seeds' = NoSeeds(tip + 1)
  /\ UNCHANGED <<tip, block, signed, offered, verdict, leaf, burned>>

(* The height that decides the form of the preimage. *)
ReadNextHeight ==
  /\ pc = "listed" /\ pc' = "mining"
  /\ signed' = tip + 1
  /\ UNCHANGED <<tip, block, seeds, offered, verdict, leaf, burned>>

(* A tree above the target: its seed is listed and another tree is built. *)
FailTree ==
  /\ pc = "mining" /\ Len(seeds.entries) < MaxTrees
  /\ LET t == Len(seeds.entries) + 1
     IN seeds' = AddFailedSeed(seeds, t, RootOf(t), seeds.height)
  /\ UNCHANGED <<tip, pc, block, signed, offered, verdict, leaf, burned>>

\* Mutant: the seeds are listed from one entry too few.
EmbedProofTooFew ==
  /\ pc = "mining" /\ pc' = "made"
  /\ LET proof == ProofOut(Winner, WinnerLeaf, Preimage(block, signed))
         enough == Len(seeds.entries) >= MinSeeds - 1
     IN block' = [block EXCEPT
          !.leaf = WinnerLeaf,
          !.outs = @ \o <<proof>> \o (IF enough THEN <<SeedsOut(seeds)>> ELSE <<>>),
          !.croot = IF enough THEN SeedsRoot(seeds) ELSE @]
  /\ UNCHANGED <<tip, seeds, signed, offered, verdict, leaf, burned>>

(* A tree that meets the target: sign, then append the proof and, if there *)
(* are enough of them, the failed seeds.                                   *)
EmbedProof ==
  /\ pc = "mining" /\ pc' = "made"
  /\ LET proof == ProofOut(Winner, WinnerLeaf, Preimage(block, signed))
         enough == Len(seeds.entries) >= MinSeeds
     IN block' = [block EXCEPT
          !.leaf = WinnerLeaf,
          !.outs = @ \o <<proof>> \o (IF enough THEN <<SeedsOut(seeds)>> ELSE <<>>),
          !.croot = IF enough THEN SeedsRoot(seeds) ELSE @]
  /\ UNCHANGED <<tip, seeds, signed, offered, verdict, leaf, burned>>

(* Other lists a block with this proof may carry: the same one a moment    *)
(* earlier, with the last entries again, in another order, for another     *)
(* height, with a root its seed does not give, or with the winner in it.   *)
OtherLists(list) ==
  LET e == list.entries
      n == Len(e)
      with(entries) == [list EXCEPT !.entries = entries]
  IN {list, NoSeeds(list.height), [list EXCEPT !.height = @ + 1]}
     \cup (IF n = 0 THEN {} ELSE
           {with(Front(e)), with(Append(e, Last(e))), with(Reverse(e)),
            with(Append(Front(e), [seed |-> n, root |-> RootOf(n + 1)])),
            with(Append(Front(e), [seed |-> Winner, root |-> RootOf(Winner)]))})
     \cup (IF n < 2 THEN {} ELSE {with(e \o SubSeq(e, n - 1, n))})

Pay(b) == Without(b.outs, {"witness"} \cup Stripped)

(* A coinbase with the miner's proof and another list of seeds, either     *)
(* before the other, and the blocks with it under the old or a fitting     *)
(* root.                                                                   *)
Listing(list) == IF list.entries = <<>> THEN <<>> ELSE <<SeedsOut(list)>>

Coinbase(b, list, swapped) ==
  LET proof == <<First(b.outs, "proof")>>
  IN (Pay(b) \o <<Witness>>) \o (IF swapped THEN Listing(list) \o proof ELSE proof \o Listing(list))

Relisted(b, list, swapped) ==
  {[b EXCEPT !.outs = Coinbase(b, list, swapped), !.croot = root] :
     root \in {b.croot, SeedsRoot(list)}}

(* A coinbase with one more output, after the payout or at the end. *)
Widened(b, x) ==
  {[b EXCEPT !.outs = <<Head(@), x>> \o Tail(@)], [b EXCEPT !.outs = Append(@, x)]}

(* Outputs that are neither proof nor payout. *)
Strays == {Marker(OtherKey), Tagged(OtherKey), Long}

(* A proof with bytes after it; Deserialize reads it as the same proof. *)
Padded(proof) == [proof EXCEPT !.bytes = MaxData + 1]

(* The miner's proof in another block: with other outputs, transactions,   *)
(* parent or time, another list of seeds, the outputs in another order.    *)
Variants(b, own) ==
  (UNION {Relisted(b, list, TRUE) \cup Relisted(b, list, FALSE) : list \in OtherLists(own)})
  \cup {[b EXCEPT !.txs = "other"], [b EXCEPT !.time = 1], [b EXCEPT !.leaf = 8],
        [b EXCEPT !.leaf = XMSSLeaves],
        [b EXCEPT !.outs = <<PayHash, PayKey>> \o Tail(@)],
        [b EXCEPT !.outs = Without(@, {"proof"})],
        [b EXCEPT !.outs = <<Padded(First(@, "proof"))>> \o Without(@, {"proof"})]}
  \cup (UNION {Widened(b, x) : x \in Strays})
  \cup {[b EXCEPT !.prev = p] : p \in 0..MaxHeight}

(* A node checks a block; one that passes is connected and its coinbase    *)
(* read again for the indices.                                             *)
Offer(b) ==
  /\ pc' = "checked"
  /\ offered' = b /\ verdict' = CheckPoUW(b)
  /\ leaf' = IF verdict' = "accepted" THEN ParseCoinbasePoUWLeaf(b) ELSE leaf
  /\ burned' = IF verdict' = "accepted" THEN burned \cup BurnedBy(b) ELSE burned
  /\ UNCHANGED <<tip, block, seeds, signed>>

Next ==
  \/ TipMoves
  \/ \E pay \in {PayHash, PayKey} : CreateNewBlock(pay)
  \/ ReadSeedsHeight
  \/ ReadNextHeight
  \/ FailTree
  \/ EmbedProof
  \/ pc = "made" /\ \E b \in Variants(block, seeds) \cup {block} : Offer(b)

Spec == Init /\ [][Next]_vars

------------------------------------------------------------------------------
(* Properties. *)

(* The miner's and the checking node's state keep their shape. *)
TypeOK ==
  /\ tip \in 0..MaxHeight
  /\ pc \in {"idle", "template", "listed", "mining", "made", "checked"}
  /\ Len(seeds.entries) \in 0..MaxSeeds /\ seeds.height \in 0..(MaxHeight + 1)
  /\ signed \in 0..(MaxHeight + 1)
  /\ block.prev \in 0..MaxHeight /\ offered.prev \in 0..MaxHeight
  /\ Len(leaf) \in {0, 2} /\ \A e \in burned : e.root \in Nat

Accepted == verdict = "accepted"

(* Nothing precedes the first proof but what CreateNewBlock puts there. *)
ProofFollowsPayouts(outs) ==
  \A n \in DOMAIN outs :
    outs[n].kind \in {"payhash", "paykey", "witness"} \/ \E k \in 1..n : outs[k].kind = "proof"

(* The list of an offered block, empty if it has none. *)
Listed(b) ==
  IF Has(b.outs, "seeds") THEN Deserialize(First(b.outs, "seeds").data).entries ELSE <<>>

(* The miner's own block passes CheckPoUW as it was built, however many    *)
(* trees failed, unless the tip moved between the template and the reading *)
(* of the height so that one lies below nPoUWv3StartHeight and the other   *)
(* does not; then it is always refused.                                    *)
OwnBlockPasses ==
  pc = "checked" /\ offered = block =>
    (Accepted <=> ((block.prev + 1 >= V3Height) <=> (signed >= V3Height)))

(* From nPoUWv3StartHeight a proof is good for one parent, time, leaf, set *)
(* of transactions and set of payouts only.                                *)
ProofBindsBlock ==
  Accepted /\ offered.prev + 1 >= V3Height =>
    /\ offered.prev = block.prev /\ offered.time = block.time
    /\ offered.leaf = block.leaf /\ offered.txs = block.txs
    /\ Pay(offered) = Pay(block)

(* Two accepted lists under one commitmentsRoot name the same trees in the *)
(* same order, up to repetitions at the end of the longer one.             *)
RootCommitsToSeeds ==
  Accepted /\ offered.croot = block.croot =>
    LET a == Listed(offered)
        b == Listed(block)
    IN Range(a) = Range(b) /\ (IsPrefix(a, b) \/ IsPrefix(b, a))

(* A tree cannot count as a proof and as a failure: an accepted block does *)
(* not publish the seed of the tree that signs it.                         *)
WinnerNotListed ==
  Accepted => \A n \in DOMAIN Listed(offered) :
                Listed(offered)[n].seed # First(offered.outs, "proof").key

(* The leaf ConnectBlock marks as used is the one CheckPoUW has verified,  *)
(* when nothing but payouts and the witness commitment stands before the   *)
(* proof, as GenerateBlock has it: whatever follows, and also when a       *)
(* payout goes to a bare public key.                                       *)
MarkedLeafIsProved ==
  Accepted /\ ProofFollowsPayouts(offered.outs) =>
    leaf = <<First(offered.outs, "proof").key, offered.leaf>>

(* Every address whose seed an accepted block publishes is known as burned *)
(* afterwards.                                                             *)
PublishedIsBurned == Accepted => Range(Listed(offered)) \subseteq burned

(* Does not hold: commitmentsRoot is said to be covered by the proof.      *)
ProofCoversSeeds == Accepted => offered.croot = block.croot

(* Does not hold: every block is said to include a list of failed seeds.   *)
EveryBlockListsSeeds == Accepted => Listed(offered) # <<>>

(* Does not hold: the marked leaf is the proved one for every coinbase.    *)
(* CheckPoUW and ParseCoinbasePoUWLeaf look for the proof in different     *)
(* ways, and outputs before it that only the second takes for a proof make *)
(* ConnectBlock mark another leaf.                                         *)
MarkedLeafAlwaysProved ==
  Accepted => leaf = <<First(offered.outs, "proof").key, offered.leaf>>
=============================================================================
