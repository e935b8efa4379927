-------------------------- MODULE BlockProofProofs --------------------------
(***************************************************************************)
(* Theorems about BlockProof for every activation height, chain length and *)
(* number of trees: the miner's own block passes CheckPoUW, a proof is     *)
(* good for one block only, and the leaf that is marked is the one that    *)
(* was checked if only payouts precede the proof.                          *)
(***************************************************************************)
EXTENDS BlockProof, WellFoundedInduction, TLAPS

------------------------------------------------------------------------------
(* Numbers and sequences of outputs. *)

(* A set of natural numbers has a least element; this takes the place of   *)
(* induction below.                                                        *)
LEMMA LeastNumber ==
  ASSUME NEW S \in SUBSET Nat, S # {}
  PROVE  \E x \in S : \A y \in S : x <= y
<1>1. PICK x \in S : \A y \in S : ~(<<y, x>> \in OpToRel(<, Nat))
  BY WFMin, NatLessThanWellFounded, Zenon
<1>2. \A y \in S : ~(y < x)
  BY <1>1, Zenon DEF OpToRel
<1> QED
  BY <1>2

LEMMA MinIsLeast ==
  ASSUME NEW S \in SUBSET Nat, S # {}
  PROVE  Min(S) \in S /\ \A y \in S : Min(S) <= y
BY LeastNumber, Zenon DEF Min

(* The first output of a kind. *)
LEMMA FirstIs ==
  ASSUME NEW S, NEW outs \in Seq(S), NEW kind, Has(outs, kind)
  PROVE  \E n \in DOMAIN outs :
           /\ outs[n].kind = kind /\ First(outs, kind) = outs[n]
           /\ \A k \in DOMAIN outs : outs[k].kind = kind => n <= k
<1> DEFINE at == {k \in DOMAIN outs : outs[k].kind = kind}
<1>1. at \in SUBSET Nat /\ at # {}
  BY DEF Has
<1>2. Min(at) \in at /\ \A k \in at : Min(at) <= k
  <2> HIDE DEF at
  <2> QED
    BY <1>1, MinIsLeast, Zenon
<1> QED
  BY <1>2, Zenon DEF First

LEMMA FirstOf ==
  ASSUME NEW S, NEW outs \in Seq(S), NEW kind, Has(outs, kind)
  PROVE  \E n \in DOMAIN outs : outs[n].kind = kind /\ First(outs, kind) = outs[n]
<1>1. PICK n \in DOMAIN outs :
        /\ outs[n].kind = kind /\ First(outs, kind) = outs[n]
        /\ \A k \in DOMAIN outs : outs[k].kind = kind => n <= k
  BY FirstIs, ZenonT(60)
<1> QED
  BY <1>1, Zenon

(* The recursion of Without, up to m. *)
Keeps(f, outs, kinds, m) ==
  /\ DOMAIN f = 0..m /\ f[0] = <<>>
  /\ \A n \in 1..m : f[n] = IF outs[n].kind \in kinds THEN f[n - 1]
                            ELSE Append(f[n - 1], outs[n])

\* f is a function on 0..m.
Maps(f, m) == f = [n \in 0..m |-> f[n]]

LEMMA KeptExists ==
  ASSUME NEW outs, NEW kinds, NEW m \in Nat
  PROVE  \E f : Keeps(f, outs, kinds, m) /\ Maps(f, m)
<1> DEFINE Has1(n) == \E f : Keeps(f, outs, kinds, n) /\ Maps(f, n)
           Bad == {n \in Nat : ~Has1(n)}
<1>1. SUFFICES ASSUME Bad # {} PROVE FALSE
  BY Zenon
<1>2. PICK n \in Bad : \A k \in Bad : n <= k
  <2>1. Bad \in SUBSET Nat
    BY Zenon
  <2> HIDE DEF Bad
  <2> QED
    BY <1>1, <2>1, LeastNumber, Zenon
<1>3. CASE n = 0
  <2>1. Keeps([k \in 0..0 |-> <<>>], outs, kinds, 0) /\ Maps([k \in 0..0 |-> <<>>], 0)
    BY DEF Keeps, Maps
  <2>2. Has1(0)
    BY <2>1, Zenon
  <2> QED
    BY <1>2, <1>3, <2>2, Zenon
<1>4. CASE n # 0
  <2>1. n \in Nat /\ n - 1 \in Nat /\ n - 1 \notin Bad
    BY <1>2, <1>4
  <2>2. PICK f : Keeps(f, outs, kinds, n - 1)
    BY <2>1, Zenon
  <2> DEFINE last == IF outs[n].kind \in kinds THEN f[n - 1] ELSE Append(f[n - 1], outs[n])
             g == [k \in 0..n |-> IF k = n THEN last ELSE f[k]]
  <2>3. g[0] = <<>> /\ DOMAIN g = 0..n /\ g[n] = last /\ \A k \in 0..(n - 1) : g[k] = f[k]
    <3> HIDE DEF last
    <3> QED
      BY <1>4, <2>1, <2>2 DEF Keeps
  <2>4. Maps(g, n)
    BY Zenon DEF Maps
  <2> HIDE DEF g
  <2>5. ASSUME NEW k \in 1..n
        PROVE  g[k] = IF outs[k].kind \in kinds THEN g[k - 1] ELSE Append(g[k - 1], outs[k])
    <3>1. k - 1 \in 0..(n - 1) /\ g[k - 1] = f[k - 1]
      BY <2>1, <2>3
    <3>2. CASE k = n
      BY <2>3, <3>1, <3>2, Zenon
    <3>3. CASE k # n
      <4>1. k \in 1..(n - 1) /\ k \in 0..(n - 1)
        BY <2>1, <3>3
      <4> QED
        BY <2>2, <2>3, <3>1, <4>1, Zenon DEF Keeps
    <3> QED
      BY <3>2, <3>3, Zenon
  <2>6. Keeps(g, outs, kinds, n)
    BY <2>3, <2>5, Zenon DEF Keeps
  <2> QED
    BY <1>2, <2>4, <2>6, Zenon
<1> QED
  BY <1>3, <1>4, Zenon

LEMMA KeptIs ==
  ASSUME NEW outs, NEW kinds, Len(outs) \in Nat
  PROVE  \E f : /\ Keeps(f, outs, kinds, Len(outs))
                /\ Without(outs, kinds) = f[Len(outs)]
<1> DEFINE Q(f) == [n \in 0..Len(outs) |->
                      IF n = 0 THEN <<>>
                      ELSE IF outs[n].kind \in kinds THEN f[n - 1]
                      ELSE Append(f[n - 1], outs[n])]
           kept == CHOOSE f : f = Q(f)
<1>1. PICK f : Keeps(f, outs, kinds, Len(outs)) /\ Maps(f, Len(outs))
  BY KeptExists, Zenon
<1>2. f = Q(f)
  <2>1. ASSUME NEW n \in 0..Len(outs) PROVE f[n] = Q(f)[n]
    <3>1. n = 0 \/ n \in 1..Len(outs)
      OBVIOUS
    <3>2. n \in 1..Len(outs) => n # 0
      OBVIOUS
    <3> QED
      BY <1>1, <3>1, <3>2, Zenon DEF Keeps
  <2> QED
    BY <1>1, <2>1, Zenon DEF Maps
<1>3. Without(outs, kinds) = kept[Len(outs)]
  BY Zenon DEF Without
<1> HIDE DEF Q
<1>4. kept = Q(kept)
  BY <1>2, Zenon
<1> HIDE DEF kept
<1>5. DOMAIN kept = 0..Len(outs)
  <2>1. DOMAIN Q(kept) = 0..Len(outs)
    BY Zenon DEF Q
  <2> QED
    BY <1>4, <2>1, Zenon
<1>6. \A n \in 0..Len(outs) : kept[n] = IF n = 0 THEN <<>>
                      ELSE IF outs[n].kind \in kinds THEN kept[n - 1]
                      ELSE Append(kept[n - 1], outs[n])
  BY <1>4, Zenon DEF Q
<1>7. Keeps(kept, outs, kinds, Len(outs))
  <2>1. 0 \in 0..Len(outs) /\ \A n \in 1..Len(outs) : n \in 0..Len(outs) /\ n # 0
    OBVIOUS
  <2> QED
    BY <1>5, <1>6, <2>1, Zenon DEF Keeps
<1> QED
  BY <1>3, <1>7, Zenon
(* Without, one output at a time. *)
LEMMA WithoutNone == ASSUME NEW kinds PROVE Without(<<>>, kinds) = <<>>
<1>1. Len(<<>>) = 0
  BY Zenon
<1>2. PICK f : Keeps(f, <<>>, kinds, 0) /\ Without(<<>>, kinds) = f[0]
  BY <1>1, KeptIs, Zenon
<1> QED
  BY <1>2, Zenon DEF Keeps

LEMMA WithoutAppend ==
  ASSUME NEW S, NEW outs \in Seq(S), NEW o \in S, NEW kinds
  PROVE  Without(Append(outs, o), kinds) = IF o.kind \in kinds THEN Without(outs, kinds)
                                           ELSE Append(Without(outs, kinds), o)
<1> DEFINE more == Append(outs, o)
<1>1. /\ Len(outs) \in Nat /\ Len(more) = Len(outs) + 1 /\ more[Len(outs) + 1] = o
      /\ \A n \in 1..Len(outs) : more[n] = outs[n]
  OBVIOUS
<1> HIDE DEF more
<1>2. PICK f : Keeps(f, outs, kinds, Len(outs)) /\ Without(outs, kinds) = f[Len(outs)]
  BY <1>1, KeptIs, Zenon
<1>3. PICK g : Keeps(g, more, kinds, Len(outs) + 1) /\ Without(more, kinds) = g[Len(outs) + 1]
  BY <1>1, KeptIs
<1>4. g[Len(outs)] = f[Len(outs)]
  <2> DEFINE Bad == {n \in 0..Len(outs) : g[n] # f[n]}
  <2>1. SUFFICES ASSUME Bad # {} PROVE FALSE
    BY <1>1
  <2>2. PICK n \in Bad : \A k \in Bad : n <= k
    <3>1. Bad \in SUBSET Nat
      BY <1>1
    <3> HIDE DEF Bad
    <3> QED
      BY <2>1, <3>1, LeastNumber, Zenon
  <2>3. n # 0
    BY <1>2, <1>3, <2>2, Zenon DEF Keeps
  <2>4. n \in 1..Len(outs) /\ n \in 1..(Len(outs) + 1) /\ n - 1 \in 0..Len(outs)
    BY <1>1, <2>2, <2>3
  <2>5. g[n - 1] = f[n - 1]
    BY <1>1, <2>2, <2>4
  <2>6. more[n] = outs[n]
    BY <1>1, <2>4, Zenon
  <2>7. g[n] = f[n]
    BY <1>2, <1>3, <2>4, <2>5, <2>6, Zenon DEF Keeps
  <2> QED
    BY <2>2, <2>7, Zenon
<1>5. Len(outs) + 1 \in 1..(Len(outs) + 1) /\ (Len(outs) + 1) - 1 = Len(outs)
  BY <1>1
<1>6. g[Len(outs) + 1] = IF more[Len(outs) + 1].kind \in kinds THEN g[(Len(outs) + 1) - 1]
                         ELSE Append(g[(Len(outs) + 1) - 1], more[Len(outs) + 1])
  BY <1>3, <1>5, Zenon DEF Keeps
<1>7. g[Len(outs) + 1] = IF o.kind \in kinds THEN f[Len(outs)] ELSE Append(f[Len(outs)], o)
  BY <1>1, <1>4, <1>5, <1>6, Zenon
<1>8. Without(more, kinds) = IF o.kind \in kinds THEN Without(outs, kinds)
                             ELSE Append(Without(outs, kinds), o)
  BY <1>2, <1>3, <1>7, Zenon
<1> QED
  BY <1>8, Zenon DEF more

LEMMA AppendIs ==
  ASSUME NEW S, NEW outs \in Seq(S), NEW o \in S
  PROVE  /\ Append(outs, o) \in Seq(S) /\ Len(Append(outs, o)) = Len(outs) + 1
         /\ Append(outs, o)[Len(outs) + 1] = o
         /\ \A n \in 1..Len(outs) : Append(outs, o)[n] = outs[n]
OBVIOUS

(* A sequence that is not empty is an Append. *)
LEMMA LastOutput ==
  ASSUME NEW S, NEW outs \in Seq(S), Len(outs) # 0
  PROVE  \E rest \in Seq(S), o \in S : outs = Append(rest, o) /\ Len(rest) = Len(outs) - 1
<1>1. Len(outs) \in Nat /\ outs[Len(outs)] \in S
  OBVIOUS
<1> DEFINE m == Len(outs) - 1
           rest == [n \in 1..m |-> outs[n]]
<1>2. /\ rest \in Seq(S) /\ Len(rest) = Len(outs) - 1
      /\ \A n \in 1..(Len(outs) - 1) : rest[n] = outs[n]
  <2>1. m \in Nat /\ \A n \in 1..m : n \in 1..Len(outs)
    BY <1>1
  <2> HIDE DEF m
  <2>2. rest \in Seq(S) /\ Len(rest) = m
    BY <2>1
  <2> QED
    BY <2>2, Zenon DEF m
<1> HIDE DEF rest
<1>3. outs = Append(rest, outs[Len(outs)])
  <2> DEFINE more == Append(rest, outs[Len(outs)])
  <2>1. /\ more \in Seq(S) /\ Len(more) = Len(outs) /\ more[Len(outs)] = outs[Len(outs)]
        /\ \A n \in 1..(Len(outs) - 1) : more[n] = outs[n]
    BY <1>1, <1>2
  <2> HIDE DEF more
  <2>2. \A n \in 1..Len(outs) : more[n] = outs[n]
    BY <1>1, <2>1
  <2>3. more = outs
    BY <2>1, <2>2
  <2> QED
    BY <2>3, Zenon DEF more
<1> QED
  BY <1>1, <1>2, <1>3, Zenon

(* What is left are outputs of the other kinds. *)
LEMMA WithoutType ==
  ASSUME NEW S, NEW kinds, NEW outs \in Seq(S)
  PROVE  Without(outs, kinds) \in Seq({o \in S : o.kind \notin kinds})
<1> DEFINE U == {o \in S : o.kind \notin kinds}
           Bad == {n \in Nat : \E s \in Seq(S) : Len(s) = n /\ Without(s, kinds) \notin Seq(U)}
<1>1. SUFFICES ASSUME Bad # {} PROVE FALSE
  OBVIOUS
<1>2. PICK n \in Bad : \A k \in Bad : n <= k
  <2>1. Bad \in SUBSET Nat
    BY Zenon
  <2> HIDE DEF Bad
  <2> QED
    BY <1>1, <2>1, LeastNumber, Zenon
<1>3. PICK s \in Seq(S) : Len(s) = n /\ Without(s, kinds) \notin Seq(U)
  BY <1>2, Zenon
<1>4. CASE n = 0
  <2>1. s = <<>> /\ <<>> \in Seq(U)
    BY <1>3, <1>4
  <2> QED
    BY <1>3, <2>1, WithoutNone, Zenon
<1>5. CASE n # 0
  <2>1. PICK rest \in Seq(S), o \in S : s = Append(rest, o) /\ Len(rest) = n - 1
    <3>1. Len(s) # 0 /\ Len(s) = n
      BY <1>3, <1>5, Zenon
    <3>2. \E rest \in Seq(S), o \in S : s = Append(rest, o) /\ Len(rest) = Len(s) - 1
      BY <3>1, LastOutput, Zenon
    <3> QED
      BY <3>1, <3>2, Zenon
  <2>2. n - 1 \in Nat /\ n - 1 \notin Bad
    <3>1. n \in Nat
      BY Zenon
    <3> HIDE DEF Bad
    <3> QED
      BY <1>2, <1>5, <3>1
  <2>3. Without(rest, kinds) \in Seq(U)
    BY <2>1, <2>2, Zenon
  <2>4. Without(s, kinds) = IF o.kind \in kinds THEN Without(rest, kinds)
                            ELSE Append(Without(rest, kinds), o)
    BY <2>1, WithoutAppend
  <2>5. o.kind \notin kinds => o \in U
    BY Zenon
  <2> HIDE DEF U
  <2>6. Without(s, kinds) \in Seq(U)
    BY <2>3, <2>4, <2>5
  <2> QED
    BY <1>3, <2>6, Zenon
<1> QED
  BY <1>4, <1>5, Zenon

(* Leaving out some kinds and then these and others leaves out all. *)
LEMMA WithoutTwice ==
  ASSUME NEW S, NEW outs \in Seq(S), NEW some, NEW all, some \subseteq all
  PROVE  Without(Without(outs, some), all) = Without(outs, all)
<1> DEFINE Good(s) == Without(Without(s, some), all) = Without(s, all)
           Bad == {n \in Nat : \E s \in Seq(S) : Len(s) = n /\ ~Good(s)}
<1>1. SUFFICES ASSUME Bad # {} PROVE FALSE
  OBVIOUS
<1>2. PICK n \in Bad : \A k \in Bad : n <= k
  <2>1. Bad \in SUBSET Nat
    BY Zenon
  <2> HIDE DEF Bad
  <2> QED
    BY <1>1, <2>1, LeastNumber, Zenon
<1>3. PICK s \in Seq(S) : Len(s) = n /\ ~Good(s)
  BY <1>2, Zenon
<1>4. CASE n = 0
  <2>1. s = <<>>
    BY <1>3, <1>4
  <2>2. Without(s, some) = <<>> /\ Without(s, all) = <<>>
    BY <2>1, WithoutNone, Zenon
  <2> QED
    BY <1>3, <2>1, <2>2, Zenon
<1>5. CASE n # 0
  <2>1. PICK rest \in Seq(S), o \in S : s = Append(rest, o) /\ Len(rest) = n - 1
    <3>1. Len(s) # 0 /\ Len(s) = n
      BY <1>3, <1>5, Zenon
    <3>2. \E rest \in Seq(S), o \in S : s = Append(rest, o) /\ Len(rest) = Len(s) - 1
      BY <3>1, LastOutput, Zenon
    <3> QED
      BY <3>1, <3>2, Zenon
  <2>2. n - 1 \in Nat /\ n - 1 \notin Bad
    <3>1. n \in Nat
      BY Zenon
    <3> HIDE DEF Bad
    <3> QED
      BY <1>2, <1>5, <3>1
  <2>3. Good(rest)
    BY <2>1, <2>2, Zenon
  <2> DEFINE w == Without(rest, some)
  <2>4. w \in Seq(S)
    <3>1. w \in Seq({x \in S : x.kind \notin some})
      BY WithoutType, Zenon
    <3> HIDE DEF w
    <3> QED
      BY <3>1
  <2>5. Without(s, some) = IF o.kind \in some THEN w ELSE Append(w, o)
    BY <2>1, WithoutAppend
  <2>6. Without(s, all) = IF o.kind \in all THEN Without(rest, all)
                          ELSE Append(Without(rest, all), o)
    BY <2>1, WithoutAppend
  <2>7. Without(w, all) = Without(rest, all)
    BY <2>3, Zenon
  <2> HIDE DEF w
  <2>8. Without(Append(w, o), all) = IF o.kind \in all THEN Without(w, all)
                                     ELSE Append(Without(w, all), o)
    BY <2>4, WithoutAppend
  <2>9. Good(s)
    BY <2>5, <2>6, <2>7, <2>8, Zenon
  <2> QED
    BY <1>3, <2>9, Zenon
<1> QED
  BY <1>4, <1>5, Zenon
------------------------------------------------------------------------------
(* The inductive invariant. *)

(* A proof and the longest list that AddFailedSeed builds fit into the     *)
(* coinbase.                                                               *)
ListsFit == ProofBytes <= MaxData /\ HeaderBytes + EntryBytes * MaxSeeds <= MaxData

Pays == {PayHash, PayKey}

(* The miner's block on a parent at height p, with the given payout:       *)
(* before the proof is made, the proof, and the block with the proof.      *)
TemplateOf(p, pay) ==
  [prev |-> p, time |-> 0, txs |-> "template", outs |-> <<pay, Witness>>, leaf |-> 0,
   croot |-> NullRoot]

MinersProof(p, pay) == ProofOut(Winner, WinnerLeaf, Preimage(TemplateOf(p, pay), signed))

Enough == Len(seeds.entries) >= MinSeeds

MadeOf(p, pay) ==
  [prev |-> p, time |-> 0, txs |-> "template",
   outs |-> LET proved == Append(<<pay, Witness>>, MinersProof(p, pay))
            IN IF Enough THEN Append(proved, SeedsOut(seeds)) ELSE proved,
   leaf |-> WinnerLeaf, croot |-> IF Enough THEN SeedsRoot(seeds) ELSE NullRoot]

(* The list holds the trees that were built, in order: none meets the      *)
(* target, and each has the root its seed gives.                           *)
SeedsOK ==
  \E k \in 0..MaxSeeds : seeds.entries = [n \in 1..k |-> [seed |-> n, root |-> RootOf(n)]]

(* The block is what the miner has made of its template so far.            *)
BlockOK ==
  /\ pc \in {"template", "listed", "mining"} =>
       \E p \in 0..MaxHeight, pay \in Pays : block = TemplateOf(p, pay)
  /\ pc \in {"made", "checked"} =>
       \E p \in 0..MaxHeight, pay \in Pays : block = MadeOf(p, pay)

(* The answer is CheckPoUW's for a block with the miner's proof, and what  *)
(* ConnectBlock has taken from an accepted block is what it reads there.   *)
AnswerOK ==
  /\ pc # "checked" => verdict = "none"
  /\ pc = "checked" =>
       /\ offered \in Variants(block, seeds) \cup {block}
       /\ verdict = CheckPoUW(offered)
       /\ Accepted => leaf = ParseCoinbasePoUWLeaf(offered) /\ BurnedBy(offered) \subseteq burned

BlockInv ==
  /\ tip \in 0..MaxHeight /\ signed \in Nat
  /\ pc \in {"idle", "template", "listed", "mining", "made", "checked"}
  /\ SeedsOK /\ BlockOK /\ AnswerOK
(* The initial state, before the miner has a template. *)
LEMMA BlockInit == Init => BlockInv
<1> SUFFICES ASSUME Init PROVE BlockInv
  BY Zenon
<1>1. SeedsOK
  <2>1. seeds.entries = <<>>
    BY Zenon DEF Init, NoSeeds
  <2>2. <<>> = [n \in 1..0 |-> [seed |-> n, root |-> RootOf(n)]] /\ 0 \in 0..MaxSeeds
    BY SeedCounts DEF SeedCounts
  <2> QED
    BY <2>1, <2>2, Zenon DEF SeedsOK
<1> QED
  BY <1>1, Zenon DEF Init, BlockInv, BlockOK, AnswerOK

(* A new tip, and the readings of it, leave the template alone. *)
LEMMA ReadingKeeps ==
  ASSUME BlockInv, TipMoves \/ ReadSeedsHeight \/ ReadNextHeight
  PROVE  BlockInv'
<1> USE ProofConstants DEF ProofConstants
<1>1. CASE TipMoves
  BY <1>1 DEF TipMoves, BlockInv, SeedsOK, BlockOK, AnswerOK, TemplateOf
<1>2. CASE ReadSeedsHeight
  <2>1. SeedsOK'
    <3>1. seeds'.entries = <<>>
      BY <1>2, Zenon DEF ReadSeedsHeight, NoSeeds
    <3>2. <<>> = [n \in 1..0 |-> [seed |-> n, root |-> RootOf(n)]] /\ 0 \in 0..MaxSeeds
      BY SeedCounts DEF SeedCounts
    <3> QED
      BY <3>1, <3>2, Zenon DEF SeedsOK
  <2> QED
    BY <1>2, <2>1, Zenon DEF ReadSeedsHeight, BlockInv, BlockOK, AnswerOK, TemplateOf
<1>3. CASE ReadNextHeight
  <2>1. SeedsOK' /\ AnswerOK'
    BY <1>3, Zenon DEF ReadNextHeight, BlockInv, SeedsOK, AnswerOK
  <2>2. BlockOK' /\ signed' \in Nat
    BY <1>3 DEF ReadNextHeight, BlockInv, BlockOK, TemplateOf
  <2> QED
    BY <1>3, <2>1, <2>2, Zenon DEF ReadNextHeight, BlockInv
<1> QED
  BY <1>1, <1>2, <1>3, Zenon

(* CreateNewBlock makes a template on the tip. *)
LEMMA TemplateKeeps ==
  ASSUME BlockInv, NEW pay \in Pays, CreateNewBlock(pay)
  PROVE  BlockInv'
<1>1. block' = TemplateOf(tip, pay)
  BY Zenon DEF CreateNewBlock, NoBlock, TemplateOf
<1>2. BlockOK'
  BY <1>1, Zenon DEF CreateNewBlock, BlockInv, BlockOK, TemplateOf
<1> QED
  BY <1>2, Zenon DEF CreateNewBlock, BlockInv, SeedsOK, AnswerOK

(* A tree above the target is the next entry of the list. *)
LEMMA FailKeeps ==
  ASSUME BlockInv, FailTree
  PROVE  BlockInv'
<1> USE SeedCounts DEF SeedCounts
<1>1. PICK k \in 0..MaxSeeds : seeds.entries = [n \in 1..k |-> [seed |-> n, root |-> RootOf(n)]]
  BY Zenon DEF BlockInv, SeedsOK
<1>2. Len(seeds.entries) = k /\ k \in Nat
  BY <1>1
<1>3. seeds' = AddFailedSeed(seeds, k + 1, RootOf(k + 1), seeds.height)
  BY <1>2, Zenon DEF FailTree
<1>4. SeedsOK'
  <2>1. CASE k >= MaxSeeds
    BY <1>1, <1>2, <1>3, <2>1, Zenon DEF AddFailedSeed, SeedsOK
  <2>2. CASE k < MaxSeeds
    <3>1. seeds'.entries = Append(seeds.entries, [seed |-> k + 1, root |-> RootOf(k + 1)])
      BY <1>2, <1>3, <2>2 DEF AddFailedSeed
    <3> DEFINE longer == [n \in 1..(k + 1) |-> [seed |-> n, root |-> RootOf(n)]]
    <3>2. seeds'.entries = longer
      BY <1>1, <1>2, <3>1
    <3>3. k + 1 \in 0..MaxSeeds
      BY <1>2, <2>2
    <3> QED
      BY <3>2, <3>3, Zenon DEF SeedsOK
  <2> QED
    BY <1>2, <2>1, <2>2
<1> QED
  BY <1>4, Zenon DEF FailTree, BlockInv, BlockOK, AnswerOK, TemplateOf

LEMMA TwoOutputs ==
  ASSUME NEW S, NEW a \in S, NEW b \in S
  PROVE  <<a, b>> \in Seq(S) /\ <<a, b>> = Append(Append(<<>>, a), b)
OBVIOUS

LEMMA ConcatOne ==
  ASSUME NEW S, NEW outs \in Seq(S), NEW o \in S
  PROVE  outs \o <<o>> = Append(outs, o)
OBVIOUS

(* EmbedProof makes the block with the proof. *)
LEMMA EmbedKeeps ==
  ASSUME BlockInv, EmbedProof
  PROVE  BlockInv'
<1>1. /\ pc = "mining" /\ pc' = "made"
      /\ UNCHANGED <<tip, seeds, signed, offered, verdict, leaf, burned>>
  BY Zenon DEF EmbedProof
<1>2. PICK p \in 0..MaxHeight, pay \in Pays : block = TemplateOf(p, pay)
  BY <1>1, Zenon DEF BlockInv, BlockOK
<1> DEFINE list == IF Enough THEN <<SeedsOut(seeds)>> ELSE <<>>
           root == IF Enough THEN SeedsRoot(seeds) ELSE NullRoot
<1>3. block' = [block EXCEPT !.leaf = WinnerLeaf,
                             !.outs = @ \o <<MinersProof(p, pay)>> \o list, !.croot = root]
  <2>1. ProofOut(Winner, WinnerLeaf, Preimage(block, signed)) = MinersProof(p, pay)
    BY <1>2, Zenon DEF MinersProof
  <2>2. block.croot = NullRoot
    BY <1>2, Zenon DEF TemplateOf
  <2> QED
    BY <2>1, <2>2, Zenon DEF EmbedProof, Enough
<1> DEFINE P == MinersProof(p, pay)
           L == SeedsOut(seeds)
           S == {pay, Witness, P, L}
           proved == Append(<<pay, Witness>>, P)
<1>4. (<<pay, Witness>> \o <<P>>) \o list = IF Enough THEN Append(proved, L) ELSE proved
  <2>1. <<pay, Witness>> \in Seq(S) /\ P \in S /\ L \in S
    BY TwoOutputs, Zenon
  <2> HIDE DEF S, P, L
  <2>2. <<pay, Witness>> \o <<P>> = proved /\ proved \in Seq(S)
    BY <2>1, ConcatOne
  <2> HIDE DEF proved
  <2>3. proved \o <<L>> = Append(proved, L)
    BY <2>1, <2>2, ConcatOne, Zenon
  <2>4. proved \o <<>> = proved
    BY <2>2
  <2> QED
    BY <2>2, <2>3, <2>4, Zenon DEF L
<1> HIDE DEF list, root, P, L
<1>5. block' = [prev |-> p, time |-> 0, txs |-> "template",
                outs |-> IF Enough THEN Append(proved, L) ELSE proved, leaf |-> WinnerLeaf,
                croot |-> root]
  <2>1. block' = [block EXCEPT !.leaf = WinnerLeaf, !.outs = (@ \o <<P>>) \o list, !.croot = root]
    BY <1>3, Zenon DEF P
  <2> HIDE DEF proved
  <2> QED
    BY <1>2, <1>4, <2>1, Zenon DEF TemplateOf
<1>6. block' = MadeOf(p, pay)
  BY <1>5, Zenon DEF MadeOf, root, P, L
<1>7. MadeOf(p, pay)' = MadeOf(p, pay)
  BY <1>1, Zenon DEF MadeOf, MinersProof, Enough
<1>8. BlockOK'
  BY <1>1, <1>6, <1>7, Zenon DEF BlockOK
<1> QED
  BY <1>1, <1>8, Zenon DEF BlockInv, SeedsOK, AnswerOK

(* A node's answer to a block, and what it then reads in the coinbase. *)
LEMMA OfferKeeps ==
  ASSUME BlockInv, pc = "made", NEW b \in Variants(block, seeds) \cup {block}, Offer(b)
  PROVE  BlockInv'
<1>1. /\ pc' = "checked" /\ offered' = b /\ verdict' = CheckPoUW(b)
      /\ UNCHANGED <<tip, block, seeds, signed>>
  BY Zenon DEF Offer
<1>2. verdict' = "accepted" => leaf' = ParseCoinbasePoUWLeaf(b) /\ BurnedBy(b) \subseteq burned'
  BY Zenon DEF Offer
<1>3. AnswerOK'
  BY <1>1, <1>2, Zenon DEF AnswerOK, Accepted
<1>4. BlockOK'
  BY <1>1, Zenon DEF BlockInv, BlockOK, MadeOf, MinersProof, Enough
<1> QED
  BY <1>1, <1>3, <1>4, Zenon DEF BlockInv, SeedsOK

(* BlockInv holds in every reachable state of the miner and the checking   *)
(* node.                                                                   *)
THEOREM BlockInvariance == Spec => []BlockInv
<1>1. BlockInv /\ [Next]_vars => BlockInv'
  <2> SUFFICES ASSUME BlockInv, [Next]_vars PROVE BlockInv'
    BY Zenon
  <2>1. CASE TipMoves \/ ReadSeedsHeight \/ ReadNextHeight
    BY <2>1, ReadingKeeps, Zenon
  <2>2. ASSUME NEW pay \in {PayHash, PayKey}, CreateNewBlock(pay) PROVE BlockInv'
    BY <2>2, TemplateKeeps, Zenon DEF Pays
  <2>3. CASE FailTree
    BY <2>3, FailKeeps, Zenon
  <2>4. CASE EmbedProof
    BY <2>4, EmbedKeeps, Zenon
  <2>5. ASSUME pc = "made", NEW b \in Variants(block, seeds) \cup {block}, Offer(b) PROVE BlockInv'
    BY <2>5, OfferKeeps, Zenon
  <2>6. CASE UNCHANGED vars
    BY <2>6, ZenonT(60) DEF vars, BlockInv, SeedsOK, BlockOK, AnswerOK, Accepted, MadeOf, MinersProof,
                Enough
  <2> QED
    BY <2>1, <2>2, <2>3, <2>4, <2>5, <2>6, Zenon DEF Next
<1> QED
  BY <1>1, BlockInit, PTL DEF Spec
------------------------------------------------------------------------------
(* What CheckPoUW's answer says. *)

(* The steps of CheckPoUW that an accepted block has passed. *)
LEMMA CheckAccepted ==
  ASSUME NEW b, CheckPoUW(b) = "accepted"
  PROVE  /\ Has(b.outs, "proof") /\ ~TooLarge(b.outs)
         /\ CheckPoUWv2(b, First(b.outs, "proof"), b.prev + 1)
         /\ Has(b.outs, "seeds") => Deserializes(First(b.outs, "seeds").data)
BY Zenon DEF CheckPoUW

(* The kinds of outputs. *)
LEMMA OutputKinds ==
  /\ PayHash.kind = "payhash" /\ PayKey.kind = "paykey" /\ Witness.kind = "witness"
  /\ \A pay \in Pays : pay.kind \in {"payhash", "paykey"}
  /\ \A p, pay : MinersProof(p, pay).kind = "proof"
  /\ \A list : SeedsOut(list).kind = "seeds"
  /\ \A o \in Strays : o.kind \in {"marker", "tagged", "long"}
BY DEF PayHash, PayKey, Witness, Pays, MinersProof, ProofOut, SeedsOut, Strays, Marker, Tagged, Long

(* The outputs that occur in the block and in its variants. *)
Outputs(p, pay) ==
  {PayHash, PayKey, Witness, MinersProof(p, pay), Padded(MinersProof(p, pay))}
  \cup Strays \cup {SeedsOut(list) : list \in OtherLists(seeds)}

(* Bytes after a proof do not change what it proves. *)
LEMMA PaddedProof ==
  ASSUME NEW p, NEW pay
  PROVE  LET P == MinersProof(p, pay)
         IN /\ Padded(P).key = P.key /\ Padded(P).leaf = P.leaf /\ Padded(P).over = P.over
            /\ Padded(P).kind = "proof" /\ P.bytes = ProofBytes
BY Zenon DEF Padded, MinersProof, ProofOut

LEMMA OutputsHold ==
  ASSUME NEW p, NEW pay \in Pays
  PROVE  /\ pay \in Outputs(p, pay) /\ PayHash \in Outputs(p, pay) /\ PayKey \in Outputs(p, pay)
         /\ Witness \in Outputs(p, pay) /\ MinersProof(p, pay) \in Outputs(p, pay)
         /\ \A list \in OtherLists(seeds) : SeedsOut(list) \in Outputs(p, pay)
         /\ seeds \in OtherLists(seeds)
         /\ Padded(MinersProof(p, pay)) \in Outputs(p, pay) /\ Strays \subseteq Outputs(p, pay)
         /\ \A o \in Outputs(p, pay) :
              o.kind = "proof" => o \in {MinersProof(p, pay), Padded(MinersProof(p, pay))}
<1>1. seeds \in OtherLists(seeds)
  BY Zenon DEF OtherLists
<1>2. ASSUME NEW o \in Outputs(p, pay), o.kind = "proof"
      PROVE  o \in {MinersProof(p, pay), Padded(MinersProof(p, pay))}
  BY <1>2, OutputKinds, Zenon DEF Outputs
<1> QED
  BY <1>1, <1>2, Zenon DEF Outputs, Pays

(* The outputs of the miner's block, one by one. *)
LEMMA MadeOuts ==
  ASSUME NEW p, NEW pay \in Pays
  PROVE  LET two == <<pay, Witness>>
             three == Append(two, MinersProof(p, pay))
         IN /\ two \in Seq(Outputs(p, pay)) /\ three \in Seq(Outputs(p, pay))
            /\ MadeOf(p, pay).outs \in Seq(Outputs(p, pay))
            /\ MadeOf(p, pay).outs = IF Enough THEN Append(three, SeedsOut(seeds)) ELSE three
            /\ Without(two, Stripped) = two
            /\ Without(MadeOf(p, pay).outs, Stripped) = two
            /\ First(MadeOf(p, pay).outs, "proof") = MinersProof(p, pay)
            /\ Has(MadeOf(p, pay).outs, "proof")
            /\ \A n \in DOMAIN MadeOf(p, pay).outs :
                 MadeOf(p, pay).outs[n] \in {pay, Witness, MinersProof(p, pay), SeedsOut(seeds)}
<1> DEFINE P == MinersProof(p, pay)
           L == SeedsOut(seeds)
           S == {pay, Witness, P, L}
           two == <<pay, Witness>>
           three == Append(two, P)
           K == Stripped
           outs == MadeOf(p, pay).outs
<1>1. pay \in S /\ Witness \in S /\ P \in S /\ L \in S
  BY Zenon
<1>2. P.kind = "proof" /\ L.kind = "seeds" /\ pay.kind \notin K /\ Witness.kind \notin K
  <2>1. P.kind = "proof" /\ L.kind = "seeds"
    BY OutputKinds, Zenon
  <2> QED
    BY <2>1, OutputKinds, Zenon DEF Stripped
<1>0. S \subseteq Outputs(p, pay)
  <2>1. pay \in Outputs(p, pay) /\ Witness \in Outputs(p, pay) /\ P \in Outputs(p, pay)
    BY OutputsHold, Zenon
  <2>2. L \in Outputs(p, pay)
    BY OutputsHold, Zenon
  <2> HIDE DEF P, L
  <2> QED
    BY <2>1, <2>2, Zenon
<1>3. outs = IF Enough THEN Append(three, L) ELSE three
  BY Zenon DEF MadeOf
<1>4. \A o \in S : o.kind = "proof" => o = P
  BY <1>2, OutputKinds, Zenon
<1>5. P.kind \in K /\ L.kind \in K
  BY <1>2, Zenon DEF Stripped
<1> HIDE DEF S, P, L, outs
<1>6. two \in Seq(S) /\ two = Append(Append(<<>>, pay), Witness)
  BY <1>1, TwoOutputs, Zenon
<1>7. Without(two, K) = two
  <2>1. <<>> \in Seq(S) /\ Append(<<>>, pay) \in Seq(S)
    BY <1>1
  <2>2. Without(Append(<<>>, pay), K) = Append(<<>>, pay)
    <3> HIDE DEF K
    <3> DEFINE none == <<>>
    <3>0. none \in Seq(S) /\ pay \in S
      BY <1>1, <2>1, Zenon
    <3> HIDE DEF none
    <3>1. Without(Append(none, pay), K) = IF pay.kind \in K THEN Without(none, K)
                                          ELSE Append(Without(none, K), pay)
      BY <3>0, WithoutAppend
    <3>2. Without(<<>>, K) = <<>>
      BY WithoutNone, Zenon
    <3> QED
      BY <1>2, <3>1, <3>2, Zenon DEF none
  <2>3. Without(Append(Append(<<>>, pay), Witness), K) = Append(Without(Append(<<>>, pay), K), Witness)
    <3> DEFINE one == Append(<<>>, pay)
    <3>1. one \in Seq(S) /\ Witness \in S /\ Witness.kind \notin K
      BY <1>1, <1>2, <2>1, Zenon
    <3> HIDE DEF K, one
    <3>2. Without(Append(one, Witness), K) = IF Witness.kind \in K THEN Without(one, K)
                                             ELSE Append(Without(one, K), Witness)
      BY <3>1, WithoutAppend, Zenon
    <3> QED
      BY <3>1, <3>2, Zenon DEF one
  <2> HIDE DEF two, K
  <2> QED
    BY <1>6, <2>2, <2>3, Zenon
<1> HIDE DEF two, K
<1>8. three \in Seq(S) /\ outs \in Seq(S)
  BY <1>1, <1>3, <1>6
<1>9. Without(three, K) = two
  <2>1. Without(Append(two, P), K) = IF P.kind \in K THEN Without(two, K)
                                     ELSE Append(Without(two, K), P)
    <3>1. two \in Seq(S) /\ P \in S
      BY <1>1, <1>6, Zenon
    <3> QED
      BY <3>1, WithoutAppend, Zenon
  <2> QED
    BY <1>5, <1>7, <2>1, Zenon
<1>10. Without(outs, K) = two
  <2> HIDE DEF three
  <2>1. Without(Append(three, L), K) = two
    BY <1>1, <1>5, <1>8, <1>9, WithoutAppend, Zenon
  <2> QED
    BY <1>3, <1>9, <2>1, Zenon
<1>11. Has(outs, "proof")
  <2>1. Len(two) = 2
    BY Zenon DEF two
  <2>2. 3 \in DOMAIN three /\ three[3] = P
    BY <1>1, <1>6, <2>1
  <2>3. 3 \in DOMAIN outs /\ outs[3] = P
    <3> HIDE DEF three
    <3> QED
      BY <1>1, <1>3, <1>8, <2>2
  <2> QED
    BY <1>2, <2>3, Zenon DEF Has
<1>12. First(outs, "proof") = P
  <2>1. PICK n \in DOMAIN outs : outs[n].kind = "proof" /\ First(outs, "proof") = outs[n]
    BY <1>8, <1>11, FirstOf, Zenon
  <2>2. outs[n] \in S
    BY <1>8
  <2> QED
    BY <1>2, <1>4, <2>1, <2>2, Zenon
<1>13. /\ two \in Seq(Outputs(p, pay)) /\ three \in Seq(Outputs(p, pay))
       /\ outs \in Seq(Outputs(p, pay))
  <2> HIDE DEF three
  <2> QED
    BY <1>0, <1>6, <1>8
<1>14. \A n \in DOMAIN outs : outs[n] \in S
  BY <1>8
<1> QED
  BY <1>3, <1>7, <1>10, <1>11, <1>12, <1>13, <1>14, Zenon DEF S, P, L, two, K, outs
(* The variants hold no other outputs; so their proof, if any, is the      *)
(* miner's.                                                                *)
LEMMA VariantOuts ==
  ASSUME NEW p, NEW pay \in Pays, block = MadeOf(p, pay),
         NEW b \in Variants(block, seeds) \cup {block}
  PROVE  b.outs \in Seq(Outputs(p, pay))
<1> DEFINE S == Outputs(p, pay)
           proof == <<First(block.outs, "proof")>>
<1>1. block = [prev |-> block.prev, time |-> block.time, txs |-> block.txs,
               outs |-> block.outs, leaf |-> block.leaf, croot |-> block.croot]
  BY Zenon DEF MadeOf
<1>2. block.outs \in Seq(S)
  BY MadeOuts, Zenon
<1>3. /\ PayHash \in S /\ PayKey \in S /\ Witness \in S /\ MinersProof(p, pay) \in S
      /\ \A list \in OtherLists(seeds) : SeedsOut(list) \in S
  BY OutputsHold, Zenon
<1>4. proof \in Seq(S)
  <2>1. First(block.outs, "proof") = MinersProof(p, pay)
    BY MadeOuts, Zenon
  <2> HIDE DEF S
  <2> QED
    BY <1>3, <2>1
<1>5. \A kinds : Without(block.outs, kinds) \in Seq(S)
  <2> TAKE kinds
  <2> HIDE DEF S
  <2>1. Without(block.outs, kinds) \in Seq({o \in S : o.kind \notin kinds})
    BY <1>2, WithoutType, Zenon
  <2> QED
    BY <2>1
<1>6. ASSUME NEW list \in OtherLists(seeds) PROVE Listing(list) \in Seq(S)
  <2> HIDE DEF S
  <2>1. SeedsOut(list) \in S
    BY <1>3, Zenon
  <2> QED
    BY <2>1 DEF Listing
<1>7. ASSUME NEW list \in OtherLists(seeds), NEW swapped \in BOOLEAN
      PROVE  Coinbase(block, list, swapped) \in Seq(S)
  <2>1. Pay(block) \in Seq(S)
    BY <1>5, Zenon DEF Pay
  <2>2. <<Witness>> \in Seq(S)
    <3> HIDE DEF S
    <3> QED
      BY <1>3
  <2>3. Listing(list) \in Seq(S)
    BY <1>6, Zenon
  <2> DEFINE head == Pay(block) \o <<Witness>>
             tail == IF swapped THEN Listing(list) \o proof ELSE proof \o Listing(list)
  <2> HIDE DEF S, proof
  <2>4. head \in Seq(S) /\ tail \in Seq(S)
    BY <1>4, <2>1, <2>2, <2>3
  <2>5. Coinbase(block, list, swapped) = head \o tail
    BY Zenon DEF Coinbase, proof
  <2> HIDE DEF head, tail
  <2> QED
    BY <2>4, <2>5
<1> HIDE DEF S, proof
<1>8. CASE b = block
  BY <1>2, <1>8, Zenon DEF S
<1>9. ASSUME NEW list \in OtherLists(seeds), NEW swapped \in BOOLEAN,
             b \in Relisted(block, list, swapped)
      PROVE  b.outs \in Seq(S)
  <2>1. PICK root : b = [block EXCEPT !.outs = Coinbase(block, list, swapped), !.croot = root]
    BY <1>9, Zenon DEF Relisted
  <2>2. b.outs = Coinbase(block, list, swapped)
    BY <1>1, <2>1, Zenon
  <2> QED
    BY <1>7, <2>2, Zenon
<1>10. CASE b \in {[block EXCEPT !.txs = "other"], [block EXCEPT !.time = 1],
                   [block EXCEPT !.leaf = 8], [block EXCEPT !.leaf = XMSSLeaves]}
  <2>1. b.outs = block.outs
    BY <1>1, <1>10, Zenon
  <2> QED
    BY <1>2, <2>1, Zenon DEF S
<1>11. CASE b = [block EXCEPT !.outs = <<PayHash, PayKey>> \o Tail(@)]
  <2>1. b.outs = <<PayHash, PayKey>> \o Tail(block.outs)
    BY <1>1, <1>11, Zenon
  <2>2. <<PayHash, PayKey>> \in Seq(S)
    BY <1>3, TwoOutputs, Zenon
  <2>3. Tail(block.outs) \in Seq(S)
    <3>1. Has(block.outs, "proof")
      BY MadeOuts, Zenon
    <3>2. block.outs # <<>>
      BY <3>1 DEF Has
    <3> QED
      BY <1>2, <3>2
  <2>4. <<PayHash, PayKey>> \o Tail(block.outs) \in Seq(S)
    BY <2>2, <2>3
  <2> QED
    BY <2>1, <2>4, Zenon DEF S
<1>12. CASE b = [block EXCEPT !.outs = Without(@, {"proof"})]
  <2>1. b.outs = Without(block.outs, {"proof"})
    BY <1>1, <1>12, Zenon
  <2> QED
    BY <1>5, <2>1, Zenon DEF S
<1>19. block.outs # <<>> /\ Head(block.outs) \in S /\ Tail(block.outs) \in Seq(S)
  <2>1. Has(block.outs, "proof")
    BY MadeOuts, Zenon
  <2>2. block.outs # <<>>
    BY <2>1 DEF Has
  <2> QED
    BY <1>2, <2>2
<1>20. CASE b = [block EXCEPT !.outs = <<Padded(First(@, "proof"))>> \o Without(@, {"proof"})]
  <2> DEFINE padded == Padded(First(block.outs, "proof"))
             others == Without(block.outs, {"proof"})
  <2>1. padded \in S
    BY MadeOuts, OutputsHold, Zenon DEF S
  <2>2. others \in Seq(S)
    BY <1>5, Zenon
  <2>3. b.outs = <<padded>> \o others
    BY <1>1, <1>20, Zenon
  <2> HIDE DEF padded, others
  <2>4. <<padded>> \o others \in Seq(S)
    BY <2>1, <2>2
  <2> QED
    BY <2>3, <2>4, Zenon DEF S
<1>21. ASSUME NEW x \in Strays, b \in Widened(block, x) PROVE b.outs \in Seq(S)
  <2>1. x \in S
    BY OutputsHold, Zenon DEF S
  <2>2. b.outs = <<Head(block.outs), x>> \o Tail(block.outs) \/ b.outs = Append(block.outs, x)
    BY <1>1, <1>21, Zenon DEF Widened
  <2>3. <<Head(block.outs), x>> \in Seq(S)
    BY <1>19, <2>1, TwoOutputs, Zenon
  <2>4. Append(block.outs, x) \in Seq(S)
    BY <1>2, <2>1
  <2> DEFINE front == <<Head(block.outs), x>>
             back == Tail(block.outs)
  <2>5. front \in Seq(S) /\ back \in Seq(S)
    BY <1>19, <2>3, Zenon
  <2> HIDE DEF front, back
  <2>6. front \o back \in Seq(S)
    BY <2>5
  <2> QED
    BY <2>2, <2>4, <2>6, Zenon DEF front, back
<1>13. ASSUME NEW h, b = [block EXCEPT !.prev = h] PROVE b.outs \in Seq(S)
  <2>1. b.outs = block.outs
    BY <1>1, <1>13, Zenon
  <2> QED
    BY <1>2, <2>1, Zenon
<1> DEFINE both(list) == Relisted(block, list, TRUE) \cup Relisted(block, list, FALSE)
           changed == {[block EXCEPT !.txs = "other"], [block EXCEPT !.time = 1],
                       [block EXCEPT !.leaf = 8], [block EXCEPT !.leaf = XMSSLeaves],
                       [block EXCEPT !.outs = <<PayHash, PayKey>> \o Tail(@)],
                       [block EXCEPT !.outs = Without(@, {"proof"})],
                       [block EXCEPT !.outs = <<Padded(First(@, "proof"))>> \o Without(@, {"proof"})]}
           widened == UNION {Widened(block, x) : x \in Strays}
           moved == {[block EXCEPT !.prev = h] : h \in 0..MaxHeight}
<1>14. Variants(block, seeds) =
         (UNION {both(list) : list \in OtherLists(seeds)}) \cup changed \cup widened \cup moved
  BY Zenon DEF Variants
<1>15. ASSUME NEW list \in OtherLists(seeds), b \in both(list) PROVE b.outs \in Seq(S)
  BY <1>9, <1>15, Zenon
<1>16. ASSUME b \in changed PROVE b.outs \in Seq(S)
  BY <1>10, <1>11, <1>12, <1>16, <1>20, Zenon DEF S
<1>17. ASSUME b \in moved PROVE b.outs \in Seq(S)
  BY <1>13, <1>17, Zenon
<1>22. ASSUME b \in widened PROVE b.outs \in Seq(S)
  BY <1>21, <1>22, Zenon
<1> HIDE DEF both, changed, widened, moved
<1>18. \/ b = block \/ b \in changed \/ b \in widened \/ b \in moved
       \/ \E list \in OtherLists(seeds) : b \in both(list)
  BY <1>14, Zenon
<1> QED
  BY <1>8, <1>15, <1>16, <1>17, <1>18, <1>22, Zenon DEF S

(* The proof of an accepted block proves what the miner's does. *)
LEMMA AcceptedProof ==
  ASSUME NEW p, NEW pay \in Pays, block = MadeOf(p, pay),
         NEW b \in Variants(block, seeds) \cup {block}, CheckPoUW(b) = "accepted"
  PROVE  /\ b.outs \in Seq(Outputs(p, pay))
         /\ CheckPoUWv2(b, MinersProof(p, pay), b.prev + 1)
<1>1. b.outs \in Seq(Outputs(p, pay))
  BY VariantOuts, Zenon
<1>2. Has(b.outs, "proof") /\ CheckPoUWv2(b, First(b.outs, "proof"), b.prev + 1)
  BY CheckAccepted, Zenon
<1>3. PICK n \in DOMAIN b.outs : b.outs[n].kind = "proof" /\ First(b.outs, "proof") = b.outs[n]
  BY <1>1, <1>2, FirstOf, Zenon
<1>4. b.outs[n] \in Outputs(p, pay)
  BY <1>1
<1>5. First(b.outs, "proof") \in {MinersProof(p, pay), Padded(MinersProof(p, pay))}
  BY <1>3, <1>4, OutputsHold, Zenon
<1>6. CheckPoUWv2(b, MinersProof(p, pay), b.prev + 1)
  BY <1>2, <1>5, PaddedProof, Zenon DEF CheckPoUWv2
<1> QED
  BY <1>1, <1>6, Zenon

(* The miner's proof is short enough. *)
LEMMA MadeFits ==
  ASSUME ListsFit, NEW p, NEW pay \in Pays, block = MadeOf(p, pay)
  PROVE  ~TooLarge(block.outs)
<1> SUFFICES ASSUME NEW n \in DOMAIN block.outs, block.outs[n].kind \in {"proof", "marker"},
                    block.outs[n].bytes > MaxData
             PROVE  FALSE
  BY Zenon DEF TooLarge
<1>1. block.outs[n] \in {pay, Witness, MinersProof(p, pay), SeedsOut(seeds)}
  BY MadeOuts, Zenon
<1>2. block.outs[n] = MinersProof(p, pay)
  BY <1>1, OutputKinds, Zenon
<1>3. block.outs[n].bytes = ProofBytes
  BY <1>2, PaddedProof, Zenon
<1> QED
  BY <1>3, ProofConstants DEF ListsFit, ProofBytes, ProofConstants

(* The seeds of the miner's block stand behind the proof. *)
LEMMA MadeSeeds ==
  ASSUME NEW p, NEW pay \in Pays, block = MadeOf(p, pay)
  PROVE  /\ Has(block.outs, "seeds") <=> Enough
         /\ Enough => First(block.outs, "seeds") = SeedsOut(seeds)
<1> DEFINE S == Outputs(p, pay)
           P == MinersProof(p, pay)
           L == SeedsOut(seeds)
           two == <<pay, Witness>>
           three == Append(two, P)
<1>1. /\ two \in Seq(S) /\ three \in Seq(S)
      /\ block.outs = IF Enough THEN Append(three, L) ELSE three
  BY MadeOuts, Zenon
<1>2. P.kind = "proof" /\ L.kind = "seeds" /\ pay.kind # "seeds" /\ Witness.kind # "seeds"
  <2>1. P.kind = "proof" /\ L.kind = "seeds"
    BY OutputKinds, Zenon
  <2> QED
    BY <2>1, OutputKinds, Zenon
<1>3. P \in S /\ L \in S
  BY OutputsHold, Zenon
<1>4. Len(two) = 2 /\ two[1] = pay /\ two[2] = Witness
  BY Zenon
<1> HIDE DEF S, P, L, two
<1>5. Len(three) = 3 /\ three[1] = pay /\ three[2] = Witness /\ three[3] = P
  <2>1. /\ Len(three) = Len(two) + 1 /\ three[Len(two) + 1] = P
        /\ \A n \in 1..Len(two) : three[n] = two[n]
    <3>1. two \in Seq(S) /\ P \in S
      BY <1>1, <1>3, Zenon
    <3> QED
      BY <3>1, AppendIs
  <2> HIDE DEF three
  <2> QED
    BY <1>4, <2>1
<1> HIDE DEF three
<1>6. \A n \in DOMAIN three : three[n].kind # "seeds"
  <2>1. DOMAIN three = 1..3
    BY <1>1, <1>5
  <2> QED
    BY <1>2, <1>5, <2>1
<1>7. ASSUME ~Enough PROVE ~Has(block.outs, "seeds")
  BY <1>1, <1>6, <1>7, Zenon DEF Has
<1>8. ASSUME Enough PROVE Has(block.outs, "seeds") /\ First(block.outs, "seeds") = L
  <2> DEFINE four == Append(three, L)
  <2>1. /\ four \in Seq(S) /\ DOMAIN four = 1..4 /\ four[4] = L
        /\ \A n \in 1..3 : four[n] = three[n] /\ n \in DOMAIN three
    <3>1. three \in Seq(S) /\ L \in S /\ DOMAIN three = 1..3
      BY <1>1, <1>3, <1>5
    <3>2. /\ four \in Seq(S) /\ Len(four) = 4 /\ four[4] = L
          /\ \A n \in 1..3 : four[n] = three[n]
      <4>1. /\ four \in Seq(S) /\ Len(four) = Len(three) + 1 /\ four[Len(three) + 1] = L
            /\ \A n \in 1..Len(three) : four[n] = three[n]
        <5>1. three \in Seq(S)
          BY <3>1, Zenon
        <5>2. L \in S
          BY <3>1, Zenon
        <5> QED
          BY <5>1, <5>2, AppendIs
      <4> HIDE DEF four
      <4> QED
        BY <1>5, <4>1
    <3> HIDE DEF four
    <3> QED
      BY <3>1, <3>2
  <2> HIDE DEF four
  <2>2. Has(four, "seeds")
    BY <1>2, <2>1 DEF Has
  <2>3. PICK n \in DOMAIN four : four[n].kind = "seeds" /\ First(four, "seeds") = four[n]
    <3>1. four \in Seq(S)
      BY <2>1, Zenon
    <3> QED
      BY <2>2, <3>1, FirstOf, Zenon
  <2>4. n = 4
    BY <1>6, <2>1, <2>3
  <2> QED
    BY <1>1, <1>8, <2>1, <2>2, <2>3, <2>4 DEF four
<1> QED
  BY <1>7, <1>8, Zenon DEF L
(* The miner's proof is good for its own block exactly if the two heights  *)
(* call for the same form of the preimage.                                 *)
LEMMA OwnProofGood ==
  ASSUME NEW p \in Nat, NEW pay \in Pays, block = MadeOf(p, pay), signed \in Nat
  PROVE  CheckPoUWv2(block, MinersProof(p, pay), p + 1) <=>
           ((p + 1 >= V3Height) <=> (signed >= V3Height))
<1> DEFINE two == <<pay, Witness>>
           base == <<two, "template">>
<1>1. BaseRoot(block) = base /\ BaseRoot(TemplateOf(p, pay)) = base
  BY MadeOuts, Zenon DEF BaseRoot, MadeOf, TemplateOf
<1>2. base # <<>>
  BY Zenon
<1> HIDE DEF base
<1>3. Preimage(block, p + 1) =
        [prev |-> p, time |-> 0, base |-> IF p + 1 >= V3Height THEN base ELSE <<>>]
  BY <1>1, Zenon DEF Preimage, MadeOf
<1>4. MinersProof(p, pay).over =
        [prev |-> p, time |-> 0, base |-> IF signed >= V3Height THEN base ELSE <<>>]
  BY <1>1, Zenon DEF MinersProof, ProofOut, Preimage, TemplateOf
<1>5. (MinersProof(p, pay).over = Preimage(block, p + 1)) <=>
        ((p + 1 >= V3Height) <=> (signed >= V3Height))
  BY <1>2, <1>3, <1>4
<1>6. /\ MinersProof(p, pay).leaf = block.leaf
      /\ RootOf(MinersProof(p, pay).key) <= Target
  BY DEF MinersProof, ProofOut, MadeOf, RootOf, Target, Winner
<1> QED
  BY <1>5, <1>6, Zenon DEF CheckPoUWv2

(* The list in the miner's block is the list it has kept, and passes.      *)
LEMMA OwnListGood ==
  ASSUME ListsFit, SeedsOK, Enough, NEW height
  PROVE  LET data == SeedsOut(seeds).data IN
         /\ ~(HeaderBytes + EntryBytes * Len(data.body) > MaxData)
         /\ Deserializes(data)
         /\ \A b : b.croot = SeedsRoot(seeds) =>
              SeedsVerdict(b, Deserialize(data), height) = "accepted"
<1> USE SeedCounts, ProofConstants DEF SeedCounts, ProofConstants
<1> DEFINE data == SeedsOut(seeds).data
           list == Deserialize(data)
<1>1. PICK k \in 0..MaxSeeds : seeds.entries = [n \in 1..k |-> [seed |-> n, root |-> RootOf(n)]]
  BY Zenon DEF SeedsOK
<1>2. Len(seeds.entries) = k /\ k \in Nat /\ k >= MinSeeds /\ k <= MaxSeeds
  BY <1>1 DEF Enough
<1>3. data = [count |-> k, height |-> seeds.height, body |-> seeds.entries]
  BY <1>2, Zenon DEF SeedsOut, Serialize
<1>4. ~(HeaderBytes + EntryBytes * Len(data.body) > MaxData)
  BY <1>2, <1>3 DEF ListsFit, HeaderBytes, EntryBytes
<1>5. Deserializes(data)
  BY <1>2, <1>3 DEF Deserializes
<1>6. list.entries = seeds.entries /\ list.height = seeds.height
  <2>1. seeds.entries \in Seq({[seed |-> n, root |-> RootOf(n)] : n \in 1..k})
    BY <1>1, <1>2
  <2>2. SubSeq(seeds.entries, 1, k) = seeds.entries
    BY <1>2, <2>1
  <2> QED
    BY <1>3, <2>2 DEF Deserialize
<1>7. SeedsRoot(list) = SeedsRoot(seeds) /\ Len(list.entries) >= MinSeeds
  BY <1>2, <1>6, Zenon DEF SeedsRoot
<1>8. \A n \in DOMAIN list.entries : /\ ~(list.entries[n].root <= Target)
                                     /\ list.entries[n].root = RootOf(list.entries[n].seed)
  BY <1>1, <1>2, <1>6 DEF RootOf, Target
<1> HIDE DEF list, data
<1>9. ASSUME NEW b, b.croot = SeedsRoot(seeds) PROVE SeedsVerdict(b, list, height) = "accepted"
  <2>1. VerifyAgainstHeader(list, b.croot)
    BY <1>7, <1>9, Zenon DEF VerifyAgainstHeader
  <2> QED
    BY <1>8, <2>1, Zenon DEF SeedsVerdict
<1> QED
  BY <1>4, <1>5, <1>9, Zenon DEF list, data

(* GenerateBlock's own block passes CheckPoUW unless the tip moved across  *)
(* nPoUWv3StartHeight, for every number of failed trees, if a proof and    *)
(* the longest list fit into the coinbase.                                 *)
THEOREM OwnBlockAccepted ==
  ASSUME ListsFit
  PROVE  Spec => []OwnBlockPasses
<1>1. ASSUME BlockInv, pc = "checked", offered = block
      PROVE  Accepted <=> ((block.prev + 1 >= V3Height) <=> (signed >= V3Height))
  <2>1. PICK p \in 0..MaxHeight, pay \in Pays : block = MadeOf(p, pay)
    BY <1>1, Zenon DEF BlockInv, BlockOK
  <2>2. p \in Nat /\ block.prev = p /\ block.leaf = WinnerLeaf
        /\ block.croot = IF Enough THEN SeedsRoot(seeds) ELSE NullRoot
    BY <2>1, ProofConstants DEF MadeOf, ProofConstants
  <2>3. Has(block.outs, "proof") /\ First(block.outs, "proof") = MinersProof(p, pay)
    BY <2>1, MadeOuts, Zenon
  <2> DEFINE good == CheckPoUWv2(block, First(block.outs, "proof"), block.prev + 1)
  <2>4. good <=> ((block.prev + 1 >= V3Height) <=> (signed >= V3Height))
    BY <1>1, <2>1, <2>2, <2>3, OwnProofGood, Zenon DEF BlockInv
  <2>5. ~(block.leaf >= XMSSLeaves) /\ ~TooLarge(block.outs)
    <3>1. ~TooLarge(block.outs)
      BY <2>1, MadeFits, Zenon
    <3> QED
      BY <2>2, <3>1 DEF WinnerLeaf, XMSSLeaves
  <2>6. verdict = CheckPoUW(block)
    BY <1>1, Zenon DEF BlockInv, AnswerOK
  <2> HIDE DEF good
  <2>7. ~good => verdict = "pouw-v2-invalid"
    BY <2>3, <2>5, <2>6, Zenon DEF CheckPoUW, good
  <2>8. ASSUME good PROVE verdict = "accepted"
    <3>1. CASE ~Enough
      <4>1. ~Has(block.outs, "seeds")
        BY <2>1, <3>1, MadeSeeds, Zenon
      <4> QED
        BY <2>2, <2>3, <2>5, <2>6, <2>8, <3>1, <4>1, Zenon DEF CheckPoUW, good
    <3>2. CASE Enough
      <4>1. Has(block.outs, "seeds") /\ First(block.outs, "seeds") = SeedsOut(seeds)
        BY <2>1, <3>2, MadeSeeds, Zenon
      <4> DEFINE data == SeedsOut(seeds).data
      <4>2. /\ ~(HeaderBytes + EntryBytes * Len(data.body) > MaxData) /\ Deserializes(data)
            /\ SeedsVerdict(block, Deserialize(data), block.prev + 1) = "accepted"
        BY <1>1, <2>2, <3>2, OwnListGood, Zenon DEF BlockInv
      <4> HIDE DEF data
      <4>3. First(block.outs, "seeds").data = data
        BY <4>1, Zenon DEF data
      <4> QED
        BY <2>3, <2>5, <2>6, <2>8, <4>1, <4>2, <4>3, Zenon DEF CheckPoUW, good
    <3> QED
      BY <3>1, <3>2, Zenon
  <2>9. Accepted <=> good
    BY <2>7, <2>8, Zenon DEF Accepted
  <2> QED
    BY <2>4, <2>9, Zenon
<1>2. BlockInv => OwnBlockPasses
  BY <1>1, Zenon DEF OwnBlockPasses
<1> QED
  BY <1>2, BlockInvariance, PTL
(* From nPoUWv3StartHeight CheckPoUW accepts a proof only with the parent, *)
(* time, leaf, transactions and payouts that the miner signed.             *)
THEOREM ProofBindsItsBlock == Spec => []ProofBindsBlock
<1>1. ASSUME BlockInv, Accepted, offered.prev + 1 >= V3Height
      PROVE  /\ offered.prev = block.prev /\ offered.time = block.time
             /\ offered.leaf = block.leaf /\ offered.txs = block.txs
             /\ Pay(offered) = Pay(block)
  <2>1. pc = "checked" /\ offered \in Variants(block, seeds) \cup {block}
        /\ CheckPoUW(offered) = "accepted"
    BY <1>1, Zenon DEF BlockInv, AnswerOK, Accepted
  <2>2. PICK p \in 0..MaxHeight, pay \in Pays : block = MadeOf(p, pay)
    BY <1>1, <2>1, Zenon DEF BlockInv, BlockOK
  <2> DEFINE S == Outputs(p, pay)
             two == <<pay, Witness>>
             K == Stripped
             A == {"witness"} \cup Stripped
  <2>3. offered.outs \in Seq(S) /\ CheckPoUWv2(offered, MinersProof(p, pay), offered.prev + 1)
    BY <2>1, <2>2, AcceptedProof, Zenon
  <2>4. /\ block.outs \in Seq(S) /\ two \in Seq(S)
        /\ Without(two, K) = two /\ Without(block.outs, K) = two
    BY <2>2, MadeOuts, Zenon
  <2>5. /\ MinersProof(p, pay).leaf = offered.leaf
        /\ MinersProof(p, pay).over = Preimage(offered, offered.prev + 1)
    BY <2>3, Zenon DEF CheckPoUWv2
  <2>6. /\ MinersProof(p, pay).leaf = WinnerLeaf
        /\ MinersProof(p, pay).over =
             [prev |-> p, time |-> 0, base |-> IF signed >= V3Height THEN <<two, "template">> ELSE <<>>]
    BY <2>4, Zenon DEF MinersProof, ProofOut, Preimage, BaseRoot, TemplateOf
  <2>7. /\ block.prev = p /\ block.time = 0 /\ block.txs = "template" /\ block.leaf = WinnerLeaf
    BY <2>2, Zenon DEF MadeOf
  <2> DEFINE kept == Without(offered.outs, K)
  <2>8. Preimage(offered, offered.prev + 1) =
          [prev |-> offered.prev, time |-> offered.time, base |-> <<kept, offered.txs>>]
    BY <1>1, Zenon DEF Preimage, BaseRoot
  <2> HIDE DEF two, kept
  <2>9. /\ offered.prev = p /\ offered.time = 0
        /\ <<kept, offered.txs>> = IF signed >= V3Height THEN <<two, "template">> ELSE <<>>
    <3> DEFINE base == IF signed >= V3Height THEN <<two, "template">> ELSE <<>>
               own == <<kept, offered.txs>>
    <3> HIDE DEF base, own
    <3>1. [prev |-> offered.prev, time |-> offered.time, base |-> own] =
            [prev |-> p, time |-> 0, base |-> base]
      BY <2>5, <2>6, <2>8, ZenonT(60) DEF base, own, two
    <3>2. offered.prev = p /\ offered.time = 0 /\ own = base
      BY <3>1, Zenon
    <3> QED
      BY <3>2, Zenon DEF base, own
  <2>10. kept = two /\ offered.txs = "template"
    BY <2>9, Zenon
  <2>11. Pay(offered) = Pay(block)
    <3>1. K \subseteq A
      BY Zenon
    <3> HIDE DEF S, K, A
    <3>2. Without(Without(offered.outs, K), A) = Without(offered.outs, A)
      BY <2>3, <3>1, WithoutTwice, Zenon
    <3>3. Without(Without(block.outs, K), A) = Without(block.outs, A)
      BY <2>4, <3>1, WithoutTwice
    <3> QED
      BY <2>4, <2>10, <3>2, <3>3, Zenon DEF kept, Pay, A
  <2> QED
    BY <2>5, <2>6, <2>7, <2>9, <2>10, <2>11, Zenon
<1>2. BlockInv => ProofBindsBlock
  BY <1>1, Zenon DEF ProofBindsBlock
<1> QED
  BY <1>2, BlockInvariance, PTL

(* ParseCoinbasePoUWLeaf stops at the output CheckPoUW has verified, if    *)
(* only payouts and the witness commitment stand before it.                *)
LEMMA ParsedIsProved ==
  ASSUME NEW S, NEW b, b.outs \in Seq(S), Has(b.outs, "proof"), ProofFollowsPayouts(b.outs)
  PROVE  ParseCoinbasePoUWLeaf(b) = <<First(b.outs, "proof").key, b.leaf>>
<1> DEFINE hits == {n \in DOMAIN b.outs :
                      \/ ReadsAsProof(b.outs[n])
                      \/ ReadsAsSignature(b.outs[n]) /\ \E k \in 1..(n - 1) : ReadsAsKey(b.outs[k])}
<1>1. PICK m \in DOMAIN b.outs :
        /\ b.outs[m].kind = "proof" /\ First(b.outs, "proof") = b.outs[m]
        /\ \A k \in DOMAIN b.outs : b.outs[k].kind = "proof" => m <= k
  BY FirstIs, Zenon
<1>2. DOMAIN b.outs \subseteq Nat
  OBVIOUS
<1>3. hits \in SUBSET Nat /\ m \in hits
  BY <1>1, <1>2, Zenon DEF ReadsAsProof
<1>4. ASSUME NEW n \in hits PROVE m <= n
  <2>1. n \in DOMAIN b.outs /\ b.outs[n].kind \in {"proof", "marker", "tagged", "seeds", "long"}
    BY Zenon DEF ReadsAsProof, ReadsAsSignature
  <2>2. b.outs[n].kind \notin {"payhash", "paykey", "witness"}
    BY <2>1, Zenon
  <2>3. PICK k \in 1..n : b.outs[k].kind = "proof"
    BY <2>1, <2>2, Zenon DEF ProofFollowsPayouts
  <2>4. k \in DOMAIN b.outs /\ k <= n /\ n \in Nat /\ k \in Nat /\ m \in Nat
    BY <2>1
  <2>5. m <= k
    BY <1>1, <2>3, <2>4, Zenon
  <2> HIDE DEF hits
  <2> QED
    BY <2>4, <2>5
<1>5. ParseCoinbasePoUWLeaf(b) =
        IF hits = {} THEN <<>>
        ELSE IF ReadsAsProof(b.outs[Min(hits)]) THEN <<b.outs[Min(hits)].key, b.leaf>>
        ELSE <<PaidKey, FirstBytes>>
  BY Zenon DEF ParseCoinbasePoUWLeaf
<1> HIDE DEF hits
<1>6. Min(hits) = m
  <2>1. Min(hits) \in hits /\ \A y \in hits : Min(hits) <= y
    BY <1>3, MinIsLeast, Zenon
  <2>2. Min(hits) <= m /\ m <= Min(hits)
    BY <1>3, <1>4, <2>1, Zenon
  <2>3. Min(hits) \in Nat /\ m \in Nat
    BY <1>3, <2>1, ZenonT(60)
  <2> QED
    BY <2>2, <2>3
<1> QED
  BY <1>1, <1>3, <1>5, <1>6, Zenon DEF ReadsAsProof

(* ConnectBlock marks the leaf that CheckPoUW has verified, when only      *)
(* payouts and the witness commitment stand before the proof, also when    *)
(* the block pays to a bare public key.                                    *)
THEOREM MarkedLeafProved == Spec => []MarkedLeafIsProved
<1>1. ASSUME BlockInv, Accepted, ProofFollowsPayouts(offered.outs)
      PROVE  leaf = <<First(offered.outs, "proof").key, offered.leaf>>
  <2>1. /\ pc = "checked" /\ offered \in Variants(block, seeds) \cup {block}
        /\ CheckPoUW(offered) = "accepted" /\ leaf = ParseCoinbasePoUWLeaf(offered)
    BY <1>1, Zenon DEF BlockInv, AnswerOK, Accepted
  <2>2. PICK p \in 0..MaxHeight, pay \in Pays : block = MadeOf(p, pay)
    BY <1>1, <2>1, Zenon DEF BlockInv, BlockOK
  <2>3. offered.outs \in Seq(Outputs(p, pay))
    BY <2>1, <2>2, VariantOuts, Zenon
  <2>4. Has(offered.outs, "proof")
    BY <2>1, CheckAccepted, Zenon
  <2> QED
    BY <1>1, <2>1, <2>3, <2>4, ParsedIsProved, Zenon
<1>2. BlockInv => MarkedLeafIsProved
  BY <1>1, Zenon DEF MarkedLeafIsProved
<1> QED
  BY <1>2, BlockInvariance, PTL

(* ConnectBlock enters every address that an accepted block publishes into *)
(* DB_POUW_BURNED_ADDR.                                                    *)
THEOREM PublishedAddressesBurned == Spec => []PublishedIsBurned
<1>1. ASSUME BlockInv, Accepted PROVE Range(Listed(offered)) \subseteq burned
  <2>1. CheckPoUW(offered) = "accepted" /\ BurnedBy(offered) \subseteq burned
    BY <1>1, Zenon DEF BlockInv, AnswerOK, Accepted
  <2>2. CASE Has(offered.outs, "seeds")
    <3>1. Deserializes(First(offered.outs, "seeds").data)
      BY <2>1, <2>2, CheckAccepted, Zenon
    <3> QED
      BY <2>1, <2>2, <3>1, Zenon DEF BurnedBy, Listed
  <2>3. CASE ~Has(offered.outs, "seeds")
    BY <2>3 DEF Listed, Range
  <2> QED
    BY <2>2, <2>3, Zenon
<1>2. BlockInv => PublishedIsBurned
  BY <1>1, Zenon DEF PublishedIsBurned
<1> QED
  BY <1>2, BlockInvariance, PTL
=============================================================================
