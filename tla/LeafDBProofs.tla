---------------------------- MODULE LeafDBProofs ----------------------------
(***************************************************************************)
(* Proofs about LeafDB: for every number of blocks, every tree of them and *)
(* every order of arrival, the leaf tables follow the active chain through *)
(* reorganisations, operator commands, restarts and flushes that were cut  *)
(* short.                                                                  *)
(***************************************************************************)
EXTENDS LeafDB, WellFoundedInduction, SequenceTheorems, TLAPS

-----------------------------------------------------------------------------
(* The inductive invariant *)

\* GetAncestor: the blocks on the way to b are numbered below it, and the way
\* to each of them is the part of b's way that ends there.
PathsOK(p) ==
    /\ p \in [0..N -> Seq(Block)] /\ p[0] = <<>>
    /\ \A b \in Block : Len(p[b]) > 0 /\ p[b][Len(p[b])] = b
    /\ \A b \in 0..N : \A i \in 1..Len(p[b]) : p[p[b][i]] = SubSeq(p[b], 1, i)

WorldOK == PathsOK(path) /\ cb \in [Block -> Block] /\ spends \in [Block -> Seq(SpendLeaf)]

\* ActivateBestChain: while it has a target, the target is a stored valid chain
\* longer than the active one, and InvalidateBlock is not under way.
ActivationOK ==
    /\ old # NoStep => most # 0
    /\ most # 0 => Candidate(most) /\ Len(chain) < Height(most) /\ unwinding = 0
    /\ unwinding # 0 => unwinding \in Range(chain)
    /\ Range(path[coins]) \subseteq have

\* MinedElsewhere by a block whose data is stored.
MinedByStored(l, b, h) == \E c \in h \ {b} : cb[c] = l

\* What the tables d hold of the leaves that chain c uses, and c's spends; h is
\* the set of stored blocks.
Exact(d, c) ==
    /\ \A l \in Leaf : d.leaf[l] # 0 => d.leaf[l] \in Range(c) /\ l \in Uses(d.leaf[l])
    /\ \A b \in Block : d.list[b] = IF b \in Range(c) THEN Range(SpendUses(b)) ELSE {}

Covered(d, c, h) ==
    \A b \in Range(c) : \A l \in Uses(b) : d.leaf[l] # 0 \/ MinedByStored(l, b, h)

SpendsOnce(c, h) ==
    \A j \in 1..Len(c) :
      /\ IsInjective(SpendUses(c[j])) /\ cb[c[j]] \notin Range(SpendUses(c[j]))
      /\ \A i \in 1..(j - 1) : \A l \in Range(SpendUses(c[j])) \cap Uses(c[i]) :
           MinedByStored(l, c[i], h)

TablesOK(d, c, h) ==
    /\ d.leaf \in [Leaf -> 0..N] /\ d.list \in [Block -> SUBSET Leaf]
    /\ Exact(d, c) /\ Covered(d, c, h) /\ SpendsOnce(c, h)

\* The active chain is the path of a block.
ChainOK == \E t \in 0..N : chain = path[t]

\* TypeOK, in two parts: what it says of the chain, and the rest without the
\* tables.
ChainTyped == chain = path[Tip] /\ Range(chain) \subseteq have /\ ~Failed(Tip)

RestTyped ==
    /\ have \subseteq Block /\ failed \subseteq Block /\ condemned \subseteq Block
    /\ lock \in BOOLEAN /\ most \in 0..N /\ start \in 0..N /\ old \in NoStep..N
    /\ coins \in 0..N /\ disk \in [have: SUBSET Block, failed: SUBSET Block]
    /\ unwinding \in 0..N /\ events \in 0..MaxEvents

LeafDBInv ==
    /\ WorldOK /\ ChainOK /\ ChainTyped /\ RestTyped /\ ActivationOK
    /\ TablesOK(Tables, chain, have) /\ FailedOnlyByReuse
-----------------------------------------------------------------------------
(* Numbers and paths *)

\* A set of natural numbers has a least element; this takes the place of
\* induction below.
LEMMA LeastNumber ==
    ASSUME NEW S \in SUBSET Nat, S # {}
    PROVE  \E x \in S : \A y \in S : x <= y
<1>1. PICK x \in S : \A y \in S : ~(<<y, x>> \in OpToRel(<, Nat))
  BY WFMin, NatLessThanWellFounded, Zenon
<1>2. \A y \in S : ~(y < x)
  BY <1>1, Zenon DEF OpToRel
<1> QED
  BY <1>2

LEMMA NumberOfBlocks == N \in Nat
BY LeafDBConstantsOK, Zenon DEF LeafDBConstantsOK

\* One step of a path, for the blocks up to n.
PathStep(p, f, n) ==
    /\ f \in [0..n -> Seq(Block)] /\ f[0] = <<>>
    /\ \A b \in 1..n : f[b] = Append(f[p[b]], b)

\* The recursion of PathsOf is well defined, since a parent has a smaller
\* number.
LEMMA PathsExist ==
    ASSUME NEW p \in [Block -> 0..N], \A b \in Block : p[b] < b
    PROVE  \A n \in 0..N : \E f : PathStep(p, f, n)
<1> USE NumberOfBlocks DEF Block
<1> DEFINE Bad == {n \in 0..N : ~ \E f : PathStep(p, f, n)}
<1>1. SUFFICES ASSUME Bad # {} PROVE FALSE
  BY Zenon
<1>2. PICK n \in Bad : \A k \in Bad : n <= k
  <2>1. Bad \in SUBSET Nat
    OBVIOUS
  <2> HIDE DEF Bad
  <2> QED
    BY <1>1, <2>1, LeastNumber, Zenon
<1>3. CASE n = 0
  <2>1. PathStep(p, [b \in 0..0 |-> <<>>], 0)
    BY DEF PathStep
  <2> QED
    BY <1>2, <1>3, <2>1, Zenon
<1>4. CASE n # 0
  <2>1. n - 1 \in 0..N /\ n - 1 \notin Bad /\ n \in 1..N
    BY <1>2, <1>4
  <2>2. PICK f : PathStep(p, f, n - 1)
    BY <2>1, Zenon
  <2> DEFINE g == [b \in 0..n |-> IF b = n THEN Append(f[p[n]], n) ELSE f[b]]
  <2>3. p[n] \in 0..(n - 1) /\ f[p[n]] \in Seq(Block) /\ Append(f[p[n]], n) \in Seq(Block)
    <3>1. p[n] \in 0..(n - 1)
      BY <2>1
    <3>2. f[p[n]] \in Seq(Block) /\ n \in Block
      BY <2>1, <2>2, <3>1, Zenon DEF PathStep
    <3> HIDE DEF Block
    <3> QED
      BY <3>1, <3>2, AppendProperties, Zenon
  <2>4. g \in [0..n -> Seq(Block)] /\ g[0] = <<>>
    <3> HIDE DEF Block
    <3>1. \A b \in 0..n : b # n => b \in 0..(n - 1)
      BY <2>1
    <3>2. \A b \in 0..(n - 1) : f[b] \in Seq(Block)
      BY <2>2, Zenon DEF PathStep
    <3>3. f[0] = <<>>
      BY <2>2, Zenon DEF PathStep
    <3> QED
      BY <1>4, <2>1, <2>3, <3>1, <3>2, <3>3
  <2>5. ASSUME NEW b \in 1..n PROVE g[b] = Append(g[p[b]], b)
    <3>1. p[b] \in 0..(n - 1) /\ b \in 0..n /\ p[b] \in 0..n /\ p[b] # n
      BY <2>1
    <3>2. g[p[b]] = f[p[b]]
      BY <3>1, Zenon
    <3>3. CASE b = n
      BY <3>1, <3>2, <3>3, Zenon
    <3>4. CASE b # n
      <4>1. b \in 1..(n - 1) /\ g[b] = f[b]
        BY <3>4, <2>1
      <4> QED
        BY <3>2, <4>1, <2>2, Zenon DEF PathStep
    <3> QED
      BY <3>3, <3>4, Zenon
  <2> HIDE DEF g
  <2>6. PathStep(p, g, n)
    BY <2>4, <2>5, Zenon DEF PathStep
  <2> QED
    BY <1>2, <2>6, Zenon
<1> QED
  BY <1>3, <1>4, Zenon

LEMMA PathsOfStep ==
    ASSUME NEW p \in [Block -> 0..N], \A b \in Block : p[b] < b
    PROVE  PathStep(p, PathsOf(p), N)
<1> USE NumberOfBlocks
<1> DEFINE R(t) == [b \in 0..N |-> IF b = 0 THEN <<>> ELSE Append(t[p[b]], b)]
           to == CHOOSE t : t = R(t)
<1>1. PICK f : PathStep(p, f, N)
  BY PathsExist
<1>2. f = R(f)
  <2>1. \A b \in 0..N : f[b] = R(f)[b]
    BY <1>1 DEF PathStep
  <2>2. f = [b \in 0..N |-> f[b]] /\ R(f) = [b \in 0..N |-> R(f)[b]]
    BY <1>1, Zenon DEF PathStep
  <2> QED
    BY <2>1, <2>2, Zenon
<1> HIDE DEF R
<1>3. to = R(to)
  BY <1>2, Zenon
<1>4. PathsOf(p) = [b \in 0..N |-> to[b]]
  BY Zenon DEF PathsOf, R
<1>5. \A b \in 0..N : to[b] = IF b = 0 THEN <<>> ELSE Append(to[p[b]], b)
  BY <1>3, Zenon DEF R
<1> HIDE DEF to
<1>6. \A b \in Block : p[b] \in 0..N /\ PathsOf(p)[b] = Append(PathsOf(p)[p[b]], b)
  <2>1. \A b \in Block : p[b] \in 0..N /\ b \in 0..N /\ b # 0
    BY DEF Block
  <2>2. \A b \in 0..N : PathsOf(p)[b] = to[b]
    BY <1>4, Zenon
  <2> QED
    BY <1>5, <2>1, <2>2, Zenon
<1>7. PathsOf(p)[0] = <<>>
  BY <1>4, <1>5
<1>8. ASSUME NEW b \in 0..N PROVE PathsOf(p)[b] = f[b]
  <2> DEFINE Bad == {n \in 0..N : PathsOf(p)[n] # f[n]}
  <2>1. SUFFICES ASSUME Bad # {} PROVE FALSE
    BY Zenon
  <2>2. PICK n \in Bad : \A k \in Bad : n <= k
    <3>1. Bad \in SUBSET Nat
      OBVIOUS
    <3> HIDE DEF Bad
    <3> QED
      BY <2>1, <3>1, LeastNumber, Zenon
  <2>3. n \in 1..N /\ p[n] < n /\ p[n] \in 0..N
    BY <1>1, <1>7, <2>2 DEF PathStep, Block
  <2>4. p[n] \notin Bad
    BY <2>2, <2>3
  <2> QED
    BY <1>1, <1>6, <2>2, <2>3, <2>4, Zenon DEF PathStep, Block
<1>9. PathsOf(p) = f
  BY <1>1, <1>4, <1>8, Zenon DEF PathStep
<1> QED
  BY <1>1, <1>9, Zenon
\* A path extended by one block: what its elements and its parts are.
LEMMA AppendPart ==
    ASSUME NEW S, NEW s \in Seq(S), NEW e \in S, NEW i \in 1..Len(s)
    PROVE  Append(s, e)[i] = s[i] /\ SubSeq(Append(s, e), 1, i) = SubSeq(s, 1, i)
<1>1. Append(s, e) \in Seq(S) /\ Len(Append(s, e)) = Len(s) + 1 /\ Len(s) \in Nat
  BY AppendProperties, LenProperties, Zenon
<1>2. \A j \in 1..i : Append(s, e)[j] = s[j]
  BY <1>1, AppendProperties
<1> QED
  BY <1>1, <1>2

\* The paths that the parents give have the shape that GetAncestor relies on.
LEMMA PathsShape ==
    ASSUME NEW p \in [Block -> 0..N], \A b \in Block : p[b] < b,
           NEW f, PathStep(p, f, N)
    PROVE  PathsOK(f)
<1> USE NumberOfBlocks
<1>1. f \in [0..N -> Seq(Block)] /\ f[0] = <<>> /\ \A b \in Block : f[b] = Append(f[p[b]], b)
  BY Zenon DEF PathStep, Block
<1>2. \A b \in Block : p[b] \in 0..N /\ b \in 0..N /\ b # 0 /\ f[p[b]] \in Seq(Block)
  <2>1. \A b \in Block : p[b] \in 0..N /\ b \in 0..N /\ b # 0
    BY DEF Block
  <2> QED
    BY <1>1, <2>1, Zenon
<1>3. \A b \in Block : Len(f[b]) = Len(f[p[b]]) + 1 /\ Len(f[p[b]]) \in Nat /\ f[b][Len(f[b])] = b
  <2> SUFFICES ASSUME NEW b \in Block
               PROVE  Len(f[b]) = Len(f[p[b]]) + 1 /\ Len(f[p[b]]) \in Nat /\ f[b][Len(f[b])] = b
    BY Zenon
  <2>1. f[b] = Append(f[p[b]], b) /\ f[p[b]] \in Seq(Block)
    BY <1>1, <1>2, Zenon
  <2> QED
    BY <2>1, AppendProperties, LenProperties
<1> DEFINE Part(b) == \A i \in 1..Len(f[b]) : f[f[b][i]] = SubSeq(f[b], 1, i)
           Bad == {b \in 0..N : ~Part(b)}
<1>4. Bad = {}
  <2>1. SUFFICES ASSUME Bad # {} PROVE FALSE
    BY Zenon
  <2>2. PICK n \in Bad : \A k \in Bad : n <= k
    <3>1. Bad \in SUBSET Nat
      OBVIOUS
    <3> HIDE DEF Bad
    <3> QED
      BY <2>1, <3>1, LeastNumber, Zenon
  <2>3. n \in Block
    <3>1. Part(0)
      BY <1>1
    <3> QED
      BY <2>2, <3>1 DEF Block
  <2>4. p[n] \notin Bad
    <3>1. p[n] < n /\ p[n] \in 0..N /\ n \in 0..N
      BY <1>2, <2>3, Zenon
    <3> HIDE DEF Bad
    <3> QED
      BY <2>2, <3>1
  <2>5. Part(p[n])
    BY <1>2, <2>3, <2>4, Zenon
  <2>6. f[n] = Append(f[p[n]], n) /\ f[n] \in Seq(Block)
    BY <1>1, <1>2, <2>3, Zenon
  <2>7. ASSUME NEW i \in 1..Len(f[n]) PROVE f[f[n][i]] = SubSeq(f[n], 1, i)
    <3>1. CASE i \in 1..Len(f[p[n]])
      <4>1. f[n][i] = f[p[n]][i] /\ SubSeq(f[n], 1, i) = SubSeq(f[p[n]], 1, i)
        BY <1>2, <2>3, <2>6, <3>1, AppendPart
      <4> QED
        BY <2>5, <3>1, <4>1, Zenon
    <3>2. CASE i = Len(f[n])
      <4>1. f[n][i] = n
        BY <1>3, <2>3, <3>2, Zenon
      <4>2. SubSeq(f[n], 1, Len(f[n])) = f[n]
        BY <2>6, SubSeqFull, Zenon
      <4> QED
        BY <3>2, <4>1, <4>2, Zenon
    <3> QED
      BY <1>3, <2>3, <3>1, <3>2
  <2> QED
    BY <2>2, <2>7, Zenon
<1>5. \A b \in 0..N : Part(b)
  BY <1>4, Zenon
<1>6. \A b \in Block : Len(f[b]) > 0
  BY <1>3
<1> QED
  BY <1>1, <1>3, <1>5, <1>6, Zenon DEF PathsOK

-----------------------------------------------------------------------------
(* What PathsOK says of chains *)

\* A block occurs on a path once, at its height, and the blocks before it are
\* its own path.
LEMMA OnPath ==
    ASSUME PathsOK(path), NEW t \in 0..N, NEW i \in 1..Len(path[t])
    PROVE  /\ path[t] \in Seq(Block) /\ Len(path[t]) \in Nat
           /\ path[t][i] \in Block /\ path[t][i] \in 0..N
           /\ path[path[t][i]] = SubSeq(path[t], 1, i)
           /\ Len(path[path[t][i]]) = i
           /\ \A j \in 1..i : path[path[t][i]][j] = path[t][j]
<1> USE NumberOfBlocks
<1>1. path[t] \in Seq(Block) /\ Len(path[t]) \in Nat
  BY DEF PathsOK
<1>2. path[t][i] \in Block
  BY <1>1
<1>3. path[path[t][i]] = SubSeq(path[t], 1, i)
  BY Zenon DEF PathsOK
<1>4. path[t][i] \in 0..N
  BY <1>2 DEF Block
<1>5. Len(SubSeq(path[t], 1, i)) = i /\ \A j \in 1..i : SubSeq(path[t], 1, i)[j] = path[t][j]
  BY <1>1
<1> QED
  BY <1>1, <1>2, <1>3, <1>4, <1>5, Zenon

LEMMA PathInjective ==
    ASSUME PathsOK(path), NEW t \in 0..N,
           NEW i \in 1..Len(path[t]), NEW j \in 1..Len(path[t]), path[t][i] = path[t][j]
    PROVE  i = j
BY OnPath, Zenon

LEMMA PathRange ==
    ASSUME PathsOK(path), NEW t \in 0..N
    PROVE  /\ path[t] \in Seq(Block) /\ Len(path[t]) \in Nat
           /\ Range(path[t]) = {path[t][i] : i \in 1..Len(path[t])}
           /\ Range(path[t]) \subseteq Block
<1>1. path[t] \in Seq(Block) /\ Len(path[t]) \in Nat
  BY DEF PathsOK
<1> QED
  BY <1>1 DEF Range
\* Tip, for a chain c.
TipOf(c) == IF c = <<>> THEN 0 ELSE c[Len(c)]

LEMMA TipIs ==
    ASSUME PathsOK(path), NEW t \in 0..N, NEW c, c = path[t]
    PROVE  /\ TipOf(c) = t /\ (c = <<>> <=> t = 0) /\ c \in Seq(Block) /\ Len(c) \in Nat
           /\ t # 0 => Len(c) > 0 /\ t \in Block /\ c[Len(c)] = t
<1> USE NumberOfBlocks
<1>1. c \in Seq(Block) /\ Len(c) \in Nat
  BY PathRange, Zenon
<1>2. CASE t = 0
  BY <1>1, <1>2, Zenon DEF PathsOK, TipOf
<1>3. CASE t # 0
  <2>1. t \in Block
    BY <1>3 DEF Block
  <2>2. Len(c) > 0 /\ c[Len(c)] = t
    BY <2>1, Zenon DEF PathsOK
  <2>3. c # <<>>
    BY <2>2
  <2> QED
    BY <1>1, <1>3, <2>1, <2>2, <2>3, Zenon DEF TipOf
<1> QED
  BY <1>2, <1>3, Zenon

\* DisconnectTip: without its last block a path is the path of the parent.
LEMMA Shorter ==
    ASSUME PathsOK(path), NEW t \in Block
    PROVE  /\ \E u \in 0..N : Beneath(path[t]) = path[u]
           /\ Len(path[t]) - 1 \in 0..Len(path[t])
           /\ Beneath(path[t]) = SubSeq(path[t], 1, Len(path[t]) - 1)
           /\ Range(Beneath(path[t])) = Range(path[t]) \ {t} /\ t \in Range(path[t])
<1> USE NumberOfBlocks
<1> DEFINE c == path[t]
           k == Len(c) - 1
<1>1. t \in 0..N /\ Len(c) > 0 /\ c[Len(c)] = t /\ c \in Seq(Block) /\ Len(c) \in Nat
  <2>1. t \in 0..N
    BY DEF Block
  <2>2. c \in Seq(Block) /\ Len(c) \in Nat
    BY <2>1, PathRange, Zenon
  <2> QED
    BY <2>1, <2>2, Zenon DEF PathsOK
<1>2. Beneath(c) = SubSeq(c, 1, k)
  BY Zenon DEF Beneath
<1>3. Beneath(c) \in Seq(Block) /\ Len(Beneath(c)) = k /\ \A i \in 1..k : Beneath(c)[i] = c[i]
  BY <1>1, <1>2
<1>4. \E u \in 0..N : Beneath(c) = path[u]
  <2>1. CASE k = 0
    <3>1. Beneath(c) = <<>>
      BY <1>3, <2>1, EmptySeq, Zenon
    <3> QED
      BY <3>1 DEF PathsOK
  <2>2. CASE k # 0
    <3>1. k \in 1..Len(c)
      <4>1. Len(c) \in Nat /\ Len(c) > 0
        BY <1>1, Zenon
      <4>2. \A x \in Nat : x > 0 /\ x - 1 # 0 => x - 1 \in 1..x
        OBVIOUS
      <4> QED
        BY <4>1, <4>2, <2>2, Zenon
    <3>2. c[k] \in 0..N /\ path[c[k]] = SubSeq(c, 1, k)
      BY <1>1, <3>1, OnPath, Zenon
    <3> QED
      BY <1>2, <3>2, Zenon
  <2> QED
    BY <2>1, <2>2, Zenon
<1>5. \A i \in 1..k : c[i] # t
  BY <1>1, PathInjective
<1>6. Range(Beneath(c)) = Range(c) \ {t} /\ t \in Range(c)
  <2>1. Range(Beneath(c)) = {c[i] : i \in 1..k}
    BY <1>3 DEF Range
  <2>2. Range(c) = {c[i] : i \in 1..Len(c)}
    BY <1>1, PathRange, Zenon
  <2>3. \A i : i \in 1..Len(c) <=> i \in 1..k \/ i = Len(c)
    BY <1>1
  <2>4. Len(c) \in 1..Len(c)
    BY <1>1
  <2> HIDE DEF c, k
  <2> QED
    BY <1>1, <1>5, <2>1, <2>2, <2>3, <2>4, Zenon
<1> QED
  BY <1>1, <1>2, <1>4, <1>6

\* ConnectTip: the path to the target's next block is the chain and that block.
LEMMA Longer ==
    ASSUME PathsOK(path), NEW t \in 0..N, NEW m \in 0..N,
           Begins(path[t], path[m]), Len(path[t]) < Len(path[m]),
           NEW k, k = path[m][Len(path[t]) + 1]
    PROVE  /\ k \in Block /\ path[k] = Append(path[t], k) /\ k \notin Range(path[t])
           /\ Range(path[k]) = Range(path[t]) \cup {k} /\ Range(path[k]) \subseteq Range(path[m])
           /\ Len(path[k]) = Len(path[t]) + 1
<1> USE NumberOfBlocks
<1> DEFINE c == path[t]
           q == path[m]
           n == Len(c) + 1
<1>1. c \in Seq(Block) /\ Len(c) \in Nat /\ q \in Seq(Block) /\ Len(q) \in Nat
  BY PathRange, Zenon
<1>2. n \in 1..Len(q) /\ k = q[n]
  BY <1>1
<1>3. k \in Block /\ k \in 0..N /\ path[k] = SubSeq(q, 1, n) /\ Len(path[k]) = n
  <2>1. q[n] \in Block /\ q[n] \in 0..N /\ path[q[n]] = SubSeq(q, 1, n) /\ Len(path[q[n]]) = n
    BY <1>2, OnPath, Zenon
  <2> HIDE DEF q, n
  <2> QED
    BY <1>2, <2>1, Zenon
<1>4. \A i \in 1..Len(c) : q[i] = c[i]
  <2>1. SubSeq(c, 1, Len(c)) = SubSeq(q, 1, Len(c))
    BY DEF Begins
  <2>2. \A i \in 1..Len(c) : SubSeq(c, 1, Len(c))[i] = c[i] /\ SubSeq(q, 1, Len(c))[i] = q[i]
    BY <1>1
  <2> QED
    BY <2>1, <2>2, Zenon
<1>5. \A i \in 1..n : path[k][i] = q[i]
  BY <1>2, OnPath, Zenon
<1>6. path[k] = Append(c, k)
  <2>1. path[k] \in Seq(Block)
    BY <1>3, PathRange, Zenon
  <2>2. Append(c, k) \in Seq(Block) /\ Len(Append(c, k)) = n /\ Append(c, k)[n] = k
        /\ \A i \in 1..Len(c) : Append(c, k)[i] = c[i]
    BY <1>1, <1>3, AppendProperties
  <2>3. \A i \in 1..n : path[k][i] = Append(c, k)[i]
    <3>1. \A i \in 1..n : i = n \/ i \in 1..Len(c)
      BY <1>1
    <3> HIDE DEF c, q, n
    <3> QED
      BY <1>2, <1>4, <1>5, <2>2, <3>1, Zenon
  <2> HIDE DEF c, q
  <2> QED
    BY <1>3, <2>1, <2>2, <2>3, SeqEqual, Zenon
<1>7. k \notin Range(c)
  <2>1. ASSUME NEW i \in 1..Len(c), c[i] = k PROVE FALSE
    <3>1. i \in 1..Len(q) /\ q[i] = q[n] /\ i # n
      BY <1>1, <1>2, <1>4, <2>1
    <3> QED
      BY <1>2, <3>1, PathInjective, Zenon
  <2> QED
    BY <2>1, PathRange, Zenon
<1>8. Range(path[k]) = Range(c) \cup {k} /\ Range(path[k]) \subseteq Range(q)
  <2>1. Range(path[k]) = {q[i] : i \in 1..n}
    <3>1. Range(path[k]) = {path[k][i] : i \in 1..n}
      BY <1>3, PathRange, Zenon
    <3> HIDE DEF n, q
    <3> QED
      BY <1>5, <3>1, Zenon
  <2>2. Range(c) = {q[i] : i \in 1..Len(c)}
    <3>1. Range(c) = {c[i] : i \in 1..Len(c)}
      BY PathRange, Zenon
    <3> HIDE DEF c, q
    <3> QED
      BY <1>4, <3>1, Zenon
  <2>3. \A i : i \in 1..n <=> i \in 1..Len(c) \/ i = n
    BY <1>1
  <2>4. Range(q) = {q[i] : i \in 1..Len(q)} /\ \A i \in 1..n : i \in 1..Len(q)
    <3>1. Range(q) = {q[i] : i \in 1..Len(q)}
      BY PathRange, Zenon
    <3> QED
      BY <1>1, <1>2, <3>1
  <2> HIDE DEF c, q, n
  <2> QED
    BY <1>2, <2>1, <2>2, <2>3, <2>4, Zenon
<1> QED
  BY <1>3, <1>6, <1>7, <1>8, Zenon
-----------------------------------------------------------------------------
(* The tables *)

LEMMA UsesTyped ==
    ASSUME WorldOK, NEW b \in Block
    PROVE  /\ Range(SpendUses(b)) \subseteq Leaf /\ cb[b] \in Leaf /\ cb[b] \in Block
           /\ Uses(b) = {cb[b]} \cup Range(SpendUses(b)) /\ Uses(b) \subseteq Leaf
           /\ SpendUses(b) \in Seq(SpendLeaf)
<1>1. SpendUses(b) \in Seq(SpendLeaf)
  <2>1. spends[b] \in Seq(SpendLeaf) /\ <<>> \in Seq(SpendLeaf)
    BY DEF WorldOK
  <2> QED
    BY <2>1, Zenon DEF SpendUses
<1>2. Range(SpendUses(b)) \subseteq SpendLeaf
  BY <1>1 DEF Range
<1>3. cb[b] \in Block
  BY Zenon DEF WorldOK
<1> QED
  BY <1>1, <1>2, <1>3, Zenon DEF Leaf, Uses

LEMMA UnmarkIs ==
    ASSUME NEW d, NEW bs
    PROVE  /\ Unmark(bs, d).leaf =
                [l \in Leaf |-> IF \E b \in bs : l = cb[b] \/ l \in d.list[b] THEN 0 ELSE d.leaf[l]]
           /\ Unmark(bs, d).list = [b \in Block |-> IF b \in bs THEN {} ELSE d.list[b]]
BY Zenon DEF Unmark

LEMMA MarkIs ==
    ASSUME NEW d, NEW k \in Block, d.list \in [Block -> SUBSET Leaf]
    PROVE  /\ Mark(k, d).leaf = [l \in Leaf |-> IF l \in Uses(k) THEN k ELSE d.leaf[l]]
           /\ Mark(k, d).list = [b \in Block |->
                IF b = k /\ SpendUses(k) # <<>> THEN Range(SpendUses(k)) ELSE d.list[b]]
<1>1. Mark(k, d).leaf = [l \in Leaf |-> IF l \in Uses(k) THEN k ELSE d.leaf[l]]
  BY Zenon DEF Mark
<1> DEFINE r == Range(SpendUses(k))
           e == SpendUses(k) = <<>>
<1>2. Mark(k, d).list = [d.list EXCEPT ![k] = IF e THEN @ ELSE r]
  BY Zenon DEF Mark
<1> HIDE DEF r, e
<1>3. [d.list EXCEPT ![k] = IF e THEN @ ELSE r] = [b \in Block |-> IF b = k /\ ~e THEN r ELSE d.list[b]]
  BY Zenon
<1> QED
  BY <1>1, <1>2, <1>3, Zenon DEF r, e

\* DisconnectBlock of blocks bs, the end of the chain c among them: the tables
\* follow the chain e that is left.
LEMMA UnmarkKeeps ==
    ASSUME WorldOK, NEW d, NEW c \in Seq(Block), NEW h, TablesOK(d, c, h),
           NEW e \in Seq(Block), Len(e) <= Len(c), \A i \in 1..Len(e) : e[i] = c[i],
           NEW bs \in SUBSET Block, bs \subseteq h,
           \A b \in bs : b \notin Range(e),
           \A b \in Range(c) : b \in Range(e) \/ b \in bs
    PROVE  TablesOK(Unmark(bs, d), e, h)
<1> DEFINE u == Unmark(bs, d)
           Erased(l) == \E b \in bs : l = cb[b] \/ l \in d.list[b]
<1> HIDE DEF Erased
<1>1. /\ u.leaf = [l \in Leaf |-> IF Erased(l) THEN 0 ELSE d.leaf[l]]
      /\ u.list = [b \in Block |-> IF b \in bs THEN {} ELSE d.list[b]]
  BY UnmarkIs, Zenon DEF Erased
<1> HIDE DEF u
<1>2. Len(c) \in Nat /\ Len(e) \in Nat
  OBVIOUS
<1>3. /\ Range(c) = {c[i] : i \in 1..Len(c)} /\ Range(e) = {e[i] : i \in 1..Len(e)}
      /\ Range(c) \subseteq Block
  BY DEF Range
<1>4. Range(e) \subseteq Range(c)
  BY <1>2, <1>3
<1>5. /\ d.leaf \in [Leaf -> 0..N] /\ d.list \in [Block -> SUBSET Leaf]
      /\ Exact(d, c) /\ Covered(d, c, h) /\ SpendsOnce(c, h)
  BY Zenon DEF TablesOK
<1>6. u.leaf \in [Leaf -> 0..N] /\ u.list \in [Block -> SUBSET Leaf]
  BY <1>1, <1>5, NumberOfBlocks
<1>7. Exact(u, e)
  <2>1. ASSUME NEW l \in Leaf, u.leaf[l] # 0 PROVE u.leaf[l] \in Range(e) /\ l \in Uses(u.leaf[l])
    <3>1. ~Erased(l) /\ u.leaf[l] = d.leaf[l]
      BY <1>1, <2>1, Zenon
    <3>2. PICK b : b = d.leaf[l]
      BY Zenon
    <3>3. b \in Range(c) /\ l \in Uses(b)
      BY <1>5, <2>1, <3>1, <3>2, Zenon DEF Exact
    <3>4. b \in Block /\ d.list[b] = Range(SpendUses(b)) /\ Uses(b) = {cb[b]} \cup Range(SpendUses(b))
      BY <1>3, <1>5, <3>3, UsesTyped, Zenon DEF Exact
    <3>5. b \notin bs
      BY <3>1, <3>3, <3>4, Zenon DEF Erased
    <3> QED
      BY <3>1, <3>2, <3>3, <3>5, Zenon
  <2>2. ASSUME NEW b \in Block
        PROVE  u.list[b] = IF b \in Range(e) THEN Range(SpendUses(b)) ELSE {}
    <3>1. d.list[b] = IF b \in Range(c) THEN Range(SpendUses(b)) ELSE {}
      BY <1>5, Zenon DEF Exact
    <3> QED
      BY <1>1, <1>4, <3>1, Zenon
  <2> QED
    BY <2>1, <2>2, Zenon DEF Exact
<1>8. Covered(u, e, h)
  <2> SUFFICES ASSUME NEW b \in Range(e), NEW l \in Uses(b)
               PROVE  u.leaf[l] # 0 \/ MinedByStored(l, b, h)
    BY Zenon DEF Covered
  <2>1. b \in Range(c) /\ b \in Block
    BY <1>3, <1>4, Zenon
  <2>2. l \in Leaf
    BY <2>1, UsesTyped, Zenon
  <2>3. CASE ~Erased(l)
    BY <1>1, <1>5, <2>1, <2>2, <2>3, Zenon DEF Covered
  <2>4. ASSUME NEW k \in bs, l = cb[k] PROVE MinedByStored(l, b, h)
    BY <2>4, Zenon DEF MinedByStored
  <2>5. ASSUME NEW k \in bs, l \in d.list[k] PROVE MinedByStored(l, b, h)
    <3>1. k \in Range(c) /\ l \in Range(SpendUses(k))
      BY <1>5, <2>5, Zenon DEF Exact
    <3>2. PICK j \in 1..Len(c) : k = c[j]
      BY <1>3, <3>1, Zenon
    <3>3. PICK i \in 1..Len(e) : b = e[i]
      BY <1>3, Zenon
    <3>4. b = c[i] /\ i \in 1..Len(c)
      BY <1>2, <3>3
    <3>5. ~(j <= Len(e))
      <4>1. ASSUME j <= Len(e) PROVE FALSE
        <5>1. j \in 1..Len(e)
          BY <1>2, <3>2, <4>1
        <5> QED
          BY <1>3, <3>2, <5>1, Zenon
      <4> QED
        BY <4>1, Zenon
    <3>6. i \in 1..(j - 1)
      BY <1>2, <3>2, <3>3, <3>5
    <3> QED
      BY <1>5, <3>1, <3>2, <3>4, <3>6, Zenon DEF SpendsOnce
  <2> QED
    BY <2>3, <2>4, <2>5, Zenon DEF Erased
<1>9. SpendsOnce(e, h)
  <2>1. \A j \in 1..Len(e) : j \in 1..Len(c) /\ e[j] = c[j] /\ \A i \in 1..(j - 1) : e[i] = c[i]
    BY <1>2
  <2> QED
    BY <1>5, <2>1, Zenon DEF SpendsOnce
<1> QED
  BY <1>6, <1>7, <1>8, <1>9, Zenon DEF TablesOK, u
\* ConnectBlock of block k whose spends are fresh: the tables follow the longer
\* chain.
LEMMA MarkKeeps ==
    ASSUME WorldOK, NEW d, NEW c \in Seq(Block), NEW h, TablesOK(d, c, h),
           NEW k \in Block, k \notin Range(c), SpendsFresh(k, d)
    PROVE  TablesOK(Mark(k, d), Append(c, k), h)
<1> DEFINE u == Mark(k, d)
           e == Append(c, k)
           s == SpendUses(k)
<1>1. /\ d.leaf \in [Leaf -> 0..N] /\ d.list \in [Block -> SUBSET Leaf]
      /\ Exact(d, c) /\ Covered(d, c, h) /\ SpendsOnce(c, h)
  BY Zenon DEF TablesOK
<1>2. /\ u.leaf = [l \in Leaf |-> IF l \in Uses(k) THEN k ELSE d.leaf[l]]
      /\ u.list = [b \in Block |-> IF b = k /\ s # <<>> THEN Range(s) ELSE d.list[b]]
  BY <1>1, MarkIs, Zenon
<1>3. Len(c) \in Nat /\ e \in Seq(Block) /\ Len(e) = Len(c) + 1 /\ e[Len(c) + 1] = k
      /\ \A i \in 1..Len(c) : e[i] = c[i]
  BY AppendProperties, LenProperties
<1>4. Range(c) = {c[i] : i \in 1..Len(c)} /\ Range(c) \subseteq Block
  BY DEF Range
<1>5. Range(e) = Range(c) \cup {k}
  <2>1. Range(e) = {e[i] : i \in 1..Len(e)}
    BY <1>3 DEF Range
  <2>2. \A i : i \in 1..Len(e) <=> i \in 1..Len(c) \/ i = Len(c) + 1
    BY <1>3
  <2> HIDE DEF e
  <2> QED
    BY <1>3, <1>4, <2>1, <2>2, Zenon
<1>6. /\ s \in Seq(SpendLeaf) /\ Range(s) \subseteq Leaf /\ Uses(k) \subseteq Leaf
      /\ Uses(k) = {cb[k]} \cup Range(s)
  BY UsesTyped, Zenon
<1>7. /\ IsInjective(s) /\ cb[k] \notin Range(s)
      /\ \A l \in Range(s) : d.leaf[l] = 0
  <2>1. IsInjective(s) /\ cb[k] \notin Range(s) /\ \A i \in 1..Len(s) : d.leaf[s[i]] = 0
    BY Zenon DEF SpendsFresh
  <2>2. Range(s) = {s[i] : i \in 1..Len(s)}
    BY <1>6 DEF Range
  <2> HIDE DEF s
  <2> QED
    BY <2>1, <2>2, Zenon
<1>8. s = <<>> => Range(s) = {}
  <2>1. <<>> \in Seq(SpendLeaf) /\ Len(<<>>) = 0
    OBVIOUS
  <2>2. Range(<<>>) = {}
    BY DEF Range
  <2> HIDE DEF s
  <2> QED
    BY <2>2, Zenon
<1> HIDE DEF u, e, s
<1>9. u.leaf \in [Leaf -> 0..N] /\ u.list \in [Block -> SUBSET Leaf]
  <2>1. k \in 0..N
    BY NumberOfBlocks DEF Block
  <2> QED
    BY <1>1, <1>2, <1>6, <2>1
<1>10. Exact(u, e)
  <2>1. ASSUME NEW l \in Leaf, u.leaf[l] # 0 PROVE u.leaf[l] \in Range(e) /\ l \in Uses(u.leaf[l])
    <3>1. CASE l \in Uses(k)
      BY <1>2, <1>5, <3>1, Zenon
    <3>2. CASE l \notin Uses(k)
      <4>1. u.leaf[l] = d.leaf[l]
        BY <1>2, <3>2, Zenon
      <4>2. d.leaf[l] \in Range(c) /\ l \in Uses(d.leaf[l])
        BY <1>1, <2>1, <4>1, Zenon DEF Exact
      <4>3. PICK b : b = d.leaf[l]
        BY Zenon
      <4> QED
        BY <1>5, <4>1, <4>2, <4>3, Zenon
    <3> QED
      BY <3>1, <3>2, Zenon
  <2>2. ASSUME NEW b \in Block
        PROVE  u.list[b] = IF b \in Range(e) THEN Range(SpendUses(b)) ELSE {}
    <3>1. d.list[b] = IF b \in Range(c) THEN Range(SpendUses(b)) ELSE {}
      BY <1>1, Zenon DEF Exact
    <3>2. CASE b = k
      <4>1. d.list[b] = {} /\ b \in Range(e) /\ Range(SpendUses(b)) = Range(s)
        BY <1>5, <3>1, <3>2, Zenon DEF s
      <4> QED
        BY <1>2, <1>8, <3>2, <4>1, Zenon
    <3>3. CASE b # k
      BY <1>2, <1>5, <3>1, <3>3, Zenon
    <3> QED
      BY <3>2, <3>3, Zenon
  <2> QED
    BY <2>1, <2>2, Zenon DEF Exact
<1>11. Covered(u, e, h)
  <2> SUFFICES ASSUME NEW b \in Range(e), NEW l \in Uses(b)
               PROVE  u.leaf[l] # 0 \/ MinedByStored(l, b, h)
    BY Zenon DEF Covered
  <2>1. CASE l \in Uses(k)
    BY <1>2, <1>6, <2>1 DEF Block
  <2>2. CASE l \notin Uses(k)
    <3>1. b \in Range(c) /\ b \in Block
      BY <1>4, <1>5, <2>2, Zenon
    <3>2. l \in Leaf
      BY <3>1, UsesTyped, Zenon
    <3> QED
      BY <1>1, <1>2, <2>2, <3>1, <3>2, Zenon DEF Covered
  <2> QED
    BY <2>1, <2>2, Zenon
<1>12. SpendsOnce(e, h)
  <2> SUFFICES ASSUME NEW j \in 1..Len(e)
               PROVE  /\ IsInjective(SpendUses(e[j])) /\ cb[e[j]] \notin Range(SpendUses(e[j]))
                      /\ \A i \in 1..(j - 1) : \A l \in Range(SpendUses(e[j])) \cap Uses(e[i]) :
                           MinedByStored(l, e[i], h)
    BY Zenon DEF SpendsOnce
  <2>1. CASE j \in 1..Len(c)
    <3>1. e[j] = c[j] /\ \A i \in 1..(j - 1) : e[i] = c[i]
      BY <1>3, <2>1, SMTT(60)
    <3> QED
      BY <1>1, <2>1, <3>1, Zenon DEF SpendsOnce
  <2>2. CASE j = Len(c) + 1
    <3>1. e[j] = k /\ SpendUses(e[j]) = s
      BY <1>3, <2>2, Zenon DEF s
    <3>2. ASSUME NEW i \in 1..(j - 1), NEW l \in Range(s) \cap Uses(e[i])
          PROVE  MinedByStored(l, e[i], h)
      <4>1. i \in 1..Len(c) /\ e[i] = c[i]
        BY <1>3, <2>2
      <4>2. c[i] \in Range(c) /\ l \in Uses(c[i])
        BY <1>4, <4>1, Zenon
      <4>3. d.leaf[l] = 0
        BY <1>7, Zenon
      <4> QED
        BY <1>1, <4>1, <4>2, <4>3, Zenon DEF Covered
    <3> QED
      BY <1>7, <3>1, <3>2, Zenon
  <2> QED
    BY <1>3, <2>1, <2>2, SMTT(60)
<1> QED
  BY <1>9, <1>10, <1>11, <1>12, Zenon DEF TablesOK, u, e
\* The loop of VerifyDB's level 4 is well defined.
LEMMA RemarkedStep ==
    ASSUME NEW c \in Seq(Block), NEW i \in Nat \ {0}, NEW d
    PROVE  \A n \in 0..Len(c) :
             Remarked(c, i, d)[n] = IF n < i THEN d ELSE Mark(c[n], Remarked(c, i, d)[n - 1])
<1> DEFINE R(f, n) == [m \in 0..n |-> IF m < i THEN d ELSE Mark(c[m], f[m - 1])]
           Bad == {n \in 0..Len(c) : ~ \E f : f = R(f, n)}
<1>1. Len(c) \in Nat
  OBVIOUS
<1>2. Bad = {}
  <2>1. SUFFICES ASSUME Bad # {} PROVE FALSE
    BY Zenon
  <2>2. PICK n \in Bad : \A k \in Bad : n <= k
    <3>1. Bad \in SUBSET Nat
      BY <1>1
    <3> HIDE DEF Bad
    <3> QED
      BY <2>1, <3>1, LeastNumber, Zenon
  <2>3. n \in Nat /\ n \in 0..Len(c)
    BY <1>1
  <2>4. \E f : \A m \in 1..n : m >= i => f[m - 1] = R(f, n)[m - 1]
    <3>1. CASE n = 0
      BY <3>1
    <3>2. CASE n # 0
      <4>1. n - 1 \in 0..Len(c) /\ n - 1 \notin Bad
        BY <1>1, <2>2, <2>3, <3>2
      <4>2. PICK f : f = R(f, n - 1)
        BY <4>1, Zenon
      <4>3. ASSUME NEW m \in 1..n, m >= i PROVE f[m - 1] = R(f, n)[m - 1]
        <5>1. m - 1 \in 0..(n - 1) /\ m - 1 \in 0..n
          BY <2>3
        <5>2. f[m - 1] = R(f, n - 1)[m - 1]
          BY <4>2, Zenon
        <5> QED
          BY <5>1, <5>2, Zenon
      <4> QED
        BY <4>3, Zenon
    <3> QED
      BY <3>1, <3>2, Zenon
  <2>5. PICK f : \A m \in 1..n : m >= i => f[m - 1] = R(f, n)[m - 1]
    BY <2>4, Zenon
  <2> DEFINE g == R(f, n)
  <2>6. \A m \in 0..n : g[m] = IF m < i THEN d ELSE Mark(c[m], f[m - 1])
    BY Zenon
  <2>7. ASSUME NEW m \in 0..n PROVE g[m] = R(g, n)[m]
    <3>1. R(g, n)[m] = IF m < i THEN d ELSE Mark(c[m], g[m - 1])
      BY Zenon
    <3>2. ~(m < i) => f[m - 1] = g[m - 1]
      <4>1. ~(m < i) => m \in 1..n /\ m >= i
        BY <2>3
      <4> QED
        BY <2>5, <4>1, Zenon
    <3> HIDE DEF g
    <3> QED
      BY <2>6, <3>1, <3>2, Zenon
  <2>8. g = R(g, n)
    BY <2>7, Zenon
  <2> HIDE DEF g
  <2> QED
    BY <2>2, <2>8, Zenon
<1>3. \E f : f = R(f, Len(c))
  BY <1>1, <1>2
<1>4. Remarked(c, i, d) = R(Remarked(c, i, d), Len(c))
  <2> DEFINE Q(f) == R(f, Len(c))
  <2>1. Remarked(c, i, d) = CHOOSE f : f = Q(f)
    BY Zenon DEF Remarked
  <2>2. \E f : f = Q(f)
    BY <1>3, Zenon
  <2> HIDE DEF Q
  <2>3. Remarked(c, i, d) = Q(Remarked(c, i, d))
    BY <2>1, <2>2, Zenon
  <2> QED
    BY <2>3, Zenon DEF Q
<1>5. \A n \in 0..Len(c) : Remarked(c, i, d)[n] = R(Remarked(c, i, d), Len(c))[n]
  BY <1>4, Zenon
<1> QED
  BY <1>5, Zenon
\* The first n blocks of a path.
LEMMA PathPart ==
    ASSUME PathsOK(path), NEW t \in 0..N, NEW n \in 0..Len(path[t])
    PROVE  /\ SubSeq(path[t], 1, n) \in Seq(Block) /\ Len(SubSeq(path[t], 1, n)) = n
           /\ \A i \in 1..n : SubSeq(path[t], 1, n)[i] = path[t][i]
           /\ Range(SubSeq(path[t], 1, n)) = {path[t][i] : i \in 1..n}
<1>1. path[t] \in Seq(Block) /\ Len(path[t]) \in Nat
  BY PathRange, Zenon
<1>2. /\ SubSeq(path[t], 1, n) \in Seq(Block) /\ Len(SubSeq(path[t], 1, n)) = n
      /\ \A i \in 1..n : SubSeq(path[t], 1, n)[i] = path[t][i]
  BY <1>1
<1> DEFINE e == SubSeq(path[t], 1, n)
<1>3. Range(e) = {path[t][i] : i \in 1..n}
  <2>1. DOMAIN e = 1..n
    BY <1>2
  <2>2. \A i \in 1..n : e[i] = path[t][i]
    BY <1>2, Zenon
  <2> HIDE DEF e
  <2> QED
    BY <2>1, <2>2, Zenon DEF Range
<1> QED
  BY <1>2, <1>3, Zenon

LEMMA FirstCheckedIs ==
    ASSUME NEW c \in Seq(Block)
    PROVE  FirstChecked(c) \in 1..(Len(c) + 1)
BY LeafDBConstantsOK DEF FirstChecked, LeafDBConstantsOK

\* VerifyDB below level 3 leaves the tables alone; at level 4 it writes again
\* what it has erased.
LEMMA VerifyKeeps ==
    ASSUME WorldOK, NEW t \in 0..N, NEW d, NEW h, TablesOK(d, path[t], h),
           Range(path[t]) \subseteq h, CheckLevel # 3, VerifyDB(path[t], d).ok
    PROVE  TablesOK(VerifyDB(path[t], d).db, path[t], h)
<1> DEFINE c == path[t]
           first == FirstChecked(c)
           bs == {c[n] : n \in first..Len(c)}
           undone == Unmark(bs, d)
           redone == Remarked(c, first, undone)
           Part(n) == SubSeq(c, 1, n)
<1>0. PathsOK(path) /\ c \in Seq(Block) /\ Len(c) \in Nat /\ Range(c) = {c[i] : i \in 1..Len(c)}
      /\ Range(c) \subseteq Block
  BY PathRange, Zenon DEF WorldOK
<1>1. CASE CheckLevel < 3
  BY <1>1, Zenon DEF VerifyDB
<1>2. CASE ~(CheckLevel < 3)
  <2>1. /\ VerifyDB(c, d).db = redone[Len(c)]
        /\ \A n \in first..Len(c) : SpendsFresh(c[n], redone[n - 1])
    BY <1>2, Zenon DEF VerifyDB
  <2>2. first \in 1..(Len(c) + 1) /\ first \in Nat \ {0} /\ first - 1 \in 0..Len(c)
    <3>1. first \in 1..(Len(c) + 1)
      BY <1>0, FirstCheckedIs, Zenon
    <3> HIDE DEF first
    <3> QED
      BY <1>0, <3>1
  <2> HIDE DEF first
  <2>3. \A n \in 0..Len(c) : redone[n] = IF n < first THEN undone ELSE Mark(c[n], redone[n - 1])
    BY <1>0, <2>2, RemarkedStep, Zenon
  <2> HIDE DEF redone
  <2>4. \A n \in 0..Len(c) :
          /\ Part(n) \in Seq(Block) /\ Len(Part(n)) = n /\ Range(Part(n)) = {c[i] : i \in 1..n}
          /\ \A i \in 1..n : Part(n)[i] = c[i]
    BY <1>0, PathPart, Zenon
  <2>5. TablesOK(undone, Part(first - 1), h)
    <3> DEFINE e == Part(first - 1)
    <3>1. /\ e \in Seq(Block) /\ Len(e) = first - 1 /\ Range(e) = {c[i] : i \in 1..(first - 1)}
          /\ \A i \in 1..Len(e) : e[i] = c[i]
      BY <2>2, <2>4, Zenon
    <3>2. Len(e) <= Len(c)
      BY <1>0, <2>2, <3>1
    <3>3. bs \in SUBSET Block /\ bs \subseteq h /\ bs \subseteq Range(c)
      <4>1. \A n \in first..Len(c) : n \in 1..Len(c)
        BY <1>0, <2>2
      <4> HIDE DEF c
      <4>2. bs \subseteq Range(c)
        BY <1>0, <4>1, Zenon
      <4> QED
        BY <1>0, <4>2, Zenon DEF c
    <3>4. ASSUME NEW b \in bs PROVE b \notin Range(e)
      <4>1. PICK n \in first..Len(c) : b = c[n]
        BY Zenon
      <4>2. \A i \in 1..(first - 1) : i \in 1..Len(c) /\ n \in 1..Len(c) /\ i # n
        BY <1>0, <2>2
      <4>3. \A i \in 1..(first - 1) : c[i] # c[n]
        BY <1>0, <4>2, PathInjective, Zenon
      <4> HIDE DEF e, bs
      <4> QED
        BY <3>1, <4>1, <4>3, Zenon
    <3>5. ASSUME NEW b \in Range(c) PROVE b \in Range(e) \/ b \in bs
      <4>1. PICK n \in 1..Len(c) : b = c[n]
        BY <1>0, Zenon
      <4>2. n \in 1..(first - 1) \/ n \in first..Len(c)
        BY <1>0, <2>2
      <4> HIDE DEF e, c
      <4> QED
        BY <3>1, <4>1, <4>2, Zenon
    <3> HIDE DEF e, bs
    <3>6. TablesOK(Unmark(bs, d), e, h)
      BY <1>0, <3>1, <3>2, <3>3, <3>4, <3>5, UnmarkKeeps, Zenon
    <3> QED
      BY <3>6, Zenon DEF e
  <2> HIDE DEF undone
  <2> DEFINE Bad == {n \in (first - 1)..Len(c) : ~TablesOK(redone[n], Part(n), h)}
  <2>6. Bad = {}
    <3>1. SUFFICES ASSUME Bad # {} PROVE FALSE
      BY Zenon
    <3>2. PICK n \in Bad : \A k \in Bad : n <= k
      <4>1. Bad \in SUBSET Nat
        BY <1>0, <2>2
      <4> HIDE DEF Bad
      <4> QED
        BY <3>1, <4>1, LeastNumber, Zenon
    <3>3. n \in first..Len(c)
      <4>1. n = first - 1 => redone[n] = undone
        BY <2>2, <2>3
      <4>2. n # first - 1
        BY <2>5, <3>2, <4>1, Zenon
      <4>3. n \in (first - 1)..Len(c)
        BY Zenon
      <4> QED
        BY <1>0, <2>2, <4>2, <4>3
    <3>4. n \in 1..Len(c) /\ n - 1 \in 0..Len(c) /\ n - 1 \in (first - 1)..Len(c) /\ n \in 0..Len(c)
      BY <1>0, <2>2, <3>3
    <3>5. TablesOK(redone[n - 1], Part(n - 1), h)
      <4>1. n - 1 \notin Bad
        BY <3>2, <3>4
      <4> QED
        BY <3>4, <4>1, Zenon
    <3>6. c[n] \in Block /\ SpendsFresh(c[n], redone[n - 1]) /\ redone[n] = Mark(c[n], redone[n - 1])
      <4>1. c[n] \in Block
        BY <1>0, <3>4, Zenon
      <4>2. redone[n] = Mark(c[n], redone[n - 1])
        BY <2>2, <2>3, <3>3, <3>4
      <4> QED
        BY <2>1, <3>3, <4>1, <4>2, Zenon
    <3>7. c[n] \notin Range(Part(n - 1))
      <4>1. \A i \in 1..(n - 1) : i \in 1..Len(c) /\ i # n
        BY <1>0, <3>4
      <4>2. \A i \in 1..(n - 1) : c[i] # c[n]
        BY <1>0, <3>4, <4>1, PathInjective, Zenon
      <4>3. Range(Part(n - 1)) = {c[i] : i \in 1..(n - 1)}
        BY <2>4, <3>4, Zenon
      <4> HIDE DEF Part, c
      <4> QED
        BY <4>2, <4>3, Zenon
    <3>8. Append(Part(n - 1), c[n]) = Part(n)
      <4> DEFINE p == Part(n - 1)
                 q == Append(p, c[n])
                 r == Part(n)
      <4>1. p \in Seq(Block) /\ Len(p) = n - 1 /\ \A i \in 1..(n - 1) : p[i] = c[i]
        BY <2>4, <3>4, Zenon
      <4>2. r \in Seq(Block) /\ Len(r) = n /\ \A i \in 1..n : r[i] = c[i]
        BY <2>4, <3>4, Zenon
      <4> HIDE DEF p, r, c
      <4>3. q \in Seq(Block) /\ Len(q) = n /\ q[n] = c[n] /\ \A i \in 1..(n - 1) : q[i] = p[i]
        BY <3>4, <3>6, <4>1, AppendProperties
      <4>4. \A i \in 1..n : q[i] = r[i]
        BY <3>4, <4>1, <4>2, <4>3
      <4> HIDE DEF q
      <4>5. q = r
        BY <4>2, <4>3, <4>4, SeqEqual
      <4> QED
        BY <4>5, Zenon DEF p, q, r
    <3>9. TablesOK(Mark(c[n], redone[n - 1]), Append(Part(n - 1), c[n]), h)
      <4>1. Part(n - 1) \in Seq(Block)
        BY <2>4, <3>4, Zenon
      <4> HIDE DEF Part, c
      <4> QED
        BY <3>5, <3>6, <3>7, <4>1, MarkKeeps, Zenon
    <3> QED
      BY <3>2, <3>6, <3>8, <3>9, Zenon
  <2>7. Part(Len(c)) = c
    BY <1>0, SubSeqFull, Zenon
  <2>8. TablesOK(redone[Len(c)], Part(Len(c)), h)
    <3>1. Len(c) \in (first - 1)..Len(c)
      BY <1>0, <2>2
    <3> QED
      BY <2>6, <3>1, Zenon
  <2> QED
    BY <2>1, <2>7, <2>8, Zenon
<1> QED
  BY <1>1, <1>2, Zenon
\* ReplayBlocks undoes blocks that are not on the chain: they have no list, and
\* their mining leaves are their own or shared.
LEMMA ReplayKeeps ==
    ASSUME WorldOK, NEW o \in 0..N, NEW t \in 0..N, NEW d, NEW h,
           TablesOK(d, path[t], h), Range(path[o]) \subseteq h
    PROVE  TablesOK(ReplayBlocks(o, t, d), path[t], h)
<1> DEFINE bs == Range(path[o]) \ Range(path[t])
           c == path[t]
<1>1. c \in Seq(Block) /\ Range(path[o]) \subseteq Block /\ Len(c) \in Nat
  BY PathRange, Zenon DEF WorldOK
<1>2. bs \in SUBSET Block /\ bs \subseteq h /\ \A b \in bs : b \notin Range(c)
  BY <1>1, Zenon
<1> HIDE DEF bs, c
<1>3. TablesOK(d, c, h)
  BY Zenon DEF c
<1>4. TablesOK(Unmark(bs, d), c, h)
  BY <1>1, <1>2, <1>3, UnmarkKeeps, SMTT(60)
<1> QED
  BY <1>4, Zenon DEF ReplayBlocks, bs, c

\* More stored blocks make no difference to the tables.
LEMMA TablesMoreStored ==
    ASSUME NEW d, NEW c, NEW h, NEW g, h \subseteq g, TablesOK(d, c, h)
    PROVE  TablesOK(d, c, g)
<1>1. \A l, b : MinedByStored(l, b, h) => MinedByStored(l, b, g)
  BY Zenon DEF MinedByStored
<1> QED
  BY <1>1, Zenon DEF TablesOK, Covered, SpendsOnce

-----------------------------------------------------------------------------
(* The block tree does not change *)

\* Why block b may be marked invalid other than by the operator.
Justified(b) == ReuseOnPath(b) \/ \E c \in Block \ {b} : cb[b] \in Uses(c)

LEMMA WorldStays ==
    ASSUME UNCHANGED world
    PROVE  /\ path' = path /\ cb' = cb /\ spends' = spends
           /\ WorldOK => WorldOK'
           /\ \A b : SpendUses(b)' = SpendUses(b) /\ Uses(b)' = Uses(b)
           /\ \A b : Justified(b)' <=> Justified(b)
           /\ \A l, b, h : MinedByStored(l, b, h)' <=> MinedByStored(l, b, h)
<1>1. path' = path /\ cb' = cb /\ spends' = spends
  BY Zenon DEF world
<1>2. \A b : SpendUses(b)' = SpendUses(b)
  BY <1>1, Zenon DEF SpendUses, Height
<1>3. \A b : Uses(b)' = Uses(b)
  BY <1>1, <1>2, Zenon DEF Uses
<1>4. \A l, b, h : MinedByStored(l, b, h)' <=> MinedByStored(l, b, h)
  BY <1>1, Zenon DEF MinedByStored
<1>5. WorldOK => WorldOK'
  BY <1>1, Zenon DEF WorldOK, PathsOK
<1>6. \A b : Justified(b)' <=> Justified(b)
  BY <1>1, <1>2, <1>3, Zenon DEF Justified, ReuseOnPath
<1> QED
  BY <1>1, <1>2, <1>3, <1>4, <1>5, <1>6, Zenon

LEMMA TablesStep ==
    ASSUME UNCHANGED world, NEW d, NEW c, NEW h, TablesOK(d, c, h),
           leaf' = d.leaf, list' = d.list, chain' = c, have' = h
    PROVE  TablesOK(Tables, chain, have)'
<1> USE WorldStays
<1>1. Tables'.leaf = d.leaf /\ Tables'.list = d.list
  BY Zenon DEF Tables
<1>2. Exact(Tables, chain)'
  BY <1>1, SMTT(60) DEF TablesOK, Exact
<1>3. Covered(Tables, chain, have)'
  BY <1>1, Zenon DEF TablesOK, Covered
<1>4. SpendsOnce(chain, have)'
  BY Zenon DEF TablesOK, SpendsOnce
<1> QED
  BY <1>1, <1>2, <1>3, <1>4, Zenon DEF TablesOK

LEMMA FailedStep ==
    ASSUME UNCHANGED world, FailedOnlyByReuse,
           \A b \in failed' \ condemned' : b \in failed \ condemned \/ Justified(b)
    PROVE  FailedOnlyByReuse'
<1>1. \A b \in failed \ condemned : Justified(b)
  BY Zenon DEF FailedOnlyByReuse, Justified
<1>2. \A b \in failed' \ condemned' : Justified(b)'
  BY <1>1, WorldStays, Zenon
<1> QED
  BY <1>2, Zenon DEF FailedOnlyByReuse, Justified

LEMMA ChainStep ==
    ASSUME WorldOK, UNCHANGED world, NEW t \in 0..N, chain' = path[t],
           Range(path[t]) \subseteq have', Range(path[t]) \cap failed' = {}
    PROVE  ChainTyped' /\ ChainOK' /\ Tip' = t
<1>1. path' = path
  BY WorldStays, Zenon
<1>2. TipOf(chain') = t
  BY TipIs, Zenon DEF WorldOK
<1>3. Tip' = t
  BY <1>2, Zenon DEF Tip, TipOf
<1> QED
  BY <1>1, <1>3, Zenon DEF ChainTyped, ChainOK, Failed
-----------------------------------------------------------------------------
(* One lemma for each action *)

\* What the invariant says of the tip.
LEMMA TipFacts ==
    ASSUME LeafDBInv
    PROVE  /\ Tip \in 0..N /\ chain = path[Tip] /\ chain \in Seq(Block) /\ Len(chain) \in Nat
           /\ chain # <<>> => Tip \in Block
           /\ Range(chain) \subseteq have /\ Range(chain) \cap failed = {} /\ Range(chain) \subseteq Block
<1>1. PICK t \in 0..N : chain = path[t]
  BY Zenon DEF LeafDBInv, ChainOK
<1>2. PathsOK(path)
  BY Zenon DEF LeafDBInv, WorldOK
<1>3. TipOf(chain) = t /\ (chain = <<>> <=> t = 0) /\ chain \in Seq(Block) /\ Len(chain) \in Nat
  BY <1>1, <1>2, TipIs, Zenon
<1>4. Tip = t
  BY <1>3, Zenon DEF Tip, TipOf
<1>5. chain # <<>> => t \in Block
  BY <1>3, NumberOfBlocks DEF Block
<1>6. Range(chain) \subseteq Block
  BY <1>1, <1>2, PathRange, Zenon
<1> QED
  BY <1>1, <1>3, <1>4, <1>5, <1>6, Zenon DEF LeafDBInv, ChainTyped, Failed

\* AcceptBlock: a stored block adds to no table; a refused one is mined with a
\* leaf that the table gives to a block of the chain.
LEMMA AcceptBlockKeeps ==
    ASSUME LeafDBInv, NEW b \in Block, AcceptBlock(b)
    PROVE  LeafDBInv'
<1> USE NumberOfBlocks
<1>0. /\ UNCHANGED world /\ chain' = chain /\ leaf' = leaf /\ list' = list
      /\ UNCHANGED <<activation, operator, durable, events>>
      /\ b \notin have /\ have \subseteq have' /\ failed \subseteq failed' /\ have' \subseteq have \cup {b}
      /\ \A x \in failed' : x \in failed \/ (x = b /\ ~CheckPoUW(b))
  BY Zenon DEF AcceptBlock
<1>1. path' = path /\ WorldOK'
  BY <1>0, WorldStays, Zenon DEF LeafDBInv
<1>2. Range(chain) \subseteq have' /\ Range(chain) \cap failed' = {}
  BY <1>0, TipFacts, Zenon
<1>3. ChainTyped' /\ ChainOK'
  BY <1>0, <1>2, TipFacts, ChainStep, Zenon DEF LeafDBInv
<1>4. RestTyped'
  BY <1>0, Zenon DEF LeafDBInv, RestTyped, activation, operator, durable
<1>5. ActivationOK'
  <2>1. most # 0 => Candidate(most)'
    <3>1. ASSUME most # 0 PROVE Range(path[most]) \subseteq have /\ Range(path[most]) \cap failed = {}
      BY <3>1, Zenon DEF LeafDBInv, ActivationOK, Candidate, Failed
    <3>2. most' = most
      BY <1>0, Zenon DEF activation
    <3> QED
      BY <1>0, <1>1, <3>1, <3>2, Zenon DEF Candidate, Failed
  <2>2. Range(path[coins]) \subseteq have'
    BY <1>0, Zenon DEF LeafDBInv, ActivationOK
  <2> QED
    BY <1>0, <1>1, <2>1, <2>2, Zenon DEF LeafDBInv, ActivationOK, activation, operator, durable, Height
<1>6. TablesOK(Tables, chain, have)'
  <2>1. TablesOK(Tables, chain, have')
    BY <1>0, TablesMoreStored, Zenon DEF LeafDBInv
  <2> QED
    BY <1>0, <2>1, TablesStep, Zenon DEF Tables
<1>7. FailedOnlyByReuse'
  <2>1. ~CheckPoUW(b) => Justified(b)
    <3>1. ASSUME ~CheckPoUW(b) PROVE Justified(b)
      <4>1. leaf[cb[b]] # 0
        BY <3>1, Zenon DEF CheckPoUW
      <4>2. PICK c : c = leaf[cb[b]]
        BY Zenon
      <4>3. cb[b] \in Leaf
        BY UsesTyped, Zenon DEF LeafDBInv
      <4>4. c \in Range(chain) /\ cb[b] \in Uses(c)
        BY <4>1, <4>2, <4>3, Zenon DEF LeafDBInv, TablesOK, Exact, Tables
      <4>5. c \in Block \ {b}
        BY <1>0, <4>4, TipFacts, Zenon
      <4> QED
        BY <4>4, <4>5, Zenon DEF Justified
    <3> QED
      BY <3>1, Zenon
  <2>2. condemned' = condemned
    BY <1>0, Zenon DEF operator
  <2> QED
    BY <1>0, <2>1, <2>2, FailedStep, Zenon DEF LeafDBInv
<1> QED
  BY <1>1, <1>3, <1>4, <1>5, <1>6, <1>7, Zenon DEF LeafDBInv

LEMMA FindMostWorkChainKeeps ==
    ASSUME LeafDBInv, FindMostWorkChain
    PROVE  LeafDBInv'
<1> USE NumberOfBlocks
<1>0. /\ UNCHANGED world /\ chain' = chain /\ leaf' = leaf /\ list' = list /\ have' = have
      /\ failed' = failed /\ UNCHANGED <<operator, durable, events>> /\ unwinding = 0
      /\ lock' = TRUE /\ old' = Tip /\ start' = IF lock THEN start ELSE Tip
      /\ \/ most # 0 /\ most' = most
         \/ most' \in MostWork
  BY Zenon DEF FindMostWorkChain
<1>1. path' = path /\ WorldOK'
  BY <1>0, WorldStays, Zenon DEF LeafDBInv
<1>2. ChainTyped' /\ ChainOK'
  BY <1>0, TipFacts, ChainStep, Zenon DEF LeafDBInv
<1>3. most' \in 0..N /\ most' # 0 /\ Candidate(most') /\ Len(chain) < Height(most')
  <2>1. CASE most # 0 /\ most' = most
    BY <2>1, Zenon DEF LeafDBInv, RestTyped, ActivationOK
  <2>2. CASE most' \in MostWork
    <3>1. most' \in have /\ Candidate(most') /\ Height(most') > Len(chain)
      BY <2>2, Zenon DEF MostWork
    <3>2. most' \in Block
      BY <3>1, Zenon DEF LeafDBInv, RestTyped
    <3>3. Len(chain) < Height(most')
      BY <3>1, Zenon
    <3> QED
      BY <3>1, <3>2, <3>3 DEF Block
  <2> QED
    BY <1>0, <2>1, <2>2, Zenon
<1>4. RestTyped'
  <2>1. old' \in NoStep..N /\ start' \in 0..N /\ lock' \in BOOLEAN
    BY <1>0, TipFacts DEF LeafDBInv, RestTyped, NoStep
  <2> QED
    BY <1>0, <1>3, <2>1, Zenon DEF LeafDBInv, RestTyped, operator, durable
<1>5. ActivationOK'
  <2>1. Candidate(most)' /\ Len(chain)' < Height(most)'
    BY <1>0, <1>1, <1>3, Zenon DEF Candidate, Failed, Height
  <2> QED
    BY <1>0, <1>1, <1>3, <2>1, Zenon DEF LeafDBInv, ActivationOK, operator, durable
<1>6. TablesOK(Tables, chain, have)'
  BY <1>0, TablesStep, Zenon DEF LeafDBInv, Tables
<1>7. FailedOnlyByReuse'
  BY <1>0, FailedStep, Zenon DEF LeafDBInv, operator
<1> QED
  BY <1>1, <1>2, <1>4, <1>5, <1>6, <1>7, Zenon DEF LeafDBInv
\* The tip goes, with its marks.
LEMMA TipGoes ==
    ASSUME LeafDBInv, chain # <<>>, UNCHANGED <<world, have>>,
           chain' = Beneath(chain), TablesBecome(Unmark({Tip}, Tables))
    PROVE  /\ TablesOK(Tables, chain, have)'
           /\ \E u \in 0..N : chain' = path[u]
           /\ Range(chain') = Range(chain) \ {Tip} /\ Len(chain') < Len(chain)
<1> USE NumberOfBlocks
<1>1. Tip \in Block /\ chain = path[Tip] /\ chain \in Seq(Block) /\ Len(chain) \in Nat /\ Tip \in 0..N
      /\ Range(chain) \subseteq have
  BY TipFacts, Zenon
<1> DEFINE e == Beneath(chain)
<1>2. PathsOK(path) /\ WorldOK
  BY Zenon DEF LeafDBInv, WorldOK
<1>3. /\ \E u \in 0..N : e = path[u]
      /\ Len(chain) - 1 \in 0..Len(chain)
      /\ e = SubSeq(chain, 1, Len(chain) - 1)
      /\ Range(e) = Range(chain) \ {Tip} /\ Tip \in Range(chain)
  BY <1>1, <1>2, Shorter, Zenon
<1>4. e \in Seq(Block) /\ Len(e) = Len(chain) - 1 /\ \A i \in 1..Len(e) : e[i] = chain[i]
  BY <1>1, <1>2, <1>3, PathPart
<1>5. Len(e) < Len(chain) /\ Len(e) <= Len(chain)
  BY <1>1, <1>4
<1> HIDE DEF e
<1>6. TablesOK(Unmark({Tip}, Tables), e, have)
  <2>1. {Tip} \in SUBSET Block /\ {Tip} \subseteq have
    BY <1>1, <1>3, Zenon
  <2>2. TablesOK(Tables, chain, have)
    BY Zenon DEF LeafDBInv
  <2>3. \A b \in {Tip} : b \notin Range(e)
    BY <1>3, Zenon
  <2>4. \A b \in Range(chain) : b \in Range(e) \/ b \in {Tip}
    BY <1>3, Zenon
  <2> QED
    BY <1>1, <1>2, <1>4, <1>5, <2>1, <2>2, <2>3, <2>4, UnmarkKeeps, Zenon
<1>7. TablesOK(Tables, chain, have)'
  <2>1. leaf' = Unmark({Tip}, Tables).leaf /\ list' = Unmark({Tip}, Tables).list
    BY Zenon DEF TablesBecome
  <2>2. chain' = e /\ have' = have /\ UNCHANGED world
    BY Zenon DEF e
  <2> QED
    BY <1>6, <2>1, <2>2, TablesStep, Zenon
<1> QED
  BY <1>3, <1>5, <1>7, Zenon DEF e

LEMMA DisconnectTipKeeps ==
    ASSUME LeafDBInv, DisconnectTip
    PROVE  LeafDBInv'
<1> USE NumberOfBlocks
<1>0. /\ UNCHANGED world /\ have' = have /\ failed' = failed
      /\ UNCHANGED <<activation, operator, durable, events>>
      /\ chain' = Beneath(chain) /\ TablesBecome(Unmark({Tip}, Tables))
      /\ old # NoStep /\ ~Begins(chain, path[most])
  BY Zenon DEF DisconnectTip, OnTarget
<1>1. path' = path /\ WorldOK'
  BY <1>0, WorldStays, Zenon DEF LeafDBInv
<1>2. chain # <<>>
  <2>1. most \in 0..N /\ PathsOK(path)
    BY Zenon DEF LeafDBInv, RestTyped, WorldOK
  <2>2. path[most] \in Seq(Block) /\ Len(path[most]) \in Nat
    BY <2>1, PathRange, Zenon
  <2>3. Begins(<<>>, path[most])
    <3>1. SubSeq(<<>>, 1, 0) = <<>> /\ SubSeq(path[most], 1, 0) = <<>>
      BY SubSeqEmpty
    <3>2. Len(<<>>) = 0
      BY Zenon
    <3> QED
      BY <2>2, <3>1, <3>2 DEF Begins
  <2> QED
    BY <1>0, <2>3, Zenon
<1>3. /\ TablesOK(Tables, chain, have)'
      /\ \E u \in 0..N : chain' = path[u]
      /\ Range(chain') = Range(chain) \ {Tip} /\ Len(chain') < Len(chain)
  BY <1>0, <1>2, TipGoes, Zenon
<1>4. PICK u \in 0..N : chain' = path[u]
  BY <1>3, Zenon
<1>5. ChainTyped' /\ ChainOK'
  <2>1. Range(path[u]) \subseteq have' /\ Range(path[u]) \cap failed' = {}
    BY <1>0, <1>3, <1>4, TipFacts, Zenon
  <2> QED
    BY <1>0, <1>4, <2>1, ChainStep, Zenon DEF LeafDBInv
<1>6. RestTyped'
  BY <1>0, Zenon DEF LeafDBInv, RestTyped, activation, operator, durable
<1>7. ActivationOK'
  <2>1. most # 0 /\ most' = most /\ unwinding' = unwinding /\ coins' = coins /\ old' = old
    BY <1>0, Zenon DEF LeafDBInv, ActivationOK, activation, operator, durable
  <2>2. Candidate(most) /\ Len(chain) < Height(most) /\ unwinding = 0
    BY <2>1, Zenon DEF LeafDBInv, ActivationOK
  <2>3. Candidate(most)'
    BY <1>0, <1>1, <2>1, <2>2, Zenon DEF Candidate, Failed
  <2>4. Len(chain') < Height(most)'
    <3>1. Len(chain) \in Nat /\ Len(path[most]) \in Nat /\ Len(chain') \in Nat
      BY <1>4, TipFacts, PathRange, Zenon DEF LeafDBInv, RestTyped, WorldOK
    <3> QED
      BY <1>1, <1>3, <2>1, <2>2, <3>1, SMTT(60) DEF Height
  <2> QED
    BY <1>0, <1>1, <2>1, <2>2, <2>3, <2>4, Zenon DEF LeafDBInv, ActivationOK
<1>8. FailedOnlyByReuse'
  BY <1>0, FailedStep, Zenon DEF LeafDBInv, operator
<1> QED
  BY <1>1, <1>3, <1>5, <1>6, <1>7, <1>8, Zenon DEF LeafDBInv

\* The block that ActivateBestChainStep is about to connect.
LEMMA ConnectingIs ==
    ASSUME LeafDBInv, old # NoStep, OnTarget, NEW k, k = Connecting
    PROVE  /\ k \in Block /\ path[k] = Append(chain, k) /\ k \notin Range(chain)
           /\ Range(path[k]) \subseteq Range(path[most])
           /\ Len(path[k]) = Len(chain) + 1 /\ most # 0 /\ unwinding = 0
           /\ k # most => Len(path[k]) < Len(path[most])
<1> USE NumberOfBlocks
<1>1. Tip \in 0..N /\ chain = path[Tip] /\ Len(chain) \in Nat
  BY TipFacts, Zenon
<1>2. most \in 0..N /\ most # 0 /\ PathsOK(path) /\ unwinding = 0 /\ Len(chain) < Len(path[most])
  BY Zenon DEF LeafDBInv, RestTyped, WorldOK, ActivationOK, Height
<1>3. k = path[most][Len(chain) + 1] /\ Begins(chain, path[most])
  BY Zenon DEF Connecting, OnTarget
<1>4. /\ k \in Block /\ path[k] = Append(chain, k) /\ k \notin Range(chain)
      /\ Range(path[k]) \subseteq Range(path[most])
      /\ Len(path[k]) = Len(chain) + 1
  <2>1. PICK t \in 0..N : chain = path[t]
    BY <1>1, Zenon
  <2>2. Begins(path[t], path[most]) /\ Len(path[t]) < Len(path[most]) /\ k = path[most][Len(path[t]) + 1]
    BY <1>2, <1>3, <2>1, Zenon
  <2>3. /\ k \in Block /\ path[k] = Append(path[t], k) /\ k \notin Range(path[t])
        /\ Range(path[k]) \subseteq Range(path[most])
        /\ Len(path[k]) = Len(path[t]) + 1
    <3>1. PICK m \in 0..N : m = most
      BY <1>2, Zenon
    <3>2. Begins(path[t], path[m]) /\ Len(path[t]) < Len(path[m])
      BY <2>2, <3>1, Zenon
    <3>3. k = path[m][Len(path[t]) + 1]
      BY <2>2, <3>1, Zenon
    <3>4. Range(path[k]) \subseteq Range(path[m])
      BY <1>2, <3>2, <3>3, Longer, ZenonT(60)
    <3>5. k \in Block /\ Len(path[k]) = Len(path[t]) + 1
      BY <1>2, <3>2, <3>3, Longer
    <3>6. path[k] = Append(path[t], k)
      BY <1>2, <3>2, <3>3, Longer
    <3>7. k \notin Range(path[t])
      BY <1>2, <3>2, <3>3, Longer, Zenon
    <3> QED
      BY <3>1, <3>4, <3>5, <3>6, <3>7, Zenon
  <2> QED
    BY <2>1, <2>3, Zenon
<1>5. path[most][Len(path[most])] = most /\ Len(path[most]) \in Nat
  <2>1. most \in Block
    BY <1>2 DEF Block
  <2> QED
    BY <1>2, <2>1, PathRange, Zenon DEF PathsOK
<1>6. k # most => Len(path[k]) < Len(path[most])
  <2>1. Len(path[most]) # Len(chain) + 1 => Len(chain) + 1 < Len(path[most])
    BY <1>1, <1>2, <1>5
  <2> QED
    BY <1>3, <1>4, <1>5, <2>1, Zenon
<1> QED
  BY <1>2, <1>4, <1>6, Zenon
LEMMA StepReturnsTyped ==
    ASSUME RestTyped, NEW t, NEW m \in 0..N, StepReturns(t, m)
    PROVE  most' = m /\ most' \in 0..N /\ old' = NoStep /\ old' \in NoStep..N
           /\ lock' \in BOOLEAN /\ start' \in 0..N
<1> USE NumberOfBlocks
<1>1. most' = m /\ old' = NoStep /\ start' \in 0..N
  BY DEF RestTyped, StepReturns
<1>2. lock' \in BOOLEAN
  <2>1. lock' = (Height(t) < Height(start))
    BY Zenon DEF StepReturns
  <2> DEFINE q == Height(t) < Height(start)
  <2>2. q \in BOOLEAN
    OBVIOUS
  <2> HIDE DEF q
  <2>3. lock' = q
    BY <2>1, Zenon DEF q
  <2> QED
    BY <2>2, <2>3, Zenon
<1> QED
  BY <1>1, <1>2 DEF NoStep

LEMMA ConnectTipKeeps ==
    ASSUME LeafDBInv, ConnectTip
    PROVE  LeafDBInv'
<1> USE NumberOfBlocks
<1>k. PICK k : k = Connecting
  BY Zenon
<1>0. /\ UNCHANGED world /\ have' = have /\ failed' = failed
      /\ UNCHANGED <<operator, durable, events>> /\ old # NoStep /\ OnTarget
      /\ SpendsFresh(k, Tables) /\ chain' = Append(chain, k) /\ TablesBecome(Mark(k, Tables))
      /\ \/ k = most /\ StepReturns(k, 0)
         \/ k # most /\ StepReturns(k, most)
         \/ k # most /\ UNCHANGED activation
  BY <1>k, Zenon DEF ConnectTip
<1>1. path' = path /\ WorldOK'
  BY <1>0, WorldStays, Zenon DEF LeafDBInv
<1>2. /\ k \in Block /\ path[k] = Append(chain, k) /\ k \notin Range(chain)
      /\ Range(path[k]) \subseteq Range(path[most])
      /\ Len(path[k]) = Len(chain) + 1 /\ most # 0 /\ unwinding = 0
      /\ k # most => Len(path[k]) < Len(path[most])
  BY <1>0, <1>k, ConnectingIs, Zenon
<1>3. Range(path[most]) \subseteq have /\ Range(path[most]) \cap failed = {}
  BY <1>2, Zenon DEF LeafDBInv, ActivationOK, Candidate, Failed
<1>4. ChainTyped' /\ ChainOK'
  <2>1. k \in 0..N /\ chain' = path[k]
    BY <1>0, <1>2 DEF Block
  <2>2. Range(path[k]) \subseteq have' /\ Range(path[k]) \cap failed' = {}
    BY <1>0, <1>2, <1>3, Zenon
  <2> QED
    BY <1>0, <2>1, <2>2, ChainStep, Zenon DEF LeafDBInv
<1>5. /\ most' = 0 \/ (k # most /\ most' = most)
      /\ most' \in 0..N /\ old' \in NoStep..N /\ lock' \in BOOLEAN /\ start' \in 0..N
      /\ old' # NoStep => most' # 0
  <2>1. RestTyped /\ 0 \in 0..N /\ most \in 0..N
    BY DEF LeafDBInv, RestTyped
  <2>2. CASE k = most /\ StepReturns(k, 0)
    BY <2>1, <2>2, StepReturnsTyped, Zenon
  <2>3. CASE k # most /\ StepReturns(k, most)
    BY <2>1, <2>3, StepReturnsTyped, Zenon
  <2>4. CASE k # most /\ UNCHANGED activation
    BY <1>2, <2>1, <2>4, Zenon DEF RestTyped, activation
  <2> QED
    BY <1>0, <2>2, <2>3, <2>4, Zenon
<1>6. RestTyped'
  BY <1>0, <1>5, Zenon DEF LeafDBInv, RestTyped, operator, durable
<1>7. ActivationOK'
  <2>1. unwinding' = 0 /\ coins' = coins
    BY <1>0, <1>2, Zenon DEF operator, durable
  <2>2. most' # 0 => Candidate(most)' /\ Len(chain') < Height(most)'
    <3>1. most' # 0 => most' = most /\ k # most
      BY <1>5, Zenon
    <3> QED
      BY <1>0, <1>1, <1>2, <1>3, <3>1, Zenon DEF Candidate, Failed, Height
  <2> QED
    BY <1>0, <1>1, <1>5, <2>1, <2>2, Zenon DEF LeafDBInv, ActivationOK
<1>8. TablesOK(Tables, chain, have)'
  <2>1. TablesOK(Mark(k, Tables), Append(chain, k), have)
    BY <1>0, <1>2, TipFacts, MarkKeeps, Zenon DEF LeafDBInv
  <2>2. leaf' = Mark(k, Tables).leaf /\ list' = Mark(k, Tables).list
    BY <1>0, Zenon DEF TablesBecome
  <2> QED
    BY <1>0, <2>1, <2>2, TablesStep, Zenon
<1>9. FailedOnlyByReuse'
  BY <1>0, FailedStep, Zenon DEF LeafDBInv, operator
<1> QED
  BY <1>1, <1>4, <1>6, <1>7, <1>8, <1>9 DEF LeafDBInv

\* ConnectBlock refuses a block for a reuse on its own chain.
LEMMA RefusedIsJustified ==
    ASSUME LeafDBInv, old # NoStep, OnTarget, NEW k, k = Connecting, ~SpendsFresh(k, Tables)
    PROVE  Justified(k)
<1> USE NumberOfBlocks
<1> DEFINE s == SpendUses(k)
           p == path[k]
<1>1. k \in Block /\ p = Append(chain, k) /\ Len(p) = Len(chain) + 1
  BY ConnectingIs, Zenon
<1>2. s \in Seq(SpendLeaf) /\ Range(s) \subseteq Leaf /\ WorldOK
  BY <1>1, UsesTyped, Zenon DEF LeafDBInv
<1>3. \/ ~IsInjective(s) \/ cb[k] \in Range(s)
      \/ \E i \in 1..Len(s) : leaf[s[i]] # 0
  BY Zenon DEF SpendsFresh, Tables
<1>4. ASSUME NEW i \in 1..Len(s), leaf[s[i]] # 0
      PROVE  \E j \in 1..(Len(p) - 1) : Range(s) \cap Uses(p[j]) # {}
  <2>1. PICK l : l = s[i]
    BY Zenon
  <2>2. l \in Range(s) /\ l \in Leaf
    BY <1>2, <2>1 DEF Range
  <2>3. PICK c : c = leaf[l]
    BY Zenon
  <2>4. c \in Range(chain) /\ l \in Uses(c)
    BY <1>4, <2>1, <2>2, <2>3, Zenon DEF LeafDBInv, TablesOK, Exact, Tables
  <2>5. chain \in Seq(Block) /\ Len(chain) \in Nat
    BY TipFacts, Zenon
  <2>6. PICK j \in 1..Len(chain) : c = chain[j]
    BY <2>4, <2>5 DEF Range
  <2>7. p[j] = chain[j]
    BY <1>1, <2>5, AppendProperties
  <2>8. j \in 1..(Len(p) - 1)
    BY <1>1, <2>5, SMTT(60)
  <2> HIDE DEF s, p
  <2> QED
    BY <2>2, <2>4, <2>6, <2>7, <2>8, Zenon
<1>5. ReuseOnPath(k)
  BY <1>3, <1>4, Zenon DEF ReuseOnPath
<1> QED
  BY <1>5, Zenon DEF Justified
LEMMA ConnectTipFailsKeeps ==
    ASSUME LeafDBInv, ConnectTipFails
    PROVE  LeafDBInv'
<1> USE NumberOfBlocks
<1>k. PICK k : k = Connecting
  OBVIOUS
<1>0. /\ UNCHANGED world /\ have' = have /\ chain' = chain /\ leaf' = leaf /\ list' = list
      /\ UNCHANGED <<operator, durable, events>> /\ old # NoStep /\ OnTarget
      /\ ~SpendsFresh(k, Tables) /\ failed' = failed \cup {k} /\ StepReturns(Tip, 0)
  BY <1>k, Zenon DEF ConnectTipFails, InvalidBlockFound
<1>1. path' = path /\ WorldOK'
  BY <1>0, WorldStays, Zenon DEF LeafDBInv
<1>2. k \in Block /\ k \notin Range(chain) /\ unwinding = 0
  BY <1>0, <1>k, ConnectingIs, Zenon
<1>3. ChainTyped' /\ ChainOK'
  <2>1. Range(chain) \subseteq have' /\ Range(chain) \cap failed' = {}
    BY <1>0, <1>2, TipFacts, Zenon
  <2> QED
    BY <1>0, <2>1, TipFacts, ChainStep, Zenon DEF LeafDBInv
<1>4. most' = 0 /\ old' = NoStep /\ old' \in NoStep..N /\ lock' \in BOOLEAN /\ start' \in 0..N
  <2>1. RestTyped /\ 0 \in 0..N
    BY DEF LeafDBInv
  <2> QED
    BY <1>0, <2>1, StepReturnsTyped, Zenon
<1>5. RestTyped'
  BY <1>0, <1>2, <1>4, Zenon DEF LeafDBInv, RestTyped, operator, durable
<1>6. ActivationOK'
  BY <1>0, <1>1, <1>2, <1>4, Zenon DEF LeafDBInv, ActivationOK, operator, durable
<1>7. TablesOK(Tables, chain, have)'
  BY <1>0, TablesStep, Zenon DEF LeafDBInv, Tables
<1>8. FailedOnlyByReuse'
  <2>1. Justified(k)
    BY <1>0, <1>k, RefusedIsJustified, Zenon
  <2>2. condemned' = condemned
    BY <1>0, Zenon DEF operator
  <2> QED
    BY <1>0, <2>1, <2>2, FailedStep, Zenon DEF LeafDBInv
<1> QED
  BY <1>1, <1>3, <1>5, <1>6, <1>7, <1>8 DEF LeafDBInv

\* One turn of InvalidateBlock's loop.
LEMMA UnwindTipKeeps ==
    ASSUME LeafDBInv, NEW b \in Range(chain), most = 0, UnwindTip(b), events' \in 0..MaxEvents
    PROVE  LeafDBInv'
<1> USE NumberOfBlocks
<1>0. /\ UNCHANGED world /\ have' = have /\ UNCHANGED <<activation, durable>>
      /\ chain' = Beneath(chain) /\ TablesBecome(Unmark({Tip}, Tables))
      /\ failed' = failed \cup {Tip} /\ condemned' = condemned \cup {Tip}
      /\ unwinding' = IF Tip = b THEN 0 ELSE b
  BY Zenon DEF UnwindTip
<1>1. path' = path /\ WorldOK'
  BY <1>0, WorldStays, Zenon DEF LeafDBInv
<1>2. chain # <<>> /\ b \in Block
  <2>1. Range(<<>>) = {}
    BY SMTT(60) DEF Range
  <2> QED
    BY <2>1, TipFacts, Zenon
<1>3. /\ TablesOK(Tables, chain, have)'
      /\ \E u \in 0..N : chain' = path[u]
      /\ Range(chain') = Range(chain) \ {Tip}
  BY <1>0, <1>2, TipGoes, Zenon
<1>4. PICK u \in 0..N : chain' = path[u]
  BY <1>3, Zenon
<1>5. ChainTyped' /\ ChainOK'
  <2>1. Range(path[u]) \subseteq have' /\ Range(path[u]) \cap failed' = {}
    BY <1>0, <1>3, <1>4, TipFacts, ZenonT(60)
  <2> QED
    BY <1>0, <1>4, <2>1, ChainStep, Zenon DEF LeafDBInv
<1>6. RestTyped'
  <2>1. Tip \in Block /\ unwinding' \in 0..N
    BY <1>0, <1>2, TipFacts DEF Block
  <2> QED
    BY <1>0, <2>1, Zenon DEF LeafDBInv, RestTyped, activation, durable
<1>7. ActivationOK'
  <2>1. most' = 0 /\ old' = old /\ coins' = coins
    BY <1>0, Zenon DEF activation, durable
  <2>2. unwinding' # 0 => unwinding' \in Range(chain')
    BY <1>0, <1>3, Zenon
  <2> QED
    BY <1>0, <1>1, <2>1, <2>2, Zenon DEF LeafDBInv, ActivationOK
<1>8. FailedOnlyByReuse'
  BY <1>0, FailedStep, Zenon DEF LeafDBInv
<1> QED
  BY <1>1, <1>3, <1>5, <1>6, <1>7, <1>8, Zenon DEF LeafDBInv

LEMMA CommandCounts ==
    ASSUME LeafDBInv, NEW c, Command(c)
    PROVE  events' \in 0..MaxEvents
BY LeafDBConstantsOK DEF LeafDBInv, RestTyped, Command, LeafDBConstantsOK

LEMMA InvalidateBlockKeeps ==
    ASSUME LeafDBInv, NEW b \in Block, InvalidateBlock(b)
    PROVE  LeafDBInv'
<1> USE NumberOfBlocks
<1>0. events' \in 0..MaxEvents /\ most = 0
  BY CommandCounts, Zenon DEF InvalidateBlock
<1>a. CASE b \in Range(chain) /\ UnwindTip(b)
  BY <1>0, <1>a, UnwindTipKeeps, Zenon
<1>b. CASE /\ b \notin Range(chain)
           /\ failed' = failed \cup {b} /\ condemned' = condemned \cup {b}
           /\ UNCHANGED <<world, have, chain, leaf, list, activation, unwinding, durable>>
  <2>1. path' = path /\ WorldOK'
    BY <1>b, WorldStays, Zenon DEF LeafDBInv
  <2>2. ChainTyped' /\ ChainOK'
    <3>1. Range(chain) \subseteq have' /\ Range(chain) \cap failed' = {}
      BY <1>b, TipFacts, Zenon
    <3> QED
      BY <1>b, <3>1, TipFacts, ChainStep, Zenon DEF LeafDBInv
  <2>3. RestTyped'
    BY <1>0, <1>b, Zenon DEF LeafDBInv, RestTyped, activation, durable
  <2>4. ActivationOK'
    BY <1>0, <1>b, <2>1, Zenon DEF LeafDBInv, ActivationOK, activation, durable
  <2>5. TablesOK(Tables, chain, have)'
    BY <1>b, TablesStep, Zenon DEF LeafDBInv, Tables
  <2>6. FailedOnlyByReuse'
    BY <1>b, FailedStep, Zenon DEF LeafDBInv
  <2> QED
    BY <2>1, <2>2, <2>3, <2>4, <2>5, <2>6 DEF LeafDBInv
<1> QED
  BY <1>a, <1>b, Zenon DEF InvalidateBlock

LEMMA InvalidateGoesOnKeeps ==
    ASSUME LeafDBInv, InvalidateGoesOn
    PROVE  LeafDBInv'
<1>1. unwinding \in Range(chain) /\ most = 0 /\ UnwindTip(unwinding) /\ events' \in 0..MaxEvents
  BY Zenon DEF LeafDBInv, ActivationOK, RestTyped, InvalidateGoesOn
<1> QED
  BY <1>1, UnwindTipKeeps, Zenon

LEMMA ReconsiderBlockKeeps ==
    ASSUME LeafDBInv, NEW b \in Block, ReconsiderBlock(b)
    PROVE  LeafDBInv'
<1> USE NumberOfBlocks
<1>0. /\ events' \in 0..MaxEvents /\ failed' \subseteq failed /\ condemned' \subseteq condemned
      /\ \A x \in failed' \ condemned' : x \in failed \ condemned
      /\ UNCHANGED <<world, have, chain, leaf, list, activation, unwinding, durable>>
  BY CommandCounts, Zenon DEF ReconsiderBlock
<1>1. path' = path /\ WorldOK'
  BY <1>0, WorldStays, Zenon DEF LeafDBInv
<1>2. ChainTyped' /\ ChainOK'
  <2>1. Range(chain) \subseteq have' /\ Range(chain) \cap failed' = {}
    BY <1>0, TipFacts, Zenon
  <2> QED
    BY <1>0, <2>1, TipFacts, ChainStep, Zenon DEF LeafDBInv
<1>3. RestTyped'
  BY <1>0, Zenon DEF LeafDBInv, RestTyped, activation, durable
<1>4. ActivationOK'
  <2>1. most # 0 => Candidate(most)'
    BY <1>0, <1>1, Zenon DEF LeafDBInv, ActivationOK, Candidate, Failed, activation
  <2> QED
    BY <1>0, <1>1, <2>1, Zenon DEF LeafDBInv, ActivationOK, activation, durable, Height
<1>5. TablesOK(Tables, chain, have)'
  BY <1>0, TablesStep, Zenon DEF LeafDBInv, Tables
<1>6. FailedOnlyByReuse'
  BY <1>0, FailedStep, Zenon DEF LeafDBInv
<1> QED
  BY <1>1, <1>2, <1>3, <1>4, <1>5, <1>6 DEF LeafDBInv
LEMMA FlushStateToDiskKeeps ==
    ASSUME LeafDBInv, NEW full \in BOOLEAN, FlushStateToDisk(full)
    PROVE  LeafDBInv'
<1> USE NumberOfBlocks
<1>0. /\ UNCHANGED <<world, have, failed, chain, leaf, list, activation, operator, events>>
      /\ disk' = [have |-> have, failed |-> failed]
      /\ coins' = Tip \/ coins' = coins
  BY Zenon DEF FlushStateToDisk
<1>1. path' = path /\ WorldOK'
  BY <1>0, WorldStays, Zenon DEF LeafDBInv
<1>2. ChainTyped' /\ ChainOK'
  BY <1>0, TipFacts, ChainStep, Zenon DEF LeafDBInv
<1>3. RestTyped'
  <2>1. coins' \in 0..N
    BY <1>0, TipFacts, Zenon DEF LeafDBInv, RestTyped
  <2> QED
    BY <1>0, <2>1, Zenon DEF LeafDBInv, RestTyped, activation, operator
<1>4. ActivationOK'
  <2>1. Range(path[coins']) \subseteq have
    BY <1>0, TipFacts, ZenonT(60) DEF LeafDBInv, ActivationOK
  <2>2. most # 0 => Candidate(most)'
    BY <1>0, <1>1, Zenon DEF LeafDBInv, ActivationOK, Candidate, Failed, activation
  <2> QED
    BY <1>0, <1>1, <2>1, <2>2, Zenon DEF LeafDBInv, ActivationOK, activation, operator, Height
<1>5. TablesOK(Tables, chain, have)'
  BY <1>0, TablesStep, Zenon DEF LeafDBInv, Tables
<1>6. FailedOnlyByReuse'
  BY <1>0, FailedStep, Zenon DEF LeafDBInv, operator
<1> QED
  BY <1>1, <1>2, <1>3, <1>4, <1>5, <1>6, Zenon DEF LeafDBInv

\* A clean stop or a flush cut short, and the start after it.
LEMMA RestartKeeps ==
    ASSUME LeafDBInv, NEW stop \in Stops, stop # "crash", CheckLevel # 3, Restart(stop)
    PROVE  LeafDBInv' /\ have' = have
<1> USE NumberOfBlocks
<1> DEFINE replayed == IF stop = "torn" THEN ReplayBlocks(coins, Tip, Tables) ELSE Tables
           verified == VerifyDB(path[Tip], replayed)
<1>0. /\ UNCHANGED world /\ have' = have /\ failed' = failed /\ chain' = path[Tip]
      /\ verified.ok /\ TablesBecome(verified.db)
      /\ lock' = FALSE /\ most' = 0 /\ start' = 0 /\ old' = NoStep /\ unwinding' = 0
      /\ condemned' = condemned /\ coins' = Tip /\ disk' = [have |-> have, failed |-> failed]
      /\ events' = events + 2 /\ events + 2 <= MaxEvents
  BY Zenon DEF Restart
<1>1. path' = path /\ WorldOK'
  BY <1>0, WorldStays, Zenon DEF LeafDBInv
<1>2. Tip \in 0..N /\ chain = path[Tip] /\ Range(chain) \subseteq have /\ Range(chain) \cap failed = {}
  BY TipFacts, Zenon
<1>3. ChainTyped' /\ ChainOK'
  BY <1>0, <1>2, ChainStep, Zenon DEF LeafDBInv
<1>4. RestTyped'
  <2>1. events' \in 0..MaxEvents /\ old' \in NoStep..N
    BY <1>0, LeafDBConstantsOK DEF LeafDBInv, RestTyped, NoStep, LeafDBConstantsOK
  <2>2. lock' \in BOOLEAN
    BY <1>0, ZenonT(60)
  <2> QED
    BY <1>0, <1>2, <2>1, <2>2, SMTT(60) DEF LeafDBInv, RestTyped
<1>5. ActivationOK'
  BY <1>0, <1>1, <1>2, Zenon DEF ActivationOK
<1>6. TablesOK(Tables, chain, have)'
  <2>1. TablesOK(Tables, path[Tip], have) /\ WorldOK
    BY <1>2, Zenon DEF LeafDBInv
  <2>2. TablesOK(replayed, path[Tip], have)
    <3>1. coins \in 0..N /\ Range(path[coins]) \subseteq have
      BY Zenon DEF LeafDBInv, RestTyped, ActivationOK
    <3>2. TablesOK(ReplayBlocks(coins, Tip, Tables), path[Tip], have)
      BY <1>2, <2>1, <3>1, ReplayKeeps, Zenon
    <3> QED
      BY <2>1, <3>2, Zenon
  <2> HIDE DEF replayed
  <2>3. TablesOK(verified.db, path[Tip], have)
    BY <1>0, <1>2, <2>1, <2>2, VerifyKeeps, Zenon
  <2> HIDE DEF verified
  <2>4. leaf' = verified.db.leaf /\ list' = verified.db.list
    BY <1>0, Zenon DEF TablesBecome
  <2> QED
    BY <1>0, <2>3, <2>4, TablesStep, Zenon
<1>7. FailedOnlyByReuse'
  BY <1>0, FailedStep, Zenon DEF LeafDBInv
<1> QED
  BY <1>0, <1>1, <1>3, <1>4, <1>5, <1>6, <1>7, Zenon DEF LeafDBInv

LEMMA StutterKeeps ==
    ASSUME LeafDBInv, UNCHANGED vars
    PROVE  LeafDBInv'
<1>0. UNCHANGED <<world, have, failed, chain, leaf, list, activation, operator, durable, events>>
  BY Zenon DEF vars
<1>1. path' = path /\ WorldOK'
  BY <1>0, WorldStays, Zenon DEF LeafDBInv
<1>2. ChainTyped' /\ ChainOK'
  BY <1>0, TipFacts, ChainStep, Zenon DEF LeafDBInv
<1>3. RestTyped'
  BY <1>0, Zenon DEF LeafDBInv, RestTyped, activation, operator, durable
<1>4. ActivationOK'
  <2>1. most # 0 => Candidate(most)'
    BY <1>0, <1>1, Zenon DEF LeafDBInv, ActivationOK, Candidate, Failed, activation
  <2> QED
    BY <1>0, <1>1, <2>1, Zenon DEF LeafDBInv, ActivationOK, activation, operator, durable, Height
<1>5. TablesOK(Tables, chain, have)'
  BY <1>0, TablesStep, Zenon DEF LeafDBInv, Tables
<1>6. FailedOnlyByReuse'
  BY <1>0, FailedStep, Zenon DEF LeafDBInv, operator
<1> QED
  BY <1>1, <1>2, <1>3, <1>4, <1>5, <1>6, Zenon DEF LeafDBInv

LEMMA NextKeeps ==
    ASSUME "crash" \notin Stops, CheckLevel # 3, LeafDBInv, [Next]_vars
    PROVE  LeafDBInv'
<1>1. ASSUME NEW b \in Block, AcceptBlock(b) PROVE LeafDBInv'
  BY <1>1, AcceptBlockKeeps, Zenon
<1>2. ASSUME NEW b \in Block, InvalidateBlock(b) \/ ReconsiderBlock(b) PROVE LeafDBInv'
  BY <1>2, InvalidateBlockKeeps, ReconsiderBlockKeeps, Zenon
<1>3. CASE FindMostWorkChain \/ DisconnectTip \/ ConnectTip \/ ConnectTipFails
  BY <1>3, FindMostWorkChainKeeps, DisconnectTipKeeps, ConnectTipKeeps, ConnectTipFailsKeeps, Zenon
<1>4. CASE InvalidateGoesOn
  BY <1>4, InvalidateGoesOnKeeps, Zenon
<1>5. ASSUME NEW full \in BOOLEAN, FlushStateToDisk(full) PROVE LeafDBInv'
  BY <1>5, FlushStateToDiskKeeps, Zenon
<1>6. ASSUME NEW stop \in Stops, Restart(stop) PROVE LeafDBInv'
  BY <1>6, RestartKeeps, Zenon
<1>7. CASE UNCHANGED vars
  BY <1>7, StutterKeeps, Zenon
<1> QED
  BY <1>1, <1>2, <1>3, <1>4, <1>5, <1>6, <1>7, Zenon DEF Next

LEMMA InitHolds ==
    ASSUME Init
    PROVE  LeafDBInv
<1> USE NumberOfBlocks
<1>1. WorldOK
  <2>1. PICK p \in [Block -> 0..N] : (\A b \in Block : p[b] < b) /\ path = PathsOf(p)
    BY Zenon DEF Init
  <2>2. PathsOK(path)
    BY <2>1, PathsOfStep, PathsShape, Zenon
  <2>3. cb \in [Block -> Block]
    BY Zenon DEF Init
  <2>4. spends \in [Block -> Seq(SpendLeaf)]
    <3>1. spends \in [Block -> UNION {[1..n -> SpendLeaf] : n \in 0..MaxSpends}]
      BY Zenon DEF Init, Contents
    <3>2. MaxSpends \in Nat
      BY LeafDBConstantsOK, Zenon DEF LeafDBConstantsOK
    <3>3. \A n \in 0..MaxSpends : [1..n -> SpendLeaf] \subseteq Seq(SpendLeaf)
      BY <3>2, SeqDef
    <3>4. UNION {[1..n -> SpendLeaf] : n \in 0..MaxSpends} \subseteq Seq(SpendLeaf)
      BY <3>3, Zenon
    <3> QED
      BY <3>1, <3>4, Zenon
  <2> QED
    BY <2>2, <2>3, <2>4, Zenon DEF WorldOK
<1>2. chain = <<>> /\ path[0] = <<>> /\ Tip = 0 /\ Range(<<>>) = {}
  BY <1>1, SMTT(60) DEF Init, Tip, WorldOK, PathsOK, Range
<1>3. ChainOK /\ ChainTyped
  BY <1>2, SMTT(60) DEF Init, ChainOK, ChainTyped, Failed
<1>4. RestTyped
  <2>1. lock \in BOOLEAN
    BY Zenon DEF Init
  <2>2. events \in 0..MaxEvents /\ old \in NoStep..N
    BY LeafDBConstantsOK, SMTT(60) DEF Init, NoStep, LeafDBConstantsOK
  <2> QED
    BY <2>1, <2>2 DEF Init, RestTyped
<1>5. ActivationOK
  BY <1>2, Zenon DEF Init, ActivationOK
<1>6. TablesOK(Tables, chain, have)
  <2>1. leaf = [l \in Leaf |-> 0] /\ list = [b \in Block |-> {}]
    BY Zenon DEF Init
  <2>2. Len(chain) = 0 /\ Range(chain) = {}
    BY <1>2, Zenon
  <2>3. Tables.leaf = leaf /\ Tables.list = list
    BY Zenon DEF Tables
  <2>4. leaf \in [Leaf -> 0..N] /\ \A l \in Leaf : leaf[l] = 0
    BY <2>1, NumberOfBlocks
  <2>5. list \in [Block -> SUBSET Leaf] /\ \A b \in Block : list[b] = {}
    BY <2>1, Zenon
  <2>6. Exact(Tables, chain)
    BY <2>2, <2>3, <2>4, <2>5, Zenon DEF Exact
  <2>7. \A j \in 1..Len(chain) : FALSE
    BY <2>2
  <2> QED
    BY <2>2, <2>3, <2>4, <2>5, <2>6, <2>7, Zenon DEF TablesOK, Covered, SpendsOnce
<1>7. FailedOnlyByReuse
  BY Zenon DEF Init, FailedOnlyByReuse
<1> QED
  BY <1>1, <1>3, <1>4, <1>5, <1>6, <1>7, Zenon DEF LeafDBInv

-----------------------------------------------------------------------------
(* Theorems.  They are about nodes that stop cleanly or in the middle of a      *)
(* flush, and that check their chain below level 3 or at level 4: after a crash *)
(* between flushes, or the check at level 3, the tables are not exact.          *)

\* What keeps the tables, the active chain, the target of ActivateBestChain and
\* the failure flags in step.
THEOREM LeafDBInvariance ==
    ASSUME "crash" \notin Stops, CheckLevel # 3
    PROVE  Spec => []LeafDBInv
<1>1. Init => LeafDBInv
  BY InitHolds, Zenon
<1>2. LeafDBInv /\ [Next]_vars => LeafDBInv'
  BY NextKeeps, Zenon
<1> QED
  BY <1>1, <1>2, PTL DEF Spec

\* ActivateBestChain, InvalidateBlock and the start-up keep the active chain a
\* path of stored blocks none of which is marked invalid.
THEOREM ChainValid ==
    ASSUME "crash" \notin Stops, CheckLevel # 3
    PROVE  Spec => []TypeOK
<1>1. LeafDBInv => TypeOK
  BY Zenon DEF LeafDBInv, ChainTyped, RestTyped, TablesOK, Tables, TypeOK
<1> QED
  BY <1>1, LeafDBInvariance, PTL

\* ConnectBlock and DisconnectBlock leave no entry behind: each names a block of
\* the active chain that uses the leaf, and the lists are those of its blocks.
THEOREM TablesExact ==
    ASSUME "crash" \notin Stops, CheckLevel # 3
    PROVE  Spec => []NoStaleMarks
<1>1. LeafDBInv => NoStaleMarks
  BY Zenon DEF LeafDBInv, TablesOK, Exact, Tables, NoStaleMarks
<1> QED
  BY <1>1, LeafDBInvariance, PTL

\* Every leaf of the active chain is marked, or another block is mined with it.
THEOREM TablesComplete ==
    ASSUME "crash" \notin Stops, CheckLevel # 3
    PROVE  Spec => []MarksComplete
<1>1. ASSUME LeafDBInv PROVE MarksComplete
  <2>1. have \subseteq Block
    BY <1>1, Zenon DEF LeafDBInv, RestTyped
  <2>2. \A l, b : MinedByStored(l, b, have) => MinedElsewhere(l, b)
    BY <2>1, Zenon DEF MinedByStored, MinedElsewhere
  <2> QED
    BY <1>1, <2>2, Zenon DEF LeafDBInv, TablesOK, Covered, Tables, MarksComplete
<1> QED
  BY <1>1, LeafDBInvariance, PTL

\* ConnectBlock's check of spent leaves, against tables that reorganisations and
\* restarts have rewritten, lets no spend of the active chain reuse a leaf.
THEOREM SpendsNeverReuse ==
    ASSUME "crash" \notin Stops, CheckLevel # 3
    PROVE  Spec => []NoSpendReuse
<1>1. ASSUME LeafDBInv PROVE NoSpendReuse
  <2>1. have \subseteq Block
    BY <1>1 DEF LeafDBInv, RestTyped
  <2>2. \A l, b : MinedByStored(l, b, have) => MinedElsewhere(l, b)
    BY <2>1 DEF MinedByStored, MinedElsewhere
  <2> QED
    BY <1>1, <2>2, Zenon DEF LeafDBInv, TablesOK, SpendsOnce, NoSpendReuse
<1> QED
  BY <1>1, LeafDBInvariance, PTL

\* CheckPoUW and ConnectBlock mark a block invalid only for a reuse.
THEOREM FailuresJustified ==
    ASSUME "crash" \notin Stops, CheckLevel # 3
    PROVE  Spec => []FailedOnlyByReuse
<1>1. LeafDBInv => FailedOnlyByReuse
  BY Zenon DEF LeafDBInv
<1> QED
  BY <1>1, LeafDBInvariance, PTL

\* AcceptBlock stores no block that is mined with a leaf of the active chain.
THEOREM ArrivalChecked ==
    ASSUME "crash" \notin Stops, CheckLevel # 3
    PROVE  Spec => NoReuseAtArrival
<1> DEFINE Arrival == \A b \in have' \ have : \A c \in Range(chain) :
                        cb[b] \in Uses(c) /\ Height(b) >= MiningActivation
                        => \E d \in have \ {c} : cb[d] = cb[b]
<1>1. ASSUME LeafDBInv, Next PROVE Arrival
  <2>1. ASSUME NEW b \in Block, AcceptBlock(b) PROVE Arrival
    <3> SUFFICES ASSUME NEW x \in have' \ have, NEW c \in Range(chain),
                        cb[x] \in Uses(c), Height(x) >= MiningActivation
                 PROVE  \E d \in have \ {c} : cb[d] = cb[x]
      BY Zenon
    <3>1. x = b /\ CheckPoUW(b)
      BY <2>1, Zenon DEF AcceptBlock
    <3>2. leaf[cb[x]] = 0
      BY <3>1, Zenon DEF CheckPoUW
    <3>3. MinedByStored(cb[x], c, have)
      BY <1>1, <3>2, Zenon DEF LeafDBInv, TablesOK, Covered, Tables
    <3> QED
      BY <3>3, Zenon DEF MinedByStored
  <2>2. ASSUME have' = have PROVE Arrival
    BY <2>2, Zenon
  <2>3. ASSUME NEW stop \in Stops, Restart(stop) PROVE have' = have
    BY <1>1, <2>3, RestartKeeps, Zenon
  <2>4. ASSUME NEW b \in Block, InvalidateBlock(b) \/ ReconsiderBlock(b) PROVE have' = have
    BY <2>4, Zenon DEF InvalidateBlock, UnwindTip, ReconsiderBlock
  <2>5. CASE \/ FindMostWorkChain \/ DisconnectTip \/ ConnectTip \/ ConnectTipFails
             \/ InvalidateGoesOn \/ \E full \in BOOLEAN : FlushStateToDisk(full)
    <3>1. have' = have
      BY <2>5, Zenon DEF FindMostWorkChain, DisconnectTip, ConnectTip, ConnectTipFails, InvalidateGoesOn,
                  UnwindTip, FlushStateToDisk
    <3> QED
      BY <2>2, <3>1, Zenon
  <2> HIDE DEF Arrival
  <2> QED
    BY <1>1, <2>1, <2>2, <2>3, <2>4, <2>5, Zenon DEF Next
<1>2. LeafDBInv /\ [Next]_vars => [Arrival]_vars
  BY <1>1, Zenon
<1> QED
  BY <1>2, LeafDBInvariance, PTL DEF Spec, NoReuseAtArrival
=============================================================================
