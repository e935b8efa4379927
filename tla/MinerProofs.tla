---------------------------- MODULE MinerProofs ----------------------------
(***************************************************************************)
(* Theorems about Miner for every number of RPC threads, trees, leaves and *)
(* templates: types, that no leaf signs twice although every call works on *)
(* its own copy of the pointer file, and that every block handed on passes *)
(* what CheckPoUW asks of it.                                              *)
(***************************************************************************)
EXTENDS Miner, FiniteSetTheorems, TLAPS

-----------------------------------------------------------------------------
(* The inductive invariant *)

\* The call's root and position are those of a tree.
Live(t) == pc[t] \notin {"idle", "build"}

\* The call has signed and is on its way to ProcessNewBlock.
Pending(t) == pc[t] \in {"write", "rename", "publish"} /\ call[t].then = "publish"

\* Whatever is known of a tree on disk, in a call or in the history, the tree
\* has been generated.
BuiltInv ==
    /\ \A r \in Roots : ledger[r] # NoFile => r \in built
    /\ \A r \in Roots, l \in 0..MaxLeaves : used[r][l] > 0 => r \in built
    /\ \A s \in {pointer, tmp} \ {NoTree} : s.root \in built
    /\ \A t \in Threads : Live(t) => call[t].root \in built

\* Where a call is tells what it has found out about its tree.
ControlInv ==
    \A t \in Threads :
      /\ pc[t] = "build" => call[t].then # "publish"
      /\ pc[t] = "publish" => call[t].then = "publish"
      /\ pc[t] = "claim" \/ Pending(t) => call[t].root <= call[t].target

\* A call's failed seeds are of trees that miss its target, and not too many.
SeedsInv ==
    \A t \in Threads :
      /\ IsFiniteSet(call[t].seeds) /\ Cardinality(call[t].seeds) <= MaxSeeds
      /\ \A r \in call[t].seeds : r > call[t].target

\* The leaf of a block, or of a block to be, is one the ledger has passed, and
\* belongs to that block alone.
PendingInv ==
    /\ \A t \in Threads : Pending(t) =>
         /\ call[t].next >= 1
         /\ ledger[call[t].root] # NoFile /\ call[t].next <= ledger[call[t].root]
         /\ \A b \in blocks : b.root = call[t].root => b.leaf # call[t].next - 1
         /\ \A u \in Threads \ {t} :
              Pending(u) /\ call[u].root = call[t].root => call[u].next # call[t].next
    /\ \A b \in blocks : ledger[b.root] # NoFile /\ b.leaf < ledger[b.root]

MinerInv ==
    /\ LedgerCovers /\ NoLeafTwice /\ BuiltInv
    /\ ControlInv /\ SeedsInv /\ PendingInv /\ BlocksVerify

-----------------------------------------------------------------------------
(* What the steps do, variable by variable *)

LEMMA NoCallTyped ==
    NoCall \in Call /\ NoCall.seeds = {} /\ NoCall.trees = 0 /\ NoCall.then = "loop"
<1>1. (CHOOSE r \in Roots : TRUE) \in Roots /\ (CHOOSE g \in Targets : TRUE) \in Targets
  BY MinerConstantsOK, Zenon
<1> QED
  BY <1>1, MinerConstantsOK DEF NoCall, Call

\* Only the call of t moves: to p, with the locals c.
Moves(t, p, c) ==
    /\ pc' \in [Threads -> PC] /\ call' \in [Threads -> Call]
    /\ \A u \in Threads : pc'[u] = IF u = t THEN p ELSE pc[u]
    /\ \A u \in Threads : call'[u] = IF u = t THEN c ELSE call[u]

LEMMA MovesIfUpdated ==
    ASSUME TypeOK, NEW t \in Threads, NEW p \in PC, NEW c \in Call,
           Goto(t, p), call' = [call EXCEPT ![t] = c]
    PROVE  Moves(t, p, c)
BY Zenon DEF TypeOK, Goto, Moves

LEMMA ReturnMoves ==
    ASSUME TypeOK, NEW t \in Threads, Return(t)
    PROVE  Moves(t, "idle", NoCall)
BY NoCallTyped, MovesIfUpdated, Zenon DEF Return, PC

LEMMA GotoMoves ==
    ASSUME TypeOK, NEW t \in Threads, NEW p \in PC, Goto(t, p), UNCHANGED call
    PROVE  Moves(t, p, call[t])
BY Zenon DEF TypeOK, Goto, Moves

\* A signature adds one to the count of one leaf.
LEMMA SignCounts ==
    ASSUME TypeOK, NEW r \in Roots, NEW leaf \in 0..MaxLeaves, Sign(r, leaf)
    PROVE  /\ used' \in [Roots -> [0..MaxLeaves -> Nat]]
           /\ \A q \in Roots, l \in 0..MaxLeaves :
                used'[q][l] = IF q = r /\ l = leaf THEN used[q][l] + 1 ELSE used[q][l]
<1> DEFINE counts == [used[r] EXCEPT ![leaf] = used[r][leaf] + 1]
<1>1. used \in [Roots -> [0..MaxLeaves -> Nat]] /\ used[r] \in [0..MaxLeaves -> Nat]
  BY Zenon DEF TypeOK
<1>2. used' = [used EXCEPT ![r] = counts]
  BY Zenon DEF Sign
<1>3. counts \in [0..MaxLeaves -> Nat]
  BY <1>1
<1>4. \A l \in 0..MaxLeaves : counts[l] = IF l = leaf THEN used[r][l] + 1 ELSE used[r][l]
  BY <1>1, Zenon
<1> HIDE DEF counts
<1>5. used' \in [Roots -> [0..MaxLeaves -> Nat]]
  BY <1>1, <1>2, <1>3, Zenon
<1>6. \A q \in Roots : used'[q] = IF q = r THEN counts ELSE used[q]
  BY <1>1, <1>2, Zenon
<1> QED
  BY <1>4, <1>5, <1>6, Zenon

\* Registering or adopting a tree keeps an existing ledger file as it is.
LEMMA LedgerInitKeeps ==
    ASSUME TypeOK, NEW r \in Roots, NEW next \in 0..MaxLeaves, LedgerInit(r, next)
    PROVE  /\ ledger' \in [Roots -> 0..MaxLeaves \cup {NoFile}]
           /\ \A q \in Roots : ledger'[q] = IF q = r /\ ledger[q] = NoFile THEN next ELSE ledger[q]
BY Zenon DEF TypeOK, LedgerInit

\* The parts of a call's locals.
LEMMA CallFields ==
    ASSUME TypeOK, NEW t \in Threads
    PROVE  /\ call[t] \in Call /\ pc[t] \in PC
           /\ call[t].root \in Roots /\ call[t].next \in 0..MaxLeaves
           /\ call[t].target \in Targets /\ call[t].seeds \in SUBSET Roots
           /\ call[t].tries \in Nat /\ call[t].trees \in Nat
           /\ call[t].then \in {"register", "loop", "publish"}
BY Zenon DEF TypeOK, Call

\* The locals that each of these steps leaves the call with.
LEMMA StartMoves ==
    ASSUME TypeOK, NEW t \in Threads, NEW g \in Targets, NEW k \in Budgets, Start(t, g, k)
    PROVE  \E c \in Call :
             /\ c.seeds = {} /\ c.trees = 0 /\ c.then # "publish"
             /\ \/ Moves(t, "build", c)
                \/ /\ \E p \in {"adopt", "loop"} : Moves(t, p, c)
                   /\ pointer # NoTree /\ c.root = pointer.root /\ c.next = pointer.next
<1> USE MinerConstantsOK
<1>1. CASE pointer # NoTree /\ pointer.next < MaxLeaves
  <2> DEFINE c == [NoCall EXCEPT !.target = g, !.tries = k,
                                 !.root = pointer.root, !.next = pointer.next]
             p == IF ledger[pointer.root] = NoFile THEN "adopt" ELSE "loop"
  <2>1. pointer \in State
    BY <1>1, Zenon DEF TypeOK
  <2>2. c \in Call /\ c.seeds = {} /\ c.trees = 0 /\ c.then # "publish"
        /\ c.root = pointer.root /\ c.next = pointer.next
    BY <2>1, NoCallTyped, Zenon DEF Call, State
  <2>3. Goto(t, p) /\ call' = [call EXCEPT ![t] = c] /\ p \in {"adopt", "loop"} /\ p \in PC
    BY <1>1, Zenon DEF Start, PC
  <2> HIDE DEF c, p
  <2>4. Moves(t, p, c)
    BY <2>2, <2>3, MovesIfUpdated, Zenon
  <2> QED
    BY <1>1, <2>2, <2>3, <2>4, Zenon
<1>2. CASE ~(pointer # NoTree /\ pointer.next < MaxLeaves)
  <2> DEFINE c == [NoCall EXCEPT !.target = g, !.tries = k, !.then = "register"]
  <2>1. c \in Call /\ c.seeds = {} /\ c.trees = 0 /\ c.then # "publish"
    BY NoCallTyped, Zenon DEF Call
  <2>2. Goto(t, "build") /\ call' = [call EXCEPT ![t] = c]
    BY <1>2, Zenon DEF Start
  <2> HIDE DEF c
  <2> QED
    BY <2>1, <2>2, MovesIfUpdated, Zenon DEF PC
<1> QED
  BY <1>1, <1>2, Zenon
LEMMA BuildMoves ==
    ASSUME TypeOK, NEW t \in Threads, NEW r \in Roots, Goto(t, "write"),
           call' = [call EXCEPT ![t].root = r, ![t].next = 0]
    PROVE  \E c \in Call :
             /\ Moves(t, "write", c) /\ c.root = r /\ c.next = 0
             /\ c.then = call[t].then /\ c.target = call[t].target
             /\ c.seeds = call[t].seeds /\ c.trees = call[t].trees
<1> DEFINE c == [call[t] EXCEPT !.root = r, !.next = 0]
<1>0. 0 \in 0..MaxLeaves
  BY MinerConstantsOK
<1>1. /\ c \in Call /\ c.root = r /\ c.next = 0
      /\ c.then = call[t].then /\ c.target = call[t].target
      /\ c.seeds = call[t].seeds /\ c.trees = call[t].trees
  BY <1>0, Zenon DEF TypeOK, Call
<1>2. call' = [call EXCEPT ![t] = c]
  BY Zenon DEF TypeOK
<1> HIDE DEF c
<1> QED
  BY <1>1, <1>2, MovesIfUpdated, Zenon DEF PC

LEMMA ClaimMoves ==
    ASSUME TypeOK, NEW t \in Threads, Claim(t)
    PROVE  /\ ledger[call[t].root] \in 0..(MaxLeaves - 1)
           /\ \E c \in Call :
                /\ Moves(t, "write", c)
                /\ c.root = call[t].root /\ c.next = ledger[call[t].root] + 1 /\ c.then = "publish"
                /\ c.target = call[t].target /\ c.seeds = call[t].seeds /\ c.trees = call[t].trees
<1> DEFINE leaf == ledger[call[t].root]
           c == [call[t] EXCEPT !.next = leaf + 1, !.then = "publish"]
<1>1. leaf \in 0..(MaxLeaves - 1) /\ leaf + 1 \in 0..MaxLeaves
  BY MinerConstantsOK DEF Claim
<1>2. /\ c \in Call /\ c.root = call[t].root /\ c.next = leaf + 1 /\ c.then = "publish"
      /\ c.target = call[t].target /\ c.seeds = call[t].seeds /\ c.trees = call[t].trees
  BY <1>1, Zenon DEF TypeOK, Call
<1>3. call' = [call EXCEPT ![t] = c] /\ Goto(t, "write")
  BY Zenon DEF TypeOK, Claim
<1> HIDE DEF c
<1> QED
  BY <1>1, <1>2, <1>3, MovesIfUpdated, Zenon DEF PC

LEMMA RefusedMoves ==
    ASSUME TypeOK, NEW t \in Threads, Refused(t)
    PROVE  \E c \in Call :
             /\ Moves(t, "build", c) /\ c.then = "loop" /\ c.target = call[t].target
             /\ c.seeds = call[t].seeds /\ c.trees = call[t].trees
<1> DEFINE c == [call[t] EXCEPT !.then = "loop"]
<1>1. /\ c \in Call /\ c.then = "loop" /\ c.target = call[t].target
      /\ c.seeds = call[t].seeds /\ c.trees = call[t].trees
  BY Zenon DEF TypeOK, Call
<1>2. call' = [call EXCEPT ![t] = c] /\ Goto(t, "build")
  BY Zenon DEF TypeOK, Refused
<1> HIDE DEF c
<1> QED
  BY <1>1, <1>2, MovesIfUpdated, Zenon DEF PC

LEMMA MissMoves ==
    ASSUME TypeOK, NEW t \in Threads, RootMisses(t)
    PROVE  \/ Moves(t, "idle", NoCall)
           \/ \E c \in Call :
                /\ Moves(t, "build", c) /\ c.then = "loop" /\ c.target = call[t].target
                /\ c.seeds = IF Cardinality(call[t].seeds) < MaxSeeds
                             THEN call[t].seeds \cup {call[t].root} ELSE call[t].seeds
                /\ c.trees <= MaxTrees
<1>1. CASE call[t].trees >= MaxTrees
  BY <1>1, ReturnMoves, Zenon DEF RootMisses
<1>2. CASE ~(call[t].trees >= MaxTrees)
  <2> DEFINE s == IF Cardinality(call[t].seeds) < MaxSeeds
                  THEN call[t].seeds \cup {call[t].root} ELSE call[t].seeds
             c == [call[t] EXCEPT !.seeds = s, !.tries = @ - 1, !.trees = @ + 1, !.then = "loop"]
  <2>1. s \in SUBSET Roots /\ call[t].tries - 1 \in Nat
    BY CallFields DEF RootMisses
  <2>2. call[t].trees + 1 \in Nat /\ call[t].trees + 1 <= MaxTrees
    BY <1>2, CallFields, MinerConstantsOK
  <2>3. call' = [call EXCEPT ![t] = c] /\ Goto(t, "build")
    BY <1>2, Zenon DEF TypeOK, RootMisses
  <2> HIDE DEF s
  <2>4. /\ c \in Call /\ c.then = "loop" /\ c.target = call[t].target
        /\ c.seeds = s /\ c.trees = call[t].trees + 1
    BY <2>1, <2>2, CallFields, Zenon DEF Call
  <2> HIDE DEF c
  <2>5. Moves(t, "build", c)
    BY <2>3, <2>4, MovesIfUpdated, Zenon DEF PC
  <2> QED
    BY <2>2, <2>4, <2>5, Zenon DEF s
<1> QED
  BY <1>1, <1>2, Zenon
-----------------------------------------------------------------------------
(* Types *)

\* A call that moves keeps the types of all calls.
LEMMA MovesTyped ==
    ASSUME TypeOK, NEW t \in Threads, NEW p \in PC, NEW c \in Call, Moves(t, p, c),
           c.trees <= MaxTrees
    PROVE  /\ pc' \in [Threads -> PC] /\ call' \in [Threads -> Call]
           /\ \A u \in Threads : call'[u].trees <= MaxTrees
BY Zenon DEF Moves, TypeOK

LEMMA TypeStep == TypeOK /\ MinerInv /\ [Next]_vars => TypeOK'
<1> SUFFICES ASSUME TypeOK, MinerInv, [Next]_vars PROVE TypeOK'
  BY Zenon
<1> USE MinerConstantsOK
<1>0. ASSUME NEW t \in Threads, Moves(t, "idle", NoCall)
      PROVE  /\ pc' \in [Threads -> PC] /\ call' \in [Threads -> Call]
             /\ \A u \in Threads : call'[u].trees <= MaxTrees
  <2>1. "idle" \in PC /\ NoCall \in Call /\ NoCall.trees <= MaxTrees
    BY NoCallTyped DEF PC
  <2> QED
    BY <1>0, <2>1, MovesTyped, Zenon
<1>a. ASSUME NEW t \in Threads, NEW p \in PC, Moves(t, p, call[t])
      PROVE  /\ pc' \in [Threads -> PC] /\ call' \in [Threads -> Call]
             /\ \A u \in Threads : call'[u].trees <= MaxTrees
  BY <1>a, MovesTyped, CallFields, Zenon DEF TypeOK
<1>1. ASSUME NEW t \in Threads, NEW g \in Targets, NEW k \in Budgets, Start(t, g, k) PROVE TypeOK'
  <2>1. PICK c \in Call, p \in PC : Moves(t, p, c) /\ c.trees = 0
    BY <1>1, StartMoves, Zenon DEF PC
  <2>2. /\ pc' \in [Threads -> PC] /\ call' \in [Threads -> Call]
        /\ \A u \in Threads : call'[u].trees <= MaxTrees
    BY <2>1, MovesTyped
  <2> QED
    BY <1>1, <2>2, Zenon DEF Start, disk, TypeOK
<1>2. ASSUME NEW t \in Threads, BuildNewTree(t) PROVE TypeOK'
  <2>1. built' \subseteq Roots
    BY <1>2, Zenon DEF BuildNewTree, TypeOK
  <2>2. CASE Return(t)
    BY <1>2, <1>0, <2>1, <2>2, ReturnMoves, Zenon DEF BuildNewTree, disk, TypeOK
  <2>3. ASSUME NEW r \in Roots, Goto(t, "write"), call' = [call EXCEPT ![t].root = r, ![t].next = 0]
        PROVE  TypeOK'
    <3>1. PICK c \in Call : Moves(t, "write", c) /\ c.trees = call[t].trees
      BY <2>3, BuildMoves, Zenon
    <3>2. /\ pc' \in [Threads -> PC] /\ call' \in [Threads -> Call]
          /\ \A u \in Threads : call'[u].trees <= MaxTrees
      BY <3>1, MovesTyped, Zenon DEF TypeOK, PC
    <3> QED
      BY <1>2, <2>1, <3>2, Zenon DEF BuildNewTree, disk, TypeOK
  <2> QED
    BY <1>2, <2>2, <2>3, Zenon DEF BuildNewTree
<1>3. ASSUME NEW t \in Threads, SaveWrites(t) PROVE TypeOK'
  <2>1. Moves(t, "idle", NoCall) \/ \E p \in PC : Moves(t, p, call[t])
    BY <1>3, ReturnMoves, GotoMoves, Zenon DEF SaveWrites, PC
  <2>2. tmp' \in State \cup {NoTree}
    BY <1>3, CallFields DEF SaveWrites, State, TypeOK
  <2> QED
    BY <1>3, <1>0, <1>a, <2>1, <2>2, Zenon DEF SaveWrites, TypeOK
<1>4. ASSUME NEW t \in Threads, SaveRenames(t) PROVE TypeOK'
  <2>1. Moves(t, "idle", NoCall) \/ \E p \in PC : Moves(t, p, call[t])
    BY <1>4, ReturnMoves, GotoMoves, CallFields, Zenon DEF SaveRenames, PC
  <2>2. {tmp', pointer'} \subseteq State \cup {NoTree}
    BY <1>4 DEF SaveRenames, TypeOK
  <2> QED
    BY <1>4, <1>0, <1>a, <2>1, <2>2, Zenon DEF SaveRenames, TypeOK
<1>5. ASSUME NEW t \in Threads, Register(t) PROVE TypeOK'
  <2>1. Moves(t, "idle", NoCall) \/ \E p \in PC : Moves(t, p, call[t])
    BY <1>5, ReturnMoves, GotoMoves, Zenon DEF Register, PC
  <2>2. ledger' \in [Roots -> 0..MaxLeaves \cup {NoFile}]
    BY <1>5, LedgerInitKeeps, CallFields, Zenon DEF Register, TypeOK
  <2> QED
    BY <1>5, <1>0, <1>a, <2>1, <2>2, Zenon DEF Register, TypeOK
<1>6. ASSUME NEW t \in Threads, Adopt(t) PROVE TypeOK'
  <2>1. \E p \in PC : Moves(t, p, call[t])
    BY <1>6, GotoMoves, Zenon DEF Adopt, PC
  <2>2. ledger' \in [Roots -> 0..MaxLeaves \cup {NoFile}]
    BY <1>6, LedgerInitKeeps, CallFields, Zenon DEF Adopt, TypeOK
  <2> QED
    BY <1>6, <1>a, <2>1, <2>2, Zenon DEF Adopt, TypeOK
<1>7. ASSUME NEW t \in Threads, LoopEnds(t) PROVE TypeOK'
  BY <1>7, <1>0, ReturnMoves, Zenon DEF LoopEnds, disk, TypeOK
<1>8. ASSUME NEW t \in Threads, RootMeets(t) PROVE TypeOK'
  <2>1. Moves(t, "idle", NoCall) \/ \E p \in PC : Moves(t, p, call[t])
    BY <1>8, ReturnMoves, GotoMoves, Zenon DEF RootMeets, PC
  <2>2. ledger' \in [Roots -> 0..MaxLeaves \cup {NoFile}]
    BY <1>8, LedgerInitKeeps, CallFields, Zenon DEF RootMeets, TypeOK
  <2> QED
    BY <1>8, <1>0, <1>a, <2>1, <2>2, Zenon DEF RootMeets, TypeOK
<1>9. ASSUME NEW t \in Threads, Claim(t) PROVE TypeOK'
  <2>1. PICK c \in Call : Moves(t, "write", c) /\ c.trees = call[t].trees
    BY <1>9, ClaimMoves, Zenon
  <2>2. /\ pc' \in [Threads -> PC] /\ call' \in [Threads -> Call]
        /\ \A u \in Threads : call'[u].trees <= MaxTrees
    BY <2>1, MovesTyped, Zenon DEF TypeOK, PC
  <2>3. ledger[call[t].root] \in 0..(MaxLeaves - 1) /\ call[t].root \in Roots
    BY <1>9, ClaimMoves, CallFields, Zenon
  <2>4. ledger' \in [Roots -> 0..MaxLeaves \cup {NoFile}]
    BY <1>9, <2>3, SMTT(60) DEF Claim, TypeOK
  <2>5. used' \in [Roots -> [0..MaxLeaves -> Nat]]
    BY <1>9, <2>3, SignCounts, SMTT(60) DEF Claim
  <2> QED
    BY <1>9, <2>2, <2>4, <2>5, Zenon DEF Claim, TypeOK
<1>10. ASSUME NEW t \in Threads, Refused(t) PROVE TypeOK'
  <2>1. PICK c \in Call : Moves(t, "build", c) /\ c.trees = call[t].trees
    BY <1>10, RefusedMoves, Zenon
  <2>2. /\ pc' \in [Threads -> PC] /\ call' \in [Threads -> Call]
        /\ \A u \in Threads : call'[u].trees <= MaxTrees
    BY <2>1, MovesTyped, Zenon DEF TypeOK, PC
  <2> QED
    BY <1>10, <2>2, Zenon DEF Refused, disk, TypeOK
<1>11. ASSUME NEW t \in Threads, RootMisses(t) PROVE TypeOK'
  <2>1. /\ pc' \in [Threads -> PC] /\ call' \in [Threads -> Call]
        /\ \A u \in Threads : call'[u].trees <= MaxTrees
    BY <1>0, <1>11, MissMoves, MovesTyped, Zenon DEF PC
  <2> QED
    BY <1>11, <2>1, Zenon DEF RootMisses, disk, TypeOK
<1>12. ASSUME NEW t \in Threads, Publish(t) PROVE TypeOK'
  <2> DEFINE leaf == call[t].next - 1
             b == [root |-> call[t].root, leaf |-> leaf, target |-> call[t].target,
                   seeds |-> IF Cardinality(call[t].seeds) >= MinSeeds THEN call[t].seeds ELSE {}]
  <2>1. call[t].next >= 1
    BY <1>12, Zenon DEF Publish, Pending, MinerInv, ControlInv, PendingInv
  <2>2. leaf \in 0..MaxLeaves
    BY <2>1, CallFields
  <2>3. blocks' = blocks \cup {b}
    BY <1>12, Zenon DEF Publish
  <2> HIDE DEF leaf
  <2>4. b \in Block
    BY <2>2, CallFields, Zenon DEF Block
  <2> QED
    BY <1>12, <1>0, <2>3, <2>4, ReturnMoves, Zenon DEF Publish, disk, TypeOK
<1>13. ASSUME NEW r \in Roots, WalletSigns(r) PROVE TypeOK'
  <2>1. ledger[r] \in 0..(MaxLeaves - 1)
    BY <1>13, Zenon DEF WalletSigns
  <2>2. ledger' \in [Roots -> 0..MaxLeaves \cup {NoFile}]
    BY <1>13, <2>1 DEF WalletSigns, TypeOK
  <2>3. used' \in [Roots -> [0..MaxLeaves -> Nat]]
    BY <1>13, <2>1, SignCounts DEF WalletSigns
  <2> QED
    BY <1>13, <2>2, <2>3, Zenon DEF WalletSigns, TypeOK
<1>14. CASE Crash
  BY <1>14, NoCallTyped DEF Crash, disk, TypeOK, PC
<1>15. CASE UNCHANGED vars
  BY <1>15, Zenon DEF vars, disk, TypeOK
<1> QED
  BY <1>1, <1>2, <1>3, <1>4, <1>5, <1>6, <1>7, <1>8, <1>9, <1>10, <1>11, <1>12, <1>13, <1>14,
     <1>15, Zenon DEF Next, GenerateBlock
-----------------------------------------------------------------------------
(* Preservation of the invariant *)

\* A copy of tree r at position n may be adopted: n is past every leaf used.
Covered(r, n) ==
    /\ r \in built
    /\ \A l \in 0..MaxLeaves : used[r][l] > 0 => ledger[r] # NoFile \/ l < n

\* Seeds that a call may hold for target g.
GoodSeeds(S, g) == IsFiniteSet(S) /\ Cardinality(S) <= MaxSeeds /\ \A r \in S : r > g

\* The copies that files and calls hold are covered.
LEMMA CopiesCovered ==
    ASSUME TypeOK, MinerInv
    PROVE  /\ pointer # NoTree => Covered(pointer.root, pointer.next)
           /\ tmp # NoTree => Covered(tmp.root, tmp.next)
           /\ \A t \in Threads : Live(t) => Covered(call[t].root, call[t].next)
<1>1. \A s \in {pointer, tmp} \ {NoTree} : s.root \in Roots
  BY Zenon DEF TypeOK, State
<1>2. \A t \in Threads : call[t].root \in Roots
  BY CallFields, Zenon
<1> QED
  BY <1>1, <1>2, Zenon DEF MinerInv, LedgerCovers, BuiltInv, Live, Covered

\* The common part of every step of a call that signs nothing and publishes
\* nothing: copies of a position are passed on, and a missing ledger file may be
\* written from one.
LEMMA CallStep ==
    ASSUME TypeOK, MinerInv, TypeOK', NEW t \in Threads, NEW p \in PC, NEW c \in Call, Moves(t, p, c),
           UNCHANGED <<used, blocks>>, built \subseteq built',
           \A s \in {pointer', tmp'} \ {NoTree} : s \in {pointer, tmp} \/ Covered(s.root, s.next),
           \A r \in Roots : ledger'[r] = ledger[r] \/ (ledger[r] = NoFile /\ Covered(r, ledger'[r])),
           p \notin {"idle", "build"} =>
             \/ Covered(c.root, c.next)
             \/ c.root \in built' /\ \A l \in 0..MaxLeaves : ~(used[c.root][l] > 0),
           p = "build" => c.then # "publish",
           p = "publish" => c.then = "publish",
           p = "claim" => c.root <= c.target,
           p \in {"write", "rename", "publish"} /\ c.then = "publish" =>
             /\ Pending(t) /\ c.root = call[t].root /\ c.next = call[t].next
             /\ c.target = call[t].target,
           GoodSeeds(c.seeds, c.target)
    PROVE  MinerInv'
<1> USE MinerConstantsOK
<1>1. \A u \in Threads : /\ pc'[u] = IF u = t THEN p ELSE pc[u]
                         /\ call'[u] = IF u = t THEN c ELSE call[u]
  BY Zenon DEF Moves
<1>2. \A u \in Threads : Pending(u)' =>
        /\ Pending(u) /\ call'[u].root = call[u].root /\ call'[u].next = call[u].next
        /\ call'[u].target = call[u].target
  BY <1>1, Zenon DEF Pending
<1>3. \A r \in Roots : ledger[r] # NoFile => ledger'[r] = ledger[r]
  BY Zenon
<1>4. \A s \in {pointer', tmp'} \ {NoTree} : s.root \in Roots /\ Covered(s.root, s.next)
  BY CopiesCovered DEF TypeOK, State
<1>5. \A r \in Roots, l \in 0..MaxLeaves : used'[r][l] = used[r][l] /\ used[r][l] \in Nat
  BY DEF TypeOK
<1>6. \A u \in Threads : Live(u)' =>
        /\ call'[u].root \in Roots /\ call'[u].root \in built'
        /\ \A l \in 0..MaxLeaves :
             used[call'[u].root][l] > 0 => ledger[call'[u].root] # NoFile \/ l < call'[u].next
  BY <1>1, CopiesCovered, CallFields, Zenon DEF Live, Covered, Call
<1>7. LedgerCovers'
  BY <1>3, <1>4, <1>5, <1>6 DEF LedgerCovers, Covered, Live, MinerInv
<1>8. NoLeafTwice'
  BY Zenon DEF NoLeafTwice, MinerInv
<1>9. BuiltInv'
  BY <1>4, <1>5, <1>6, Zenon DEF BuiltInv, Covered, MinerInv
<1>10. ControlInv'
  BY <1>1, <1>2, Zenon DEF ControlInv, MinerInv
<1>11. SeedsInv'
  BY <1>1, Zenon DEF SeedsInv, GoodSeeds, MinerInv
<1>12. PendingInv'
  <2>1. \A u \in Threads : call[u].root \in Roots
    BY CallFields, Zenon
  <2>2. \A b \in blocks : b.root \in Roots
    BY Zenon DEF TypeOK, Block
  <2>3. PendingInv
    BY Zenon DEF MinerInv
  <2>4. \A b \in blocks' : ledger'[b.root] # NoFile /\ b.leaf < ledger'[b.root]
    BY <1>3, <2>2, <2>3, Zenon DEF PendingInv
  <2>5. ASSUME NEW u \in Threads, Pending(u)'
        PROVE  /\ call'[u].next >= 1
               /\ ledger'[call'[u].root] # NoFile /\ call'[u].next <= ledger'[call'[u].root]
               /\ \A b \in blocks' : b.root = call'[u].root => b.leaf # call'[u].next - 1
    <3>1. Pending(u) /\ call'[u].root = call[u].root /\ call'[u].next = call[u].next
      BY <1>2, <2>5, Zenon
    <3>2. /\ call[u].next >= 1
          /\ ledger[call[u].root] # NoFile /\ call[u].next <= ledger[call[u].root]
          /\ \A b \in blocks : b.root = call[u].root => b.leaf # call[u].next - 1
      BY <2>3, <3>1, Zenon DEF PendingInv
    <3>3. ledger'[call[u].root] = ledger[call[u].root] /\ blocks' = blocks
      BY <1>3, <2>1, <3>2, Zenon
    <3> QED
      BY <3>1, <3>2, <3>3, Zenon
  <2>6. ASSUME NEW u \in Threads, Pending(u)', NEW v \in Threads \ {u}, Pending(v)',
               call'[v].root = call'[u].root
        PROVE  call'[v].next # call'[u].next
    BY <1>2, <2>3, <2>6 DEF PendingInv
  <2> QED
    BY <2>4, <2>5, <2>6, Zenon DEF PendingInv
<1>13. BlocksVerify'
  BY Zenon DEF BlocksVerify, MinerInv
<1> QED
  BY <1>7, <1>8, <1>9, <1>10, <1>11, <1>12, <1>13, Zenon DEF MinerInv
\* A call that ends, whatever else it has done to the files.
LEMMA ReturnStep ==
    ASSUME TypeOK, MinerInv, TypeOK', NEW t \in Threads, Return(t),
           UNCHANGED <<pointer, tmp, ledger, used, blocks, built>>
    PROVE  MinerInv'
<1>1. Moves(t, "idle", NoCall)
  BY ReturnMoves, Zenon
<1>2. GoodSeeds(NoCall.seeds, NoCall.target)
  BY NoCallTyped, FS_EmptySet, MinerConstantsOK DEF GoodSeeds
<1> QED
  BY <1>1, <1>2, CallStep, NoCallTyped, Zenon DEF PC

\* A call that goes on as it is, at p.
LEMMA GotoStep ==
    ASSUME TypeOK, MinerInv, TypeOK', NEW t \in Threads, NEW p \in PC \ {"idle", "build"},
           Goto(t, p), UNCHANGED <<call, built, used, blocks>>, Live(t),
           \A s \in {pointer', tmp'} \ {NoTree} : s \in {pointer, tmp} \/ Covered(s.root, s.next),
           \A r \in Roots : ledger'[r] = ledger[r] \/ (ledger[r] = NoFile /\ Covered(r, ledger'[r])),
           p = "publish" => call[t].then = "publish",
           p = "claim" => call[t].root <= call[t].target,
           p \in {"write", "rename", "publish"} /\ call[t].then = "publish" => Pending(t)
    PROVE  MinerInv'
<1>1. Moves(t, p, call[t])
  BY GotoMoves, Zenon
<1>2. Covered(call[t].root, call[t].next) /\ call[t] \in Call
  BY CopiesCovered, CallFields, Zenon
<1>3. GoodSeeds(call[t].seeds, call[t].target)
  BY Zenon DEF GoodSeeds, MinerInv, SeedsInv
<1> QED
  BY <1>1, <1>2, <1>3, CallStep, Zenon

\* The ledger file that registering or adopting a tree leaves.
LEMMA InitCovers ==
    ASSUME TypeOK, MinerInv, NEW t \in Threads, Live(t), LedgerInit(call[t].root, call[t].next)
    PROVE  \A r \in Roots : ledger'[r] = ledger[r] \/ (ledger[r] = NoFile /\ Covered(r, ledger'[r]))
BY CopiesCovered, CallFields, LedgerInitKeeps, Zenon

\* The steps of GenerateBlock other than the signature and the publication.
LEMMA QuietStep ==
    ASSUME TypeOK, MinerInv, TypeOK', NEW t \in Threads,
           \/ \E g \in Targets, k \in Budgets : Start(t, g, k)
           \/ BuildNewTree(t) \/ SaveWrites(t) \/ SaveRenames(t) \/ Register(t) \/ Adopt(t)
           \/ LoopEnds(t) \/ RootMeets(t) \/ Refused(t) \/ RootMisses(t)
    PROVE  MinerInv'
<1>0. GoodSeeds(call[t].seeds, call[t].target)
  BY Zenon DEF GoodSeeds, MinerInv, SeedsInv
<1>1. ASSUME NEW g \in Targets, NEW k \in Budgets, Start(t, g, k) PROVE MinerInv'
  <2>1. PICK c \in Call :
          /\ c.seeds = {} /\ c.trees = 0 /\ c.then # "publish"
          /\ \/ Moves(t, "build", c)
             \/ /\ \E p \in {"adopt", "loop"} : Moves(t, p, c)
                /\ pointer # NoTree /\ c.root = pointer.root /\ c.next = pointer.next
    BY <1>1, StartMoves, Zenon
  <2>2. GoodSeeds(c.seeds, c.target)
    BY <2>1, FS_EmptySet, MinerConstantsOK, SMTT(60) DEF GoodSeeds
  <2>3. UNCHANGED <<pointer, tmp, ledger, used, blocks, built>>
    BY <1>1, ZenonT(60) DEF Start, disk
  <2>4. CASE Moves(t, "build", c)
    BY <2>1, <2>2, <2>3, <2>4, CallStep, Zenon DEF PC
  <2>5. ASSUME NEW p \in {"adopt", "loop"}, Moves(t, p, c), pointer # NoTree,
               c.root = pointer.root, c.next = pointer.next
        PROVE  MinerInv'
    <3>1. Covered(c.root, c.next)
      BY <2>5, CopiesCovered, Zenon
    <3> QED
      BY <2>1, <2>2, <2>3, <2>5, <3>1, CallStep, ZenonT(60) DEF PC
  <2> QED
    BY <2>1, <2>4, <2>5, Zenon
<1>2. ASSUME BuildNewTree(t) PROVE MinerInv'
  <2>1. ASSUME NEW r \in Roots \ built, built' = built \cup {r}, Goto(t, "write"),
               call' = [call EXCEPT ![t].root = r, ![t].next = 0]
        PROVE  MinerInv'
    <3>1. PICK c \in Call :
             /\ Moves(t, "write", c) /\ c.root = r /\ c.next = 0
             /\ c.then = call[t].then /\ c.target = call[t].target /\ c.seeds = call[t].seeds
      BY <2>1, BuildMoves, ZenonT(60)
    <3>2. c.then # "publish"
      BY <1>2, <3>1, Zenon DEF BuildNewTree, MinerInv, ControlInv
    <3>3. \A l \in 0..MaxLeaves : ~(used[c.root][l] > 0)
      BY <2>1, <3>1, Zenon DEF MinerInv, BuiltInv
    <3>4. UNCHANGED <<pointer, tmp, ledger, used, blocks>>
      BY <1>2, Zenon DEF BuildNewTree, disk
    <3> QED
      BY <1>0, <2>1, <3>1, <3>2, <3>3, <3>4, CallStep, Zenon DEF PC
  <2> QED
    BY <1>2, <2>1, ReturnStep, Zenon DEF BuildNewTree, disk
<1>3. ASSUME SaveWrites(t) PROVE MinerInv'
  <2>1. Live(t) /\ (call[t].then = "publish" => Pending(t))
    BY <1>3, ZenonT(60) DEF SaveWrites, Live, Pending
  <2>2. ASSUME tmp' = [root |-> call[t].root, next |-> call[t].next], Goto(t, "rename"), UNCHANGED call
        PROVE  MinerInv'
    <3>1. Covered(tmp'.root, tmp'.next)
      BY <2>1, <2>2, CopiesCovered, Zenon
    <3> QED
      BY <1>3, <2>1, <2>2, <3>1, GotoStep, Zenon DEF SaveWrites, PC
  <2>3. ASSUME call[t].then = "publish", Goto(t, "publish"), UNCHANGED <<tmp, call>>
        PROVE  MinerInv'
    BY <1>3, <2>1, <2>3, GotoStep, ZenonT(60) DEF SaveWrites, PC
  <2> QED
    BY <1>3, <2>2, <2>3, ReturnStep, Zenon DEF SaveWrites
<1>4. ASSUME SaveRenames(t) PROVE MinerInv'
  <2>1. Live(t) /\ (call[t].then = "publish" => Pending(t))
    BY <1>4, Zenon DEF SaveRenames, Live, Pending
  <2>2. call[t].then \in PC \ {"idle", "build"} /\ call[t].then \notin {"claim", "write", "rename"}
    BY CallFields, Zenon DEF PC
  <2>3. CASE tmp # NoTree
    BY <1>4, <2>1, <2>2, <2>3, GotoStep, Zenon DEF SaveRenames
  <2> QED
    BY <1>4, <2>3, ReturnStep, Zenon DEF SaveRenames
<1>5. ASSUME Register(t) PROVE MinerInv'
  <2>1. Live(t)
    BY <1>5, ZenonT(60) DEF Register, Live
  <2> QED
    BY <1>5, <2>1, InitCovers, GotoStep, ReturnStep, Zenon DEF Register, PC
<1>6. ASSUME Adopt(t) PROVE MinerInv'
  <2>1. Live(t)
    BY <1>6, Zenon DEF Adopt, Live
  <2> QED
    BY <1>6, <2>1, InitCovers, GotoStep, Zenon DEF Adopt, PC
<1>7. ASSUME LoopEnds(t) PROVE MinerInv'
  BY <1>7, ReturnStep, Zenon DEF LoopEnds, disk
<1>8. ASSUME RootMeets(t) PROVE MinerInv'
  <2>1. Live(t)
    BY <1>8, Zenon DEF RootMeets, Live
  <2> QED
    BY <1>8, <2>1, InitCovers, GotoStep, ReturnStep, ZenonT(60) DEF RootMeets, PC
<1>9. ASSUME Refused(t) PROVE MinerInv'
  BY <1>0, <1>9, RefusedMoves, CallStep, Zenon DEF Refused, disk, PC
<1>10. ASSUME RootMisses(t) PROVE MinerInv'
  <2>1. UNCHANGED <<pointer, tmp, ledger, used, blocks, built>> /\ call[t].root > call[t].target
    BY <1>10, Zenon DEF RootMisses, disk
  <2>2. CASE Moves(t, "idle", NoCall)
    <3>1. GoodSeeds(NoCall.seeds, NoCall.target)
      BY NoCallTyped, FS_EmptySet, MinerConstantsOK, SMTT(60) DEF GoodSeeds
    <3> QED
      BY <2>1, <2>2, <3>1, CallStep, NoCallTyped, ZenonT(60) DEF PC
  <2> DEFINE S == call[t].seeds \cup {call[t].root}
  <2>3. Cardinality(call[t].seeds) < MaxSeeds => GoodSeeds(S, call[t].target)
    <3>1. IsFiniteSet(call[t].seeds)
      BY <1>0, Zenon DEF GoodSeeds
    <3>2. Cardinality(call[t].seeds) \in Nat
      BY <3>1, FS_CardinalityType, Zenon
    <3>3. /\ IsFiniteSet(S)
          /\ Cardinality(S) = IF call[t].root \in call[t].seeds THEN Cardinality(call[t].seeds)
                              ELSE Cardinality(call[t].seeds) + 1
      BY <3>1, FS_AddElement, ZenonT(60)
    <3>4. \A q \in S : q > call[t].target
      BY <1>0, <2>1, Zenon DEF GoodSeeds
    <3> HIDE DEF S
    <3> QED
      BY <3>2, <3>3, <3>4, MinerConstantsOK DEF GoodSeeds
  <2>4. ASSUME NEW c \in Call, Moves(t, "build", c), c.then = "loop", c.target = call[t].target,
               c.seeds = IF Cardinality(call[t].seeds) < MaxSeeds THEN S ELSE call[t].seeds
        PROVE  MinerInv'
    <3>1. GoodSeeds(c.seeds, c.target)
      BY <1>0, <2>3, <2>4, ZenonT(60)
    <3> QED
      BY <2>1, <2>4, <3>1, CallStep, ZenonT(60) DEF PC
  <2> QED
    BY <1>10, <2>2, <2>4, MissMoves, Zenon
<1> QED
  BY <1>1, <1>2, <1>3, <1>4, <1>5, <1>6, <1>7, <1>8, <1>9, <1>10, Zenon

\* One leaf signs, claimed from the ledger.
LEMMA SignatureCounts ==
    ASSUME TypeOK, MinerInv, NEW r \in Roots, ledger[r] \in 0..(MaxLeaves - 1),
           ledger' = [ledger EXCEPT ![r] = ledger[r] + 1], Sign(r, ledger[r]),
           UNCHANGED <<pointer, tmp, built, blocks>>
    PROVE  /\ \A q \in Roots : ledger'[q] = IF q = r THEN ledger[q] + 1 ELSE ledger[q]
           /\ \A q \in Roots : ledger'[q] = NoFile <=> ledger[q] = NoFile
           /\ \A q \in Roots, l \in 0..MaxLeaves : used'[q][l] > 0 /\ ledger'[q] # NoFile => l < ledger'[q]
           /\ \A q \in Roots, l \in 0..MaxLeaves : ledger[q] = NoFile => used'[q][l] = used[q][l]
           /\ NoLeafTwice'
           /\ \A q \in Roots, l \in 0..MaxLeaves : used'[q][l] > 0 => q \in built
           /\ r \in built
<1> USE MinerConstantsOK
<1>1. \A q \in Roots : ledger'[q] = IF q = r THEN ledger[q] + 1 ELSE ledger[q]
  BY Zenon DEF TypeOK
<1>2. ledger[r] \in 0..MaxLeaves
  OBVIOUS
<1>3. \A q \in Roots, l \in 0..MaxLeaves :
        used'[q][l] = IF q = r /\ l = ledger[r] THEN used[q][l] + 1 ELSE used[q][l]
  BY <1>2, SignCounts, ZenonT(60)
<1>4. \A q \in Roots, l \in 0..MaxLeaves : used[q][l] \in Nat
  BY DEF TypeOK
<1>5. ~(used[r][ledger[r]] > 0)
  BY <1>2 DEF MinerInv, LedgerCovers, NoFile
<1>6. NoLeafTwice'
  BY <1>2, <1>3, <1>4, <1>5 DEF MinerInv, NoLeafTwice
<1>7. r \in built
  BY <1>2 DEF MinerInv, BuiltInv, NoFile
<1>8. \A q \in Roots : ledger'[q] = NoFile <=> ledger[q] = NoFile
  BY <1>1, <1>2 DEF NoFile
<1>9. \A q \in Roots, l \in 0..MaxLeaves : ledger[q] = NoFile => used'[q][l] = used[q][l]
  BY <1>2, <1>3 DEF NoFile
<1>10. ASSUME NEW q \in Roots, NEW l \in 0..MaxLeaves, used'[q][l] > 0, ledger'[q] # NoFile
       PROVE  l < ledger'[q]
  BY <1>1, <1>2, <1>3, <1>8, <1>10 DEF MinerInv, LedgerCovers
<1>11. \A q \in Roots, l \in 0..MaxLeaves : used'[q][l] > 0 => q \in built
  BY <1>3, <1>7, Zenon DEF MinerInv, BuiltInv
<1> QED
  BY <1>1, <1>6, <1>7, <1>8, <1>9, <1>10, <1>11, Zenon

\* XMSSTreeLedgerClaimAndSign: the claimed leaf is new to the histories, to all
\* blocks and to all calls that are about to publish.
LEMMA ClaimStep ==
    ASSUME TypeOK, MinerInv, TypeOK', NEW t \in Threads, Claim(t)
    PROVE  MinerInv'
<1> USE MinerConstantsOK
<1> DEFINE r == call[t].root
           leaf == ledger[r]
<1>1. r \in Roots /\ leaf \in 0..(MaxLeaves - 1) /\ pc[t] = "claim"
  BY ClaimMoves, CallFields, Zenon DEF Claim
<1>2. PICK c \in Call :
        /\ Moves(t, "write", c)
        /\ c.root = r /\ c.next = leaf + 1 /\ c.then = "publish"
        /\ c.target = call[t].target /\ c.seeds = call[t].seeds
  BY ClaimMoves, Zenon
<1>3. \A u \in Threads : /\ pc'[u] = IF u = t THEN "write" ELSE pc[u]
                         /\ call'[u] = IF u = t THEN c ELSE call[u]
  BY <1>2, Zenon DEF Moves
<1>4. UNCHANGED <<pointer, tmp, built, blocks>>
  BY Zenon DEF Claim
<1>5. /\ \A q \in Roots : ledger'[q] = IF q = r THEN ledger[q] + 1 ELSE ledger[q]
      /\ \A q \in Roots : ledger'[q] = NoFile <=> ledger[q] = NoFile
      /\ \A q \in Roots, l \in 0..MaxLeaves : used'[q][l] > 0 /\ ledger'[q] # NoFile => l < ledger'[q]
      /\ \A q \in Roots, l \in 0..MaxLeaves : ledger[q] = NoFile => used'[q][l] = used[q][l]
      /\ NoLeafTwice'
      /\ \A q \in Roots, l \in 0..MaxLeaves : used'[q][l] > 0 => q \in built
      /\ r \in built
  BY <1>1, <1>4, SignatureCounts, Zenon DEF Claim
<1>6. \A u \in Threads : call[u].root \in Roots /\ call[u].next \in 0..MaxLeaves
  BY CallFields, Zenon
<1>7. \A s \in {pointer, tmp} \ {NoTree} : s.root \in Roots
  BY Zenon DEF TypeOK, State
<1> HIDE DEF r, leaf
<1>8. LedgerCovers'
  <2>1. leaf # NoFile
    BY <1>1 DEF NoFile
  <2>2. \A u \in Threads : Live(u)' => u = t \/ (Live(u) /\ call'[u] = call[u])
    BY <1>3, Zenon DEF Live
  <2>3. call'[t].root = r
    BY <1>2, <1>3, Zenon
  <2> QED
    BY <1>1, <1>4, <1>5, <2>1, <2>2, <2>3 DEF MinerInv, LedgerCovers, Live, leaf
<1>9. BuiltInv'
  <2>1. \A u \in Threads : Live(u)' => u = t \/ (Live(u) /\ call'[u] = call[u])
    BY <1>3 DEF Live
  <2>2. call'[t].root \in built
    BY <1>2, <1>3, <1>5, Zenon
  <2> QED
    BY <1>4, <1>5, <2>1, <2>2, Zenon DEF MinerInv, BuiltInv
<1>10. ControlInv'
  BY <1>1, <1>2, <1>3, Zenon DEF MinerInv, ControlInv, Pending, r
<1>11. SeedsInv'
  BY <1>2, <1>3, Zenon DEF MinerInv, SeedsInv
<1>12. PendingInv'
  <2>1. \A u \in Threads : Pending(u)' => u = t \/ (Pending(u) /\ call'[u] = call[u])
    BY <1>3, Zenon DEF Pending
  <2>2. \A b \in blocks : b.root \in Roots /\ b.leaf \in Int
    BY DEF TypeOK, Block
  <2>3. PendingInv
    BY Zenon DEF MinerInv
  <2>4. ASSUME NEW q \in Roots, ledger[q] # NoFile
        PROVE  ledger[q] \in Nat /\ ledger'[q] \in Nat /\ ledger'[q] >= ledger[q]
    <3>1. ledger[q] \in 0..MaxLeaves
      BY <2>4, Zenon DEF TypeOK
    <3>2. ledger'[q] = IF q = r THEN ledger[q] + 1 ELSE ledger[q]
      BY <1>5, Zenon
    <3>3. ledger'[q] = ledger[q] \/ ledger'[q] = ledger[q] + 1
      BY <3>2, Zenon
    <3> QED
      BY <3>1, <3>3
  <2>5. ASSUME NEW b \in blocks
        PROVE  ledger'[b.root] # NoFile /\ b.leaf < ledger'[b.root]
    <3>1. ledger[b.root] # NoFile /\ b.leaf < ledger[b.root]
      BY <2>3, Zenon DEF PendingInv
    <3> DEFINE q == b.root
    <3>2. q \in Roots /\ b.leaf \in Int
      BY <2>2, Zenon
    <3>3. ledger[q] \in Nat /\ ledger'[q] \in Nat /\ ledger'[q] >= ledger[q]
      BY <2>4, <3>1, <3>2, Zenon
    <3>4. ledger'[q] # NoFile
      BY <3>3 DEF NoFile
    <3> QED
      BY <3>1, <3>2, <3>3, <3>4
  <2>6. call'[t].root = r /\ call'[t].next = leaf + 1 /\ ledger'[r] = leaf + 1 /\ leaf # NoFile
    BY <1>1, <1>2, <1>3, <1>5, SMTT(60) DEF leaf, NoFile
  <2>7. ASSUME NEW u \in Threads, Pending(u)'
        PROVE  /\ call'[u].next >= 1
               /\ ledger'[call'[u].root] # NoFile /\ call'[u].next <= ledger'[call'[u].root]
               /\ \A b \in blocks : b.root = call'[u].root => b.leaf # call'[u].next - 1
    <3>1. CASE u = t
      <4>1. \A b \in blocks : b.root = r => b.leaf < leaf
        BY <2>3, Zenon DEF PendingInv, leaf
      <4>2. /\ call'[u].root = r /\ call'[u].next = leaf + 1
            /\ ledger'[call'[u].root] = leaf + 1
        BY <2>6, <3>1, Zenon
      <4>3. leaf \in Nat /\ leaf + 1 \in Nat /\ leaf + 1 >= 1 /\ leaf + 1 # NoFile
        BY <1>1 DEF NoFile
      <4>4. \A b \in blocks : b.root = r => b.leaf # (leaf + 1) - 1
        BY <2>2, <4>1, <4>3
      <4>5. leaf + 1 <= leaf + 1
        BY <4>3
      <4> QED
        BY <4>2, <4>3, <4>4, <4>5, Zenon
    <3>2. CASE Pending(u) /\ call'[u] = call[u]
      <4>1. /\ call[u].next >= 1
            /\ ledger[call[u].root] # NoFile /\ call[u].next <= ledger[call[u].root]
            /\ \A b \in blocks : b.root = call[u].root => b.leaf # call[u].next - 1
        BY <2>3, <3>2, Zenon DEF PendingInv
      <4> DEFINE q == call[u].root
      <4>2. q \in Roots /\ call[u].next \in Int
        BY <1>6
      <4>3. ledger[q] \in Nat /\ ledger'[q] \in Nat /\ ledger'[q] >= ledger[q]
        BY <2>4, <4>1, <4>2, Zenon
      <4>4. ledger'[q] # NoFile
        BY <4>3 DEF NoFile
      <4> QED
        BY <3>2, <4>1, <4>2, <4>3, <4>4
    <3> QED
      BY <2>1, <2>7, <3>1, <3>2, Zenon
  <2>8. \A u \in Threads \ {t} : Pending(u) /\ call[u].root = r => call[u].next <= leaf
    BY <2>3, Zenon DEF PendingInv, leaf
  <2>9. ASSUME NEW u \in Threads, Pending(u)', NEW v \in Threads \ {u}, Pending(v)',
               call'[v].root = call'[u].root
        PROVE  call'[v].next # call'[u].next
    <3>1. CASE u = t
      BY <1>1, <1>6, <2>1, <2>6, <2>8, <2>9, <3>1
    <3>2. CASE v = t
      BY <1>1, <1>6, <2>1, <2>6, <2>8, <2>9, <3>2
    <3>3. CASE u # t /\ v # t
      BY <2>1, <2>3, <2>9, <3>3, Zenon DEF PendingInv
    <3> QED
      BY <3>1, <3>2, <3>3, Zenon
  <2> QED
    BY <1>4, <2>5, <2>7, <2>9, Zenon DEF PendingInv
<1>13. BlocksVerify'
  BY <1>4, Zenon DEF MinerInv, BlocksVerify
<1> QED
  BY <1>5, <1>8, <1>9, <1>10, <1>11, <1>12, <1>13, Zenon DEF MinerInv
\* ProcessNewBlock is handed a block whose root, leaf and seeds check, and whose
\* leaf no other block has.
LEMMA PublishStep ==
    ASSUME TypeOK, MinerInv, TypeOK', NEW t \in Threads, Publish(t)
    PROVE  MinerInv'
<1> USE MinerConstantsOK
<1> DEFINE S == IF Cardinality(call[t].seeds) >= MinSeeds THEN call[t].seeds ELSE {}
           n == [root |-> call[t].root, leaf |-> call[t].next - 1, target |-> call[t].target,
                 seeds |-> S]
<1>1. Pending(t) /\ pc[t] = "publish"
  BY Zenon DEF Publish, Pending, MinerInv, ControlInv
<1>2. Moves(t, "idle", NoCall) /\ UNCHANGED <<pointer, tmp, ledger, built, used>>
  BY ReturnMoves, Zenon DEF Publish, disk
<1>3. blocks' = blocks \cup {n}
  BY Zenon DEF Publish
<1>4. \A u \in Threads : /\ pc'[u] = IF u = t THEN "idle" ELSE pc[u]
                         /\ call'[u] = IF u = t THEN NoCall ELSE call[u]
  BY <1>2, Zenon DEF Moves
<1>5. \A u \in Threads : Live(u)' => Live(u) /\ call'[u] = call[u] /\ u # t
  BY <1>4, Zenon DEF Live
<1>6. \A u \in Threads : Pending(u)' => Pending(u) /\ call'[u] = call[u] /\ u # t
  BY <1>4, Zenon DEF Pending
<1>7. LedgerCovers' /\ NoLeafTwice'
  BY <1>2, <1>5, Zenon DEF MinerInv, LedgerCovers, NoLeafTwice, Live
<1>8. BuiltInv'
  BY <1>2, <1>5, Zenon DEF MinerInv, BuiltInv
<1>9. ControlInv'
  BY <1>4, <1>6, NoCallTyped, Zenon DEF MinerInv, ControlInv
<1>10. SeedsInv'
  <2>1. GoodSeeds(NoCall.seeds, NoCall.target)
    BY NoCallTyped, FS_EmptySet DEF GoodSeeds
  <2> QED
    BY <1>4, <2>1, Zenon DEF MinerInv, SeedsInv, GoodSeeds
<1>11. /\ n.root = call[t].root /\ n.leaf = call[t].next - 1
       /\ n.target = call[t].target /\ n.seeds = S
  BY Zenon
<1>12. /\ call[t].root \in Roots /\ call[t].next \in 0..MaxLeaves
       /\ \A u \in Threads : call[u].next \in Int
  BY CallFields
<1> HIDE DEF n
<1>13. PendingInv
  BY Zenon DEF MinerInv
<1>14. n.leaf < ledger[n.root] /\ ledger[n.root] # NoFile
  <2>1. ledger[call[t].root] \in 0..MaxLeaves
    BY <1>1, <1>12, <1>13, Zenon DEF PendingInv, TypeOK
  <2> QED
    BY <1>1, <1>11, <1>12, <1>13, <2>1 DEF PendingInv
<1>15. PendingInv'
  <2>1. \A b \in blocks' : ledger'[b.root] # NoFile /\ b.leaf < ledger'[b.root]
    BY <1>2, <1>3, <1>13, <1>14, Zenon DEF PendingInv
  <2>2. ASSUME NEW u \in Threads, Pending(u)', NEW b \in blocks', b.root = call'[u].root
        PROVE  b.leaf # call'[u].next - 1
    <3>1. CASE b = n
      BY <1>1, <1>6, <1>11, <1>12, <1>13, <2>2, <3>1, SMTT(60) DEF PendingInv
    <3>2. CASE b \in blocks
      BY <1>6, <1>13, <2>2, <3>2, Zenon DEF PendingInv
    <3> QED
      BY <1>3, <3>1, <3>2, Zenon
  <2>3. \A u \in Threads : Pending(u)' =>
          /\ call'[u].next >= 1
          /\ ledger'[call'[u].root] # NoFile /\ call'[u].next <= ledger'[call'[u].root]
          /\ \A v \in Threads \ {u} :
               Pending(v)' /\ call'[v].root = call'[u].root => call'[v].next # call'[u].next
    BY <1>2, <1>6, <1>13, Zenon DEF PendingInv
  <2> QED
    BY <2>1, <2>2, <2>3, Zenon DEF PendingInv
<1>16. BlocksVerify'
  <2>1. /\ n.root <= n.target /\ n.leaf < MaxLeaves
        /\ n.seeds # {} => Cardinality(n.seeds) \in MinSeeds..MaxSeeds
        /\ \A q \in n.seeds : q > n.target
    <3>1. n.root <= n.target /\ n.leaf < MaxLeaves
      BY <1>1, <1>11, <1>12 DEF MinerInv, ControlInv
    <3>2. \A q \in n.seeds : q > n.target
      BY <1>11, Zenon DEF MinerInv, SeedsInv
    <3>3. Cardinality(call[t].seeds) \in Nat /\ Cardinality(call[t].seeds) <= MaxSeeds
      BY FS_CardinalityType, Zenon DEF MinerInv, SeedsInv
    <3>4. n.seeds # {} => Cardinality(n.seeds) \in MinSeeds..MaxSeeds
      BY <1>11, <3>3
    <3> QED
      BY <3>1, <3>2, <3>4, Zenon
  <2>2. \A b \in blocks : ~(b.root = n.root /\ b.leaf = n.leaf)
    BY <1>1, <1>11, <1>13, Zenon DEF PendingInv
  <2> QED
    BY <1>3, <2>1, <2>2, Zenon DEF MinerInv, BlocksVerify
<1> QED
  BY <1>7, <1>8, <1>9, <1>10, <1>15, <1>16, Zenon DEF MinerInv
\* A wallet's signature takes its leaf from the same ledger.
LEMMA WalletStep ==
    ASSUME TypeOK, MinerInv, TypeOK', NEW r \in Roots, WalletSigns(r)
    PROVE  MinerInv'
<1> USE MinerConstantsOK
<1>1. UNCHANGED <<pointer, tmp, built, pc, call, blocks>>
  BY Zenon DEF WalletSigns
<1>2. /\ \A q \in Roots : ledger'[q] = IF q = r THEN ledger[q] + 1 ELSE ledger[q]
      /\ \A q \in Roots : ledger'[q] = NoFile <=> ledger[q] = NoFile
      /\ \A q \in Roots, l \in 0..MaxLeaves : used'[q][l] > 0 /\ ledger'[q] # NoFile => l < ledger'[q]
      /\ \A q \in Roots, l \in 0..MaxLeaves : ledger[q] = NoFile => used'[q][l] = used[q][l]
      /\ NoLeafTwice'
      /\ \A q \in Roots, l \in 0..MaxLeaves : used'[q][l] > 0 => q \in built
  BY SignatureCounts, ZenonT(60) DEF WalletSigns
<1>3. LedgerCovers'
  BY <1>1, <1>2 DEF MinerInv, LedgerCovers
<1>4. BuiltInv'
  BY <1>1, <1>2, ZenonT(60) DEF MinerInv, BuiltInv, Live
<1>5. ControlInv' /\ SeedsInv' /\ BlocksVerify'
  BY <1>1, Zenon DEF MinerInv, ControlInv, SeedsInv, BlocksVerify, Pending
<1>6. PendingInv'
  <2>1. ASSUME NEW q \in Roots, ledger[q] # NoFile
        PROVE  ledger[q] \in Nat /\ ledger'[q] \in Nat /\ ledger'[q] >= ledger[q]
    <3>1. ledger[q] \in 0..MaxLeaves
      BY <2>1, Zenon DEF TypeOK
    <3>2. ledger'[q] = ledger[q] + 1 \/ ledger'[q] = ledger[q]
      BY <1>2, Zenon
    <3> QED
      BY <3>1, <3>2
  <2>2. ASSUME NEW q \in Roots, NEW n \in Int, ledger[q] # NoFile
        PROVE  /\ ledger'[q] # NoFile
               /\ n < ledger[q] => n < ledger'[q]
               /\ n <= ledger[q] => n <= ledger'[q]
    <3>1. ledger[q] \in Nat /\ ledger'[q] \in Nat /\ ledger'[q] >= ledger[q]
      BY <2>1, <2>2, Zenon
    <3>2. ledger'[q] # NoFile
      BY <1>2, <2>2, Zenon
    <3>3. (n < ledger[q] => n < ledger'[q]) /\ (n <= ledger[q] => n <= ledger'[q])
      BY <3>1
    <3> QED
      BY <3>2, <3>3, Zenon
  <2>3. \A u \in Threads : call[u].root \in Roots /\ call[u].next \in Int
    BY CallFields
  <2>4. \A b \in blocks : b.root \in Roots /\ b.leaf \in Int
    BY DEF TypeOK, Block
  <2>5. PendingInv /\ \A u \in Threads : Pending(u)' <=> Pending(u)
    BY <1>1, Zenon DEF MinerInv, Pending
  <2>6. \A b \in blocks : ledger'[b.root] # NoFile /\ b.leaf < ledger'[b.root]
    BY <2>2, <2>4, <2>5, Zenon DEF PendingInv
  <2>7. \A u \in Threads : Pending(u) =>
          ledger'[call[u].root] # NoFile /\ call[u].next <= ledger'[call[u].root]
    BY <2>2, <2>3, <2>5, Zenon DEF PendingInv
  <2> QED
    BY <1>1, <2>5, <2>6, <2>7, Zenon DEF PendingInv
<1> QED
  BY <1>2, <1>3, <1>4, <1>5, <1>6, Zenon DEF MinerInv

\* A crash leaves what is on disk, which is all that the leaves depend on.
LEMMA CrashStep ==
    ASSUME TypeOK, MinerInv, Crash
    PROVE  MinerInv'
<1> USE MinerConstantsOK
<1>1. UNCHANGED <<pointer, tmp, ledger, built, used, blocks>>
  BY Zenon DEF Crash, disk
<1>2. \A t \in Threads : pc'[t] = "idle" /\ call'[t] = NoCall
  BY Zenon DEF Crash
<1>3. \A t \in Threads : ~Live(t)' /\ ~Pending(t)'
  BY <1>2, Zenon DEF Live, Pending
<1>4. LedgerCovers' /\ NoLeafTwice' /\ BuiltInv' /\ BlocksVerify'
  BY <1>1, <1>3, Zenon DEF MinerInv, LedgerCovers, NoLeafTwice, BuiltInv, BlocksVerify, Live
<1>5. ControlInv' /\ PendingInv'
  BY <1>1, <1>2, <1>3, Zenon DEF MinerInv, ControlInv, PendingInv
<1>6. IsFiniteSet({}) /\ Cardinality({}) = 0
  BY FS_EmptySet, Zenon
<1>7. SeedsInv'
  BY <1>2, <1>6, NoCallTyped DEF SeedsInv
<1> QED
  BY <1>4, <1>5, <1>7, Zenon DEF MinerInv

-----------------------------------------------------------------------------
(* Theorems *)

LEMMA InitTyped == Init => TypeOK /\ MinerInv
<1> SUFFICES ASSUME Init PROVE TypeOK /\ MinerInv
  BY Zenon
<1> USE MinerConstantsOK
<1>1. TypeOK
  <2>1. pointer \in State \cup {NoTree} /\ built \subseteq Roots
    BY Zenon DEF Init, State
  <2>2. used \in [Roots -> [0..MaxLeaves -> Nat]]
    BY Zenon DEF Init
  <2>3. call \in [Threads -> Call] /\ \A t \in Threads : call[t].trees <= MaxTrees
    BY NoCallTyped DEF Init
  <2>4. ledger \in [Roots -> 0..MaxLeaves \cup {NoFile}]
    BY Zenon DEF Init
  <2>5. pc \in [Threads -> PC]
    BY Zenon DEF Init, PC
  <2> QED
    BY <2>1, <2>2, <2>3, <2>4, <2>5, Zenon DEF Init, TypeOK
<1>2. \A t \in Threads : pc[t] = "idle" /\ call[t] = NoCall
  BY Zenon DEF Init
<1>3. \A t \in Threads : ~Live(t) /\ ~Pending(t)
  BY <1>2, Zenon DEF Live, Pending
<1>4. \A r \in Roots, l \in 0..MaxLeaves :
        used[r][l] = IF r \in built /\ l < pointer.next THEN 1 ELSE 0
  BY Zenon DEF Init
<1>5. LedgerCovers /\ NoLeafTwice /\ BuiltInv /\ BlocksVerify
  <2>1. \A r \in Roots : ledger[r] = NoFile
    BY Zenon DEF Init
  <2>2. tmp = NoTree /\ built = IF pointer = NoTree THEN {} ELSE {pointer.root}
    BY Zenon DEF Init
  <2>0. \A r \in Roots, l \in 0..MaxLeaves : used[r][l] > 0 => r \in built /\ l < pointer.next
    <3>1. ~(0 > 0)
      OBVIOUS
    <3> QED
      BY <1>4, <3>1, Zenon
  <2>3. LedgerCovers
    <3>1. \A s \in {pointer, tmp} \ {NoTree} : s = pointer
      BY <2>2, Zenon
    <3> QED
      BY <1>3, <2>0, <2>1, <3>1, Zenon DEF LedgerCovers, Live
  <2>4. NoLeafTwice
    BY <1>4 DEF NoLeafTwice
  <2>5. BuiltInv
    <3>1. \A s \in {pointer, tmp} \ {NoTree} : s.root \in built
      BY <2>2, Zenon
    <3> QED
      BY <1>3, <2>0, <2>1, <3>1, Zenon DEF BuiltInv
  <2> QED
    BY <2>3, <2>4, <2>5, Zenon DEF Init, BlocksVerify
<1>6. ControlInv /\ PendingInv
  BY <1>2, <1>3, Zenon DEF Init, ControlInv, PendingInv
<1>7. IsFiniteSet({}) /\ Cardinality({}) = 0
  BY FS_EmptySet, Zenon
<1>8. SeedsInv
  BY <1>2, <1>7, NoCallTyped DEF SeedsInv
<1> QED
  BY <1>1, <1>5, <1>6, <1>8, Zenon DEF MinerInv

LEMMA MinerStep == TypeOK /\ MinerInv /\ [Next]_vars => TypeOK' /\ MinerInv'
<1> SUFFICES ASSUME TypeOK, MinerInv, [Next]_vars PROVE TypeOK' /\ MinerInv'
  BY Zenon
<1>1. TypeOK'
  BY TypeStep, Zenon
<1>2. CASE Next
  <2>1. ASSUME NEW t \in Threads, GenerateBlock(t) PROVE MinerInv'
    <3>1. ASSUME Claim(t) PROVE MinerInv'
      BY <1>1, <3>1, ClaimStep, Zenon
    <3>2. ASSUME Publish(t) PROVE MinerInv'
      BY <1>1, <3>2, PublishStep
    <3>3. CASE ~Claim(t) /\ ~Publish(t)
      <4>1. \/ \E g \in Targets, k \in Budgets : Start(t, g, k)
            \/ BuildNewTree(t) \/ SaveWrites(t) \/ SaveRenames(t) \/ Register(t) \/ Adopt(t)
            \/ LoopEnds(t) \/ RootMeets(t) \/ Refused(t) \/ RootMisses(t)
        BY <2>1, <3>3, Zenon DEF GenerateBlock
      <4> QED
        BY <1>1, <4>1, QuietStep, Zenon
    <3> QED
      BY <3>1, <3>2, <3>3, Zenon
  <2>2. ASSUME NEW r \in Roots, WalletSigns(r) PROVE MinerInv'
    BY <1>1, <2>2, WalletStep
  <2> QED
    BY <1>1, <1>2, <2>1, <2>2, CrashStep, Zenon DEF Next
<1>3. CASE UNCHANGED vars
  <2>1. UNCHANGED <<pointer, tmp, ledger, built, pc, call, used, blocks>>
    BY <1>3, Zenon DEF vars
  <2>2. LedgerCovers' /\ NoLeafTwice' /\ BlocksVerify'
    BY <2>1, Zenon DEF MinerInv, LedgerCovers, NoLeafTwice, BlocksVerify
  <2>3. BuiltInv'
    BY <2>1, Zenon DEF MinerInv, BuiltInv, Live
  <2>4. ControlInv' /\ SeedsInv'
    BY <2>1, Zenon DEF MinerInv, ControlInv, SeedsInv, Pending
  <2>5. PendingInv'
    BY <2>1, Zenon DEF MinerInv, PendingInv, Pending
  <2> QED
    BY <1>1, <2>2, <2>3, <2>4, <2>5, Zenon DEF MinerInv
<1> QED
  BY <1>1, <1>2, <1>3, Zenon

\* The invariant of the generator: what is known of a tree, on disk or in a
\* call, where each call is, and whose leaf each block has.
THEOREM MinerInvariance == Spec => [](TypeOK /\ MinerInv)
BY InitTyped, MinerStep, PTL DEF Spec

\* However many generatetoaddress calls and wallet spends run at once, with
\* saves of the pointer file that fail or overwrite each other and the process
\* dying anywhere, no leaf of a tree signs twice.
THEOREM MinerLeafSafety == Spec => []NoLeafTwice
<1>1. TypeOK /\ MinerInv => NoLeafTwice
  BY Zenon DEF MinerInv
<1> QED
  BY <1>1, MinerInvariance, PTL

\* The ledger file is ahead of every signature, and so is every copy of the
\* position that XMSSTreeLedgerSeedFromActive may still adopt.
THEOREM MinerCoverage == Spec => []LedgerCovers
<1>1. TypeOK /\ MinerInv => LedgerCovers
  BY Zenon DEF MinerInv
<1> QED
  BY <1>1, MinerInvariance, PTL

\* Every block that GeneratePoUWv2Block hands on has a root at or below its
\* target, a leaf of its own, and failed seeds that CheckPoUW accepts.
THEOREM MinedBlocksVerify == Spec => []BlocksVerify
<1>1. TypeOK /\ MinerInv => BlocksVerify
  BY Zenon DEF MinerInv
<1> QED
  BY <1>1, MinerInvariance, PTL
=============================================================================
