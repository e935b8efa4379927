------------------------------- MODULE Miner -------------------------------
(***************************************************************************)
(* The mining loop, GenerateBlock of src/rpc/mining.cpp, as several RPC    *)
(* threads of one node run it at once over the miner's pointer file        *)
(* (xmss_miner_state.dat, its manager is local to each call) and the       *)
(* unified ledger.  A ledger call is one step here: TreeLedger shows that  *)
(* its parts act as one.  A root is modelled by its value as a number,     *)
(* which is what the target is compared with.                              *)
(***************************************************************************)
EXTENDS Integers, FiniteSets

CONSTANTS
    Threads,    \* RPC threads
    Roots,      \* the roots that trees may turn out to have
    Targets,    \* the targets that block templates may have
    MaxLeaves,  \* XMSS_MAX_LEAVES
    MinSeeds,   \* MIN_FAILED_SEEDS
    MaxSeeds,   \* MAX_FAILED_SEEDS
    MaxTrees,   \* POUW_MAX_TREES_PER_CALL
    Budgets,    \* values of the RPC's maxtries
    NoTree      \* no pointer file, no temp file

NoFile == -1

ASSUME MinerConstantsOK ==
    /\ Roots \subseteq Nat /\ Targets \subseteq Nat /\ Budgets \subseteq Nat
    /\ Roots # {} /\ Targets # {}
    /\ MaxLeaves \in Nat \ {0} /\ MaxTrees \in Nat
    /\ MinSeeds \in Nat \ {0} /\ MaxSeeds \in Nat /\ MinSeeds <= MaxSeeds

VARIABLES
    pointer,  \* xmss_miner_state.dat: root and nextLeafIndex
    tmp,      \* xmss_miner_state.dat.tmp
    ledger,   \* ledger[r]: next leaf of the ledger file of r
    built,    \* roots whose tree has been generated
    pc,       \* pc[t]: where the call of t is
    call,     \* call[t]: locals of the call
    used,     \* history: used[r][l] is how often leaf l of r has signed
    blocks    \* history: blocks handed to ProcessNewBlock

vars == <<pointer, tmp, ledger, built, pc, call, used, blocks>>
disk == <<pointer, tmp, ledger>>

State == [root: Roots, next: 0..MaxLeaves]
Call == [root: Roots, next: 0..MaxLeaves, target: Targets, tries: Nat, trees: Nat,
         seeds: SUBSET Roots, then: {"register", "loop", "publish"}]
Block == [root: Roots, leaf: 0..MaxLeaves, target: Targets, seeds: SUBSET Roots]
PC == {"idle", "build", "write", "rename", "register", "adopt", "loop", "claim", "publish"}

NoCall == [root |-> CHOOSE r \in Roots : TRUE, next |-> 0,
           target |-> CHOOSE g \in Targets : TRUE, tries |-> 0, trees |-> 0,
           seeds |-> {}, then |-> "loop"]

\* The miner's data: nothing, or a tree mined before there was a ledger.
Init ==
    /\ pointer \in {NoTree} \cup {s \in State : s.next < MaxLeaves}
    /\ built = IF pointer = NoTree THEN {} ELSE {pointer.root}
    /\ used = [r \in Roots |-> [l \in 0..MaxLeaves |->
                 IF r \in built /\ l < pointer.next THEN 1 ELSE 0]]
    /\ tmp = NoTree
    /\ ledger = [r \in Roots |-> NoFile]
    /\ pc = [t \in Threads |-> "idle"]
    /\ call = [t \in Threads |-> NoCall]
    /\ blocks = {}

-----------------------------------------------------------------------------
Goto(t, p) == pc' = [pc EXCEPT ![t] = p]

\* return false, or an exception out of the call.
Return(t) ==
    /\ Goto(t, "idle")
    /\ call' = [call EXCEPT ![t] = NoCall]

\* A leaf of r signs.
Sign(r, leaf) == used' = [used EXCEPT ![r][leaf] = @ + 1]

\* A call with a new template: the pointer file is loaded, unless it is absent
\* or its tree exhausted.
Start(t, g, k) ==
    /\ pc[t] = "idle"
    /\ IF pointer # NoTree /\ pointer.next < MaxLeaves
       THEN /\ call' = [call EXCEPT ![t] = [NoCall EXCEPT !.target = g, !.tries = k,
                                              !.root = pointer.root, !.next = pointer.next]]
            /\ Goto(t, IF ledger[pointer.root] = NoFile THEN "adopt" ELSE "loop")
       ELSE /\ call' = [call EXCEPT ![t] = [NoCall EXCEPT !.target = g, !.tries = k,
                                              !.then = "register"]]
            /\ Goto(t, "build")
    /\ UNCHANGED <<disk, built, used, blocks>>

\* A new tree, to be saved; xmss_keypair may fail.
BuildNewTree(t) ==
    /\ pc[t] = "build"
    /\ \/ \E r \in Roots \ built :
            /\ built' = built \cup {r}
            /\ call' = [call EXCEPT ![t].root = r, ![t].next = 0]
            /\ Goto(t, "write")
       \/ Return(t) /\ UNCHANGED built
    /\ UNCHANGED <<disk, used, blocks>>

\* Save writes the temp file; when it cannot, the call ends, except that the
\* result of the save after a signature is not looked at.
SaveWrites(t) ==
    /\ pc[t] = "write"
    /\ \/ /\ tmp' = [root |-> call[t].root, next |-> call[t].next]
          /\ Goto(t, "rename") /\ UNCHANGED call
       \/ /\ call[t].then = "publish"
          /\ Goto(t, "publish") /\ UNCHANGED <<tmp, call>>
       \/ /\ call[t].then # "publish"
          /\ Return(t) /\ UNCHANGED tmp
    /\ UNCHANGED <<pointer, ledger, built, used, blocks>>

\* Save renames it: the temp file of another call if that wrote last, and an
\* exception if another call has renamed it already.
SaveRenames(t) ==
    /\ pc[t] = "rename"
    /\ IF tmp = NoTree
       THEN Return(t) /\ UNCHANGED <<pointer, tmp>>
       ELSE /\ pointer' = tmp /\ tmp' = NoTree
            /\ Goto(t, call[t].then) /\ UNCHANGED call
    /\ UNCHANGED <<ledger, built, used, blocks>>

\* Mutant: a tree is adopted at its first leaf.
LedgerInitAtZero(r, next) == ledger' = [ledger EXCEPT ![r] = IF @ = NoFile THEN 0 ELSE @]

\* XMSSTreeLedgerInit and XMSSTreeLedgerSeedFromActive when they succeed.
LedgerInit(r, next) == ledger' = [ledger EXCEPT ![r] = IF @ = NoFile THEN next ELSE @]

\* The first tree of a call is registered at once; on failure the call ends.
Register(t) ==
    /\ pc[t] = "register"
    /\ \/ LedgerInit(call[t].root, call[t].next) /\ Goto(t, "loop") /\ UNCHANGED call
       \/ Return(t) /\ UNCHANGED ledger
    /\ UNCHANGED <<pointer, tmp, built, used, blocks>>

\* A tree older than the ledger is adopted, and failure to do so overlooked.
Adopt(t) ==
    /\ pc[t] = "adopt"
    /\ LedgerInit(call[t].root, call[t].next) \/ UNCHANGED ledger
    /\ Goto(t, "loop")
    /\ UNCHANGED <<pointer, tmp, built, call, used, blocks>>

\* The loop's head: out of tries, or the node shuts down.
LoopEnds(t) ==
    /\ pc[t] = "loop"
    /\ Return(t)
    /\ UNCHANGED <<disk, built, used, blocks>>

\* The root meets the target: make sure of the ledger file, then claim.
RootMeets(t) ==
    /\ pc[t] = "loop" /\ call[t].tries > 0
    /\ call[t].root <= call[t].target
    /\ \/ LedgerInit(call[t].root, call[t].next) /\ Goto(t, "claim") /\ UNCHANGED call
       \/ Return(t) /\ UNCHANGED ledger
    /\ UNCHANGED <<pointer, tmp, built, used, blocks>>

\* Mutant: sign with the leaf of the call's own copy, as before the ledger.
ClaimOwnCopy(t) ==
    /\ pc[t] = "claim"
    /\ call[t].next < MaxLeaves
    /\ Sign(call[t].root, call[t].next)
    /\ call' = [call EXCEPT ![t].next = @ + 1, ![t].then = "publish"]
    /\ Goto(t, "write")
    /\ UNCHANGED <<disk, built, blocks>>

\* The ledger signs; the pointer file is brought up to date next.
Claim(t) ==
    /\ pc[t] = "claim"
    /\ LET leaf == ledger[call[t].root]
       IN  /\ leaf \in 0..(MaxLeaves - 1)
           /\ ledger' = [ledger EXCEPT ![call[t].root] = leaf + 1]
           /\ Sign(call[t].root, leaf)
           /\ call' = [call EXCEPT ![t].next = leaf + 1, ![t].then = "publish"]
    /\ Goto(t, "write")
    /\ UNCHANGED <<pointer, tmp, built, blocks>>

\* Mutant: a tree the ledger refuses joins the failed seeds.
RefusedIntoSeeds(t) ==
    /\ pc[t] = "claim"
    /\ call' = [call EXCEPT ![t].then = "loop", ![t].seeds = @ \cup {call[t].root}]
    /\ Goto(t, "build")
    /\ UNCHANGED <<disk, built, used, blocks>>

\* The call's copy is exhausted, or the ledger refuses (exhausted, blacklisted
\* or an I/O error): on to another tree.
Refused(t) ==
    /\ pc[t] = "claim"
    /\ call' = [call EXCEPT ![t].then = "loop"]
    /\ Goto(t, "build")
    /\ UNCHANGED <<disk, built, used, blocks>>

\* The root misses the target: its seed is kept for publication, if there is
\* room, and another tree built, unless the call has built its share.
RootMisses(t) ==
    /\ pc[t] = "loop" /\ call[t].tries > 0
    /\ call[t].root > call[t].target
    /\ IF call[t].trees >= MaxTrees
       THEN Return(t)
       ELSE /\ call' = [call EXCEPT
                 ![t].seeds = IF Cardinality(@) < MaxSeeds THEN @ \cup {call[t].root} ELSE @,
                 ![t].tries = @ - 1, ![t].trees = @ + 1, ![t].then = "loop"]
            /\ Goto(t, "build")
    /\ UNCHANGED <<disk, built, used, blocks>>

\* The block is put together and handed to ProcessNewBlock, with the failed
\* seeds when there are enough of them.
Publish(t) ==
    /\ pc[t] = "publish"
    /\ blocks' = blocks \cup
         {[root |-> call[t].root, leaf |-> call[t].next - 1, target |-> call[t].target,
           seeds |-> IF Cardinality(call[t].seeds) >= MinSeeds THEN call[t].seeds ELSE {}]}
    /\ Return(t)
    /\ UNCHANGED <<disk, built, used>>

\* A spend from one of the node's wallets signs with a registered tree.
WalletSigns(r) ==
    /\ ledger[r] \in 0..(MaxLeaves - 1)
    /\ ledger' = [ledger EXCEPT ![r] = @ + 1]
    /\ Sign(r, ledger[r])
    /\ UNCHANGED <<pointer, tmp, built, pc, call, blocks>>

\* The process dies and starts again.
Crash ==
    /\ \E t \in Threads : pc[t] # "idle"
    /\ pc' = [t \in Threads |-> "idle"]
    /\ call' = [t \in Threads |-> NoCall]
    /\ UNCHANGED <<disk, built, used, blocks>>

GenerateBlock(t) ==
    \/ \E g \in Targets, k \in Budgets : Start(t, g, k)
    \/ BuildNewTree(t) \/ SaveWrites(t) \/ SaveRenames(t) \/ Register(t) \/ Adopt(t)
    \/ LoopEnds(t) \/ RootMeets(t) \/ Claim(t) \/ Refused(t) \/ RootMisses(t) \/ Publish(t)

Next ==
    \/ \E t \in Threads : GenerateBlock(t)
    \/ \E r \in Roots : WalletSigns(r)
    \/ Crash

Spec == Init /\ [][Next]_vars

-----------------------------------------------------------------------------
(* Properties *)

\* Every variable keeps its type, and a call never builds past its share.
TypeOK ==
    /\ {pointer, tmp} \subseteq State \cup {NoTree}
    /\ ledger \in [Roots -> 0..MaxLeaves \cup {NoFile}]
    /\ built \subseteq Roots
    /\ used \in [Roots -> [0..MaxLeaves -> Nat]]
    /\ pc \in [Threads -> PC]
    /\ call \in [Threads -> Call]
    /\ \A t \in Threads : call[t].trees <= MaxTrees
    /\ blocks \subseteq Block

\* No leaf signs twice, although threads load and save each other's pointer
\* file without coordination and wallets sign with the same trees.
NoLeafTwice == \A r \in Roots, l \in 0..MaxLeaves : used[r][l] <= 1

\* The ledger accounts for every leaf that has signed; for a tree that has no
\* ledger file yet, every copy of its position that may still be adopted does.
LedgerCovers ==
    \A r \in Roots, l \in 0..MaxLeaves :
      used[r][l] > 0 =>
        IF ledger[r] # NoFile THEN l < ledger[r]
        ELSE /\ \A s \in {pointer, tmp} \ {NoTree} : s.root = r => l < s.next
             /\ \A t \in Threads :
                  pc[t] \notin {"idle", "build"} /\ call[t].root = r => l < call[t].next

\* A block that is handed on passes what CheckPoUW asks of its root, of its leaf
\* and of its failed seeds, and no two have the same leaf.
BlocksVerify ==
    /\ \A b \in blocks :
         /\ b.root <= b.target
         /\ b.leaf < MaxLeaves
         /\ b.seeds # {} => Cardinality(b.seeds) \in MinSeeds..MaxSeeds
         /\ \A r \in b.seeds : r > b.target
    /\ \A a, b \in blocks : a.root = b.root /\ a.leaf = b.leaf => a = b

\* The seeds that a block publishes are of trees that have not won a block
\* before: nothing is paid to a failed root.
FailedTreesNeverWon == \A a, b \in blocks : a.root \notin b.seeds

\* Saving the pointer file is safe among threads: the temp file is there when
\* it is to be renamed.  Does not hold for two calls.
TempFileThere == \A t \in Threads : pc[t] = "rename" => tmp # NoTree

\* Every block publishes failed seeds.  Does not hold when the first tree wins.
EveryBlockHasSeeds == \A b \in blocks : b.seeds # {}
=============================================================================
