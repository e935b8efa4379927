------------------------------- MODULE LeafDB -------------------------------
(***************************************************************************)
(* The consensus record of used XMSS leaves (src/validation.cpp): tables   *)
(* DB_POUW_LEAF and DB_POUW_LEAF_LIST of the block tree database, written  *)
(* and erased as ActivateBestChain connects and disconnects blocks, read   *)
(* when a block arrives (its mining leaf) and when it is connected (the    *)
(* leaves its transactions spend).  The tables are on disk at once; the    *)
(* chain state and the block index reach the disk only when flushed.       *)
(*                                                                         *)
(* Blocks are 1..N, 0 is the genesis block, and all blocks have the same   *)
(* work.  Which blocks exist, and the leaves they use, is fixed in Init;   *)
(* the node is sent them in any order.  Signatures and the other consensus *)
(* rules are taken to hold of every block.                                 *)
(***************************************************************************)
EXTENDS Integers, Sequences, FiniteSets, Functions

CONSTANTS
    N,                \* bound: number of blocks
    SpendLeaf,        \* leaves that transactions may spend
    MaxSpends,        \* bound: leaves spent by a block
    MiningReuse,      \* whether two blocks may be mined with the same leaf
    MiningActivation, \* nPoUWLeafReuseActivation
    SpendActivation,  \* nXMSSSpendLeafReuseActivation
    CheckLevel,       \* -checklevel
    CheckDepth,       \* -checkblocks
    Stops,            \* how the node may stop: "clean", "crash", "torn"
    Commands,         \* what an operator may do: "invalidate", "reconsider"
    MaxEvents         \* bound: commands in a behaviour, where a restart counts as two

Block == 1..N
Leaf == Block \cup SpendLeaf
NoStep == -1

ASSUME LeafDBConstantsOK ==
    /\ N \in Nat /\ SpendLeaf \subseteq Nat /\ MaxSpends \in Nat
    /\ MiningReuse \in BOOLEAN
    /\ MiningActivation \in Nat /\ SpendActivation \in Nat
    /\ CheckLevel \in 0..4 /\ CheckDepth \in Nat \ {0}
    /\ Stops \subseteq {"clean", "crash", "torn"} /\ Commands \subseteq {"invalidate", "reconsider"}
    /\ MaxEvents \in Nat

VARIABLES
    path,               \* path[b]: the blocks from the genesis block's child to b
    cb, spends,         \* the blocks' mining leaves, and the leaves they spend
    have,               \* blocks with BLOCK_HAVE_DATA
    failed,             \* blocks marked BLOCK_FAILED_VALID, or _CHILD by invalidateblock
    chain,              \* m_chain above the genesis block
    leaf,               \* DB_POUW_LEAF: leaf -> block, 0 if there is no entry
    list,               \* DB_POUW_LEAF_LIST: block -> leaves, {} if no entry
    lock,               \* ActivateBestChain holds cs_main
    most, start, old,   \* pindexMostWork (0: null), starting_tip, pindexOldTip
                        \* (NoStep: ActivateBestChainStep is not running)
    unwinding,          \* the block InvalidateBlock is disconnecting down to, or 0
    condemned,          \* history: blocks marked by invalidateblock
    coins,              \* best block of the coins database on disk
    disk,               \* the block index on disk
    events              \* commands and restarts so far (bound)

world == <<path, cb, spends>>
activation == <<lock, most, start, old>>
operator == <<unwinding, condemned>>
durable == <<coins, disk>>
vars == <<world, have, failed, chain, leaf, list, activation, operator, durable, events>>

-----------------------------------------------------------------------------
(* The block tree *)

\* A chain without its tip (pindex->pprev as the new tip), and a chain all of
\* whose blocks another one contains (the tip is FindFork of the two).
Beneath(c) == SubSeq(c, 1, Len(c) - 1)
Begins(c, e) == Len(c) <= Len(e) /\ c = SubSeq(e, 1, Len(c))

Height(b) == Len(path[b])
Tip == IF chain = <<>> THEN 0 ELSE chain[Len(chain)]

\* CBlockIndex::GetAncestor reaches a block with BLOCK_FAILED_MASK.
Failed(b) == Range(path[b]) \cap failed # {}

\* What ParseCoinbasePoUWLeaf and the script interpreter's capture yield: a
\* spend is captured only from the activation height on.
SpendUses(b) == IF Height(b) >= SpendActivation THEN spends[b] ELSE <<>>
Uses(b) == {cb[b]} \cup Range(SpendUses(b))

-----------------------------------------------------------------------------
(* The tables, as a record d with fields leaf and list *)

Tables == [leaf |-> leaf, list |-> list]
TablesBecome(d) == leaf' = d.leaf /\ list' = d.list

\* Mutant: the block's own mining leaf is not among the leaves seen.
SpendsFreshNoCoinbase(b, d) ==
    LET s == SpendUses(b)
    IN  IsInjective(s) /\ \A i \in 1..Len(s) : d.leaf[s[i]] = 0

\* No spend of the block repeats a leaf of the block, of its coinbase or of
\* the table.
SpendsFresh(b, d) ==
    LET s == SpendUses(b)
    IN  /\ IsInjective(s)
        /\ cb[b] \notin Range(s)
        /\ \A i \in 1..Len(s) : d.leaf[s[i]] = 0

\* The tail of ConnectBlock: the mining leaf is written whatever the table
\* holds, the list only when there are spends.
Mark(b, d) ==
    [leaf |-> [l \in Leaf |-> IF l \in Uses(b) THEN b ELSE d.leaf[l]],
     list |-> [d.list EXCEPT ![b] = IF SpendUses(b) = <<>> THEN @ ELSE Range(SpendUses(b))]]

\* Mutant: DisconnectBlock forgets the leaves of the block's spends.
UnmarkMiningOnly(bs, d) ==
    [leaf |-> [l \in Leaf |-> IF \E b \in bs : l = cb[b] THEN 0 ELSE d.leaf[l]],
     list |-> [b \in Block |-> IF b \in bs THEN {} ELSE d.list[b]]]

\* DisconnectBlock, for each block of bs, erases the mining leaf's entry,
\* whichever block wrote it, and the entries that the block's list names.  The
\* order makes no difference: a block's list is erased with that block only.
Unmark(bs, d) ==
    [leaf |-> [l \in Leaf |-> IF \E b \in bs : l = cb[b] \/ l \in d.list[b]
                              THEN 0 ELSE d.leaf[l]],
     list |-> [b \in Block |-> IF b \in bs THEN {} ELSE d.list[b]]]

\* The tables after ConnectBlock of c[i] .. c[n], for every n.
Remarked(c, i, d) ==
    LET db[n \in 0..Len(c)] == IF n < i THEN d ELSE Mark(c[n], db[n - 1])
    IN  db

-----------------------------------------------------------------------------
\* The paths that the blocks' hashPrevBlock fields p give.
PathsOf(p) == LET to[b \in 0..N] == IF b = 0 THEN <<>> ELSE Append(to[p[b]], b)
              IN  [b \in 0..N |-> to[b]]

Contents == [Block -> UNION {[1..n -> SpendLeaf] : n \in 0..MaxSpends}]

Init ==
    /\ path \in {PathsOf(p) : p \in {q \in [Block -> 0..N] : \A b \in Block : q[b] < b}}
    /\ cb \in IF MiningReuse THEN {c \in [Block -> Block] : \A b \in Block : c[b] <= b}
                             ELSE {[b \in Block |-> b]}
    /\ spends \in Contents
    /\ have = {} /\ failed = {} /\ chain = <<>>
    /\ leaf = [l \in Leaf |-> 0] /\ list = [b \in Block |-> {}]
    /\ lock = FALSE /\ most = 0 /\ start = 0 /\ old = NoStep
    /\ unwinding = 0 /\ condemned = {}
    /\ coins = 0 /\ disk = [have |-> {}, failed |-> {}]
    /\ events = 0

(* AcceptBlock: headers are known before blocks, and a block may arrive before *)
(* its parent's data.  CheckPoUW looks the mining leaf up in the table as it   *)
(* is now; a block on record is marked invalid for good.                       *)

\* Mutant: the rule starts one block late.
CheckPoUWLate(b) == Height(b) > MiningActivation => leaf[cb[b]] = 0

CheckPoUW(b) == Height(b) >= MiningActivation => leaf[cb[b]] = 0

AcceptBlock(b) ==
    /\ ~lock
    /\ b \notin have /\ ~Failed(b)
    /\ \/ CheckPoUW(b) /\ have' = have \cup {b} /\ UNCHANGED failed
       \/ ~CheckPoUW(b) /\ failed' = failed \cup {b} /\ UNCHANGED have
    /\ UNCHANGED <<world, chain, leaf, list, activation, operator, durable, events>>

-----------------------------------------------------------------------------
(* ActivateBestChain *)

Candidate(b) == Range(path[b]) \subseteq have /\ ~Failed(b)

\* The candidates FindMostWorkChain may return.  A tie is broken by time of
\* arrival, so the tip, which came first, is kept.
MostWork ==
    LET candidates == {b \in have : Candidate(b)}
    IN  {b \in candidates : /\ Height(b) > Len(chain)
                            /\ \A c \in candidates : Height(c) <= Height(b)}

\* One turn of ActivateBestChain's loop up to ActivateBestChainStep.  The
\* target survives a release of cs_main.
FindMostWorkChain ==
    /\ old = NoStep /\ unwinding = 0
    /\ \/ most # 0 /\ UNCHANGED most
       \/ most = 0 /\ most' \in MostWork
    /\ lock' = TRUE /\ old' = Tip
    /\ start' = IF lock THEN start ELSE Tip
    /\ UNCHANGED <<world, have, failed, chain, leaf, list, operator, durable, events>>

\* ActivateBestChainStep returns with the tip t and the target m: cs_main is
\* held on while the tip is worse than it was.
StepReturns(t, m) ==
    /\ most' = m /\ old' = NoStep
    /\ lock' = (Height(t) < Height(start))
    /\ start' = IF Height(t) < Height(start) THEN start ELSE 0

OnTarget == Begins(chain, path[most])

DisconnectTip ==
    /\ old # NoStep /\ ~OnTarget
    /\ chain' = Beneath(chain)
    /\ TablesBecome(Unmark({Tip}, Tables))
    /\ UNCHANGED <<world, have, failed, activation, operator, durable, events>>

Connecting == path[most][Len(chain) + 1]

ConnectTip ==
    /\ old # NoStep /\ OnTarget
    /\ SpendsFresh(Connecting, Tables)
    /\ chain' = Append(chain, Connecting)
    /\ TablesBecome(Mark(Connecting, Tables))
    /\ IF Connecting = most \/ Height(Connecting) > Height(old)
       THEN StepReturns(Connecting, IF Connecting = most THEN 0 ELSE most)
       ELSE UNCHANGED activation
    /\ UNCHANGED <<world, have, failed, operator, durable, events>>

\* Mutant: the invalid block is not marked.
InvalidBlockFoundNever(b) == failed

InvalidBlockFound(b) == failed \cup {b}

\* ConnectBlock refuses the block: it is marked invalid and the target dropped.
ConnectTipFails ==
    /\ old # NoStep /\ OnTarget
    /\ ~SpendsFresh(Connecting, Tables)
    /\ failed' = InvalidBlockFound(Connecting)
    /\ StepReturns(Tip, 0)
    /\ UNCHANGED <<world, have, chain, leaf, list, operator, durable, events>>

-----------------------------------------------------------------------------
(* The operator's commands.  ActivateBestChain and InvalidateBlock exclude each *)
(* other by m_chainstate_mutex; both let go of cs_main between two blocks.      *)

Command(c) == c \in Commands /\ events < MaxEvents /\ events' = events + 1

\* One turn of InvalidateBlock's loop: the tip is disconnected and marked, down
\* to block b.
UnwindTip(b) ==
    /\ chain' = Beneath(chain)
    /\ TablesBecome(Unmark({Tip}, Tables))
    /\ failed' = failed \cup {Tip} /\ condemned' = condemned \cup {Tip}
    /\ unwinding' = IF Tip = b THEN 0 ELSE b
    /\ UNCHANGED <<world, have, activation, durable>>

InvalidateBlock(b) ==
    /\ Command("invalidate")
    /\ ~lock /\ most = 0 /\ unwinding = 0 /\ b \notin failed
    /\ \/ b \in Range(chain) /\ UnwindTip(b)
       \/ /\ b \notin Range(chain)
          /\ failed' = failed \cup {b} /\ condemned' = condemned \cup {b}
          /\ UNCHANGED <<world, have, chain, leaf, list, activation, unwinding, durable>>

InvalidateGoesOn == unwinding # 0 /\ UnwindTip(unwinding) /\ UNCHANGED events

\* ResetBlockFailureFlags: of the block, its descendants and its ancestors.
ReconsiderBlock(b) ==
    LET related == Range(path[b]) \cup {c \in Block : b \in Range(path[c])}
    IN  /\ Command("reconsider")
        /\ ~lock /\ failed \cap related # {}
        /\ failed' = failed \ related /\ condemned' = condemned \ related
        /\ UNCHANGED <<world, have, chain, leaf, list, activation, unwinding, durable>>

-----------------------------------------------------------------------------
(* Flushing, stopping and starting *)

\* FlushStateToDisk: the block index, and on a full flush the coins after it.
FlushStateToDisk(full) ==
    /\ Stops \cap {"crash", "torn"} # {}
    /\ disk' = [have |-> have, failed |-> failed]
    /\ coins' = IF full THEN Tip ELSE coins
    /\ durable' # durable
    /\ UNCHANGED <<world, have, failed, chain, leaf, list, activation, operator, events>>

\* ReplayBlocks after a flush from block o to block t was cut short: blocks of
\* the old branch are disconnected, those of the new one add coins only.
ReplayBlocks(o, t, d) == Unmark(Range(path[o]) \ Range(path[t]), d)

\* The first block of chain c that VerifyDB looks at.
FirstChecked(c) == IF Len(c) > CheckDepth THEN Len(c) - CheckDepth + 1 ELSE 1

\* Mutant: level 4 ends after the disconnects of level 3.
VerifyDBNoReconnect(c, d) ==
    [ok |-> TRUE, db |-> IF CheckLevel < 3 THEN d
                         ELSE Unmark({c[n] : n \in FirstChecked(c)..Len(c)}, d)]

\* VerifyDB of chain c at startup: level 3 runs DisconnectBlock on the last
\* blocks over a scratch coins view, level 4 connects them again.  The tables
\* are not scratch.
VerifyDB(c, d) ==
    LET first == FirstChecked(c)
        undone == Unmark({c[n] : n \in first..Len(c)}, d)
        redone == Remarked(c, first, undone)
    IN  CASE CheckLevel < 3 -> [ok |-> TRUE, db |-> d]
          [] CheckLevel = 3 -> [ok |-> TRUE, db |-> undone]
          [] OTHER -> [ok |-> \A n \in first..Len(c) : SpendsFresh(c[n], redone[n - 1]),
                       db |-> redone[Len(c)]]

\* The node stops and starts again.  A clean stop flushes; a crash goes back to
\* what was flushed; a torn flush has written the index and part of the coins.
\* A node whose VerifyDB fails does not come up and is not followed further.
Restart(stop) ==
    LET t == IF stop = "crash" THEN coins ELSE Tip
        idx == IF stop = "crash" THEN disk ELSE [have |-> have, failed |-> failed]
        replayed == IF stop = "torn" THEN ReplayBlocks(coins, t, Tables) ELSE Tables
        verified == VerifyDB(path[t], replayed)
    IN  /\ stop \in Stops /\ events + 2 <= MaxEvents
        /\ stop = "clean" => ~lock
        /\ verified.ok
        /\ have' = idx.have /\ failed' = idx.failed /\ chain' = path[t]
        /\ TablesBecome(verified.db)
        /\ lock' = FALSE /\ most' = 0 /\ start' = 0 /\ old' = NoStep
        /\ unwinding' = 0 /\ UNCHANGED condemned
        /\ coins' = t /\ disk' = idx
        /\ events' = events + 2
        /\ UNCHANGED world

Next ==
    \/ \E b \in Block : AcceptBlock(b)
    \/ FindMostWorkChain \/ DisconnectTip \/ ConnectTip \/ ConnectTipFails
    \/ \E b \in Block : InvalidateBlock(b) \/ ReconsiderBlock(b)
    \/ InvalidateGoesOn
    \/ \E full \in BOOLEAN : FlushStateToDisk(full)
    \/ \E stop \in Stops : Restart(stop)

\* ActivateBestChain and InvalidateBlock, of which one at most is under way.
Activation == FindMostWorkChain \/ DisconnectTip \/ ConnectTip \/ ConnectTipFails \/ InvalidateGoesOn

\* ActivateBestChain runs after every accepted block and every command, on the
\* same thread, until it has nothing to do.
Spec == Init /\ [][Next]_vars /\ WF_vars(Activation)

-----------------------------------------------------------------------------
(* Properties *)

\* The variables have the shapes declared above; the active chain consists of
\* stored blocks, none of them marked invalid.
TypeOK ==
    /\ have \subseteq Block /\ failed \subseteq Block
    /\ chain = path[Tip] /\ Range(chain) \subseteq have /\ ~Failed(Tip)
    /\ leaf \in [Leaf -> 0..N] /\ list \in [Block -> SUBSET Leaf]
    /\ lock \in BOOLEAN /\ most \in 0..N /\ start \in 0..N /\ old \in NoStep..N
    /\ coins \in 0..N /\ disk \in [have: SUBSET Block, failed: SUBSET Block]
    /\ unwinding \in 0..N /\ condemned \subseteq Block
    /\ events \in 0..MaxEvents

\* An entry of DB_POUW_LEAF names a block of the active chain that uses the
\* leaf, and DB_POUW_LEAF_LIST holds exactly the spends of active blocks: a
\* reorganisation leaves nothing behind, also when a transaction is in both
\* branches and the branches connect it in different blocks.
NoStaleMarks ==
    /\ \A l \in Leaf : leaf[l] # 0 => leaf[l] \in Range(chain) /\ l \in Uses(leaf[l])
    /\ \A b \in Block : list[b] = IF b \in Range(chain) THEN Range(SpendUses(b)) ELSE {}

\* Some block other than b is mined with leaf l.
MinedElsewhere(l, b) == \E c \in Block \ {b} : cb[c] = l

\* Every leaf that a block of the active chain uses is marked, so that the next
\* check can see it (unless another block is mined with it as well, whose
\* disconnection erases the mark).
MarksComplete ==
    \A b \in Range(chain) : \A l \in Uses(b) : leaf[l] # 0 \/ MinedElsewhere(l, b)

\* No transaction of the active chain, from the activation height on, spends a
\* leaf that an earlier block has recorded, that the block is mined with, or
\* that the block spends twice (with the exception of MarksComplete).
NoSpendReuse ==
    \A j \in 1..Len(chain) :
      LET s == SpendUses(chain[j])
      IN  /\ IsInjective(s) /\ cb[chain[j]] \notin Range(s)
          /\ \A i \in 1..(j - 1) : \A l \in Range(s) \cap Uses(chain[i]) :
               MinedElsewhere(l, chain[i])

\* Two uses of a leaf meet on the chain that ends in b.
ReuseOnPath(b) ==
    LET p == path[b]
        s == SpendUses(b)
    IN  \/ ~IsInjective(s) \/ cb[b] \in Range(s)
        \/ \E i \in 1..(Len(p) - 1) : Range(s) \cap Uses(p[i]) # {}

\* A block is called invalid for a reason: its spends reuse a leaf of its own
\* chain, or some other block uses its mining leaf.  The order in which blocks
\* arrived, and reorganisations before, never condemn any other block, nor does
\* the way back from invalidateblock through reconsiderblock.
FailedOnlyByReuse ==
    \A b \in failed \ condemned : ReuseOnPath(b) \/ \E c \in Block \ {b} : cb[b] \in Uses(c)

\* No two blocks of the active chain are mined with the same leaf
\* (primitives/block.h: "no reuse allowed").  Does not hold with MiningReuse, for
\* a block that is stored before its parent is connected.
NoMiningReuse ==
    \A i, j \in 1..Len(chain) : i # j => cb[chain[i]] # cb[chain[j]]

\* What the check at arrival does guarantee: a block whose mining leaf is used by
\* a block of the chain active at that time is not stored, whatever has been
\* connected, disconnected, replayed or verified before (unless a third block is
\* mined with the leaf as well, whose disconnection erases the mark).
NoReuseAtArrival ==
    [][\A b \in have' \ have : \A c \in Range(chain) :
         cb[b] \in Uses(c) /\ Height(b) >= MiningActivation
         => \E d \in have \ {c} : cb[d] = cb[b]]_vars

\* ActivateBestChain ends: from some time on cs_main is free, there is nothing
\* to do and no stored valid chain is longer than the active one.
SettlesOnMostWork == <>[](~lock /\ most = 0 /\ unwinding = 0 /\ MostWork = {})
=============================================================================
