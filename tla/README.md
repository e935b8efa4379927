# A TLA+ development of AssentianPQE-SNTI

AssentianPQE-SNTI is a fork of Bitcoin Core in which coins are spent with XMSS
signatures and blocks are mined with XMSS trees (PoUW v2).  XMSS is stateful: a
tree has 2^10 one-time keys, its *leaves*, and a leaf that signs two different
messages gives its key away.  Almost everything that is specific to this node
is about never doing that: across threads, crashes, restarts, copies of a data
directory, reorganisations and two ways of using a tree (mining and spending).
These modules model that code, the script checks and the block proof around it,
the rule for the difficulty, the mining loop, and the stratum server and the
hosted wallet in front of the node.  TLC checks them on small instances.  For every
component except the difficulty rule, TLAPS also proves the safety properties for
every value of the constants: any number of machines, threads, trees, leaves,
blocks, users and requests.

Paths below are relative to the repository; the C++ sources are in `src/`.

## The system and its modules

| Part of the system | Sources | Modules |
|---|---|---|
| Tree ledger: the one path to a signature | `src/xmss_tree_ledger.cpp`, `src/xmss_miner_state.h` | `TreeLedger`, `OneTimeLeaves`, `LedgerPowerLoss`; `TreeLedgerProofs` |
| Wallet: keys, state blob, spending | `src/wallet/xmss_signer.cpp`, `src/wallet/wallet.cpp`, `src/wallet/rpc/xmss.cpp`, `src/script/sign.cpp` | `XMSSWallet`; `XMSSWalletProofs` |
| Consensus: used leaves in the block tree database | `src/validation.cpp`, `src/node/chainstate.cpp`, `src/rpc/blockchain.cpp` | `LeafDB`; `LeafDBProofs` |
| Signature pushes, the XMSS opcode, the capture of leaves | `src/script/interpreter.cpp`, `src/script/sign.cpp`, `src/xmss_leaf_key.cpp`, `src/policy/policy.cpp`, `src/validation.cpp` | `XMSSScript`, `SpendChecks`; `SpendChecksProofs` |
| Block proof and failed seed list | `src/pouw_v2.h`, `src/pouw_v2_keyder.h`, `src/validation.cpp`, `src/rpc/mining.cpp` | `FailedSeeds`, `BlockProof`; `BlockProofProofs` |
| Difficulty | `src/pow.cpp`, `src/pouw_v2.h` | `Difficulty` |
| Mining loop | `src/rpc/mining.cpp`, `src/xmss_miner_state.h` | `Miner`; `MinerProofs` |
| Stratum server | `stratum_server.py` | `Stratum`; `StratumProofs` |
| Hosted wallet | `explorer/server.py`, `src/wallet/rpc/xmss.cpp` | `HostedWallet`; `HostedWalletProofs` |
| XMSS primitives, P2P, the rest of the mempool, GUI | `src/xmss*.c`, `src/net_processing.cpp`, ... | not modelled |

Modules whose name begins with `MC` give constants their values for TLC; those whose
name ends in `Proofs` hold theorems about the module they extend.

How they hang together: the stratum server asks the node to mine
(`generatetoaddress`).  The mining loop picks a tree whose root meets the target
and asks the *ledger* to sign with its next leaf.  The wallet asks the same
ledger when it spends.  A block that arrives, mined here or elsewhere, is checked
in two steps.  `CheckPoUW` checks its *proof* and looks the mining leaf up in the
*leaf database*.  `ConnectBlock` then runs the *scripts* of its transactions,
which report the leaves their signatures use, and records those.  The
*difficulty* rule sets the target.  The *hosted wallet* keeps the addresses of
many users in one node wallet and spends through its RPCs.

The models are layered the same way.  `OneTimeLeaves` says what the ledger
promises: a growing set of signatures in which no leaf occurs twice.
`TreeLedger` is proved to implement it.  `XMSSWallet` and `Miner` then use a
ledger call as one step, which that result justifies.  `HostedWallet` implements
the same `OneTimeLeaves`, under the mapping of an address to a tree of one leaf and
of a spent coin to its message.  `LeafDB` does not rely on
it: blocks come from anyone, and mining leaves may repeat.  It takes as given
which leaves a block uses.  `SpendChecks` shows for the spends that these are the
leaves that are recorded.  For the proof `BlockProof` shows it only of coinbases laid
out as `GenerateBlock` does; in others `ConnectBlock` may mark another leaf than the
one that was checked (`MarkedLeafAlwaysProved` below), and what `LeafDB` shows of
mining leaves is then about the leaf that is marked.

## The modules

**TreeLedger.**  One ledger file per tree and datadir, each datadir with its
instance id, force-claim sentinels and a process-wide mutex.  `BuildNewTree` and
`InitLedger` create files.  `ClaimAndSign`, `SaveLocked`, `Discard` and
`ReturnSignature` are `XMSSTreeLedgerClaimAndSign`, cut where a crash or a failed
write can separate its effects.  `Crash`, `Retire`, `CopyLedger` and
`DropSentinel` are what happens to a datadir: the process dies, the operator
gives the machine up, restores files elsewhere, or drops a sentinel.  Operators
are assumed careful (`OthersRetired`, `CopyIsCurrent`): they force-claim a copy that
is current, after retiring the other machines that hold one.  `LedgerPowerLoss`
adds a file system that may lose a rename that was not followed by an fsync of the
directory.

**XMSSWallet.**  `CXMSSSigner` and the parts of `CWallet` that save, load,
encrypt, lock and unlock its state.  A spend is a transaction with one or two
inputs that goes through reading the leaf, claiming it, verification, saving and
sending, with a crash possible after each.  If an input fails to sign nothing is saved;
the send RPCs then drop the transaction, while `signrawtransactionwithwallet` returns
it with the signatures it has (`partial`).  A one-time signature can thus leave the
wallet while its key is retired in memory only.  A miner claims leaves of a tree that
may also have been imported into the wallet.

**LeafDB.**  A tree of blocks that arrive in any order, `ActivateBestChain` cut at
each connected and disconnected block, the two leaf tables (which are written at
once), the coins and the block index (which are written by `FlushStateToDisk`),
and a restart that runs `ReplayBlocks` and `VerifyDB`.  An operator may call
`invalidateblock`, which disconnects one block at a time and lets blocks arrive in
between, and `reconsiderblock`.  A block is a mining leaf and a sequence of spent
leaves.

**XMSSScript.**  Operators only.  A stack item is a range of bytes of a signature, a
key, a hash or something else, with its real size.  `SignStep` cuts a signature;
`XmssCheckSig` is the opcode: it decides how many items below the key belong to
the signature, joins them and reports the leaf; `VerifyScriptXMSSCapture` runs the
input script, the output script and a redeem script; `ExtractXMSSLeafUse` reads a
leaf off a template spend without running it.  `TakesExactly` says without a stack
what the opcode is meant to accept.  `Template` is what `Solver` takes for an XMSS
output: the bare-key template is known by its beginning, so a script that goes on after
it (`TAILED`) counts as one.  `MINIMALDATA` makes a chunk of one byte from 1 to 16 an
opcode (`SmallNumber`), which the opcode joins and `ExtractXMSSLeafUse` refuses.

**SpendChecks.**  One transaction with two inputs, on its way through
`AcceptToMemoryPool`, which fills the script execution cache, and through any
number of `ConnectBlock` calls: dry runs, calls that skip scripts, calls that run
them inline or on worker threads (`RunCheck`, in any order).  `FinishConnect` waits
for the checks, gathers the leaves, refuses reuse and records.

**FailedSeeds and BlockProof.**  The failed seed list with its commitments, Merkle
root and coinbase form, and one block from the template to the check.
`CreateNewBlock`, `ReadSeedsHeight` and `ReadNextHeight` are the three times the
miner looks at the tip, which `TipMoves` may change in between; `FailTree` and
`EmbedProof` are the loop.  `Offer` is `CheckPoUW` and the part of `ConnectBlock`
that reads the coinbase again; it is given the miner's block, and blocks with the
same proof that differ from it in one respect.  The code finds the proof in two ways:
`CheckPoUW` takes the first `OP_RETURN` with the magic that is long enough,
`ParseCoinbasePoUWLeaf` any push of 68 bytes or more with the magic in any output, or a
64-byte push and a longer one.  `Marker`, `Tagged` and `Long` are outputs that only the
second takes for a proof.

**Difficulty.**  One action, `Mine`, over the last three gaps between block times.
Integers wrap at `Width` bits and pass through the compact form, both scaled
down; the weights and clamps are the code's.

**Miner.**  `GenerateBlock` run by several RPC threads over the pointer file, its
temp file and the ledger, cut at every file access and ledger call.

**Stratum.**  One handler per connection and the template task, cut at the awaits
that can suspend them.  The node answers, fails, or answers after the timeout.

**HostedWallet.**  Users with an account and a miner, and requests to
`/api/wallet/send`.  `StartSend`, `ReadAddresses`, `Look`, `SendAnswered`,
`SendAnswerLost`, `SendRefused`, `FinishRotating` and `Finish` are `wallet_send`,
cut at its database reads and RPCs; `CanSend`, `Chosen` and `SendFrom` are
`sendfromxmssaddress`.  `Mine`, `Rotate`, `RotateFails` and `RestartMiner` are the
loop of the installed miner.

## What is checked

Passing runs:

| Run | Instance | States | Shows |
|---|---|---|---|
| `ledger` | 2 datadirs, 3 threads, 1 tree of 3 leaves, 2 messages, 3 ids | 99,926 | no leaf reuse, counters only advance, the ledger implements `OneTimeLeaves`; the inductive invariant `LedgerInv`, whose conjuncts include durability before release, one signer at a time, only usable leaves and the secret key in step |
| `wallet_plain` | 2 own trees, 1 mining tree, 2 spends of up to 2 inputs | 1,726,035 | no leaf reuse, sent transactions verify, keys are retired only if used, no key whose address was given out is lost |
| `wallet_crypted` | 2 own trees, encryption, 2 spends of up to 2 inputs | 165,406 | keys of sent transactions stay retired on disk, those of incomplete ones that were handed out stay retired in memory until the node stops, and automatic spends sign once, across lock and unlock; stored keys are lost in one way only, by the unlock of a wallet that was loaded locked (see below) |
| `leafdb` | every tree of 3 blocks, mining leaves may repeat, up to 1 spend each; 1 restart at `-checklevel=4`, or 2 commands | 1,135,080 | nothing stale in the tables, nothing missing (but for mining leaves that repeat), no spend reuse, no block stored that is mined with a leaf of the chain active at that time, only reuse is refused, the node settles on the longest valid chain |
| `difficulty` | 7 gaps, through the three activation heights | 135,719 | every demanded transition permitted, own timestamp without effect, targets follow block times, a stalled chain gets back to the easiest target |
| `miner` | 2 threads, 3 trees of 2 leaves, 2 targets | 2,507,586 | no leaf signs twice, the ledger covers every signature, every block handed on passes the checks on its root, leaf and failed seeds |
| `stratum` | 2 workers, 4 shares, 3 heights | 114,907 | one attempt at a time, fresh work for the finder, every attempt ends unless the finder's client stops reading |
| `spend_checks` | 2 inputs; the first of 6 kinds, cut in 7 ways, over 4 kinds of items; 2 mining leaves, 2 records before the block | 259,456 | the opcode accepts exactly the intended spends, a connected block has passed its checks, every leaf is recorded and none twice, also with a warm cache, in parallel and within the block; nodes that skip scripts record the same leaves for the wallet's two scripts and spends that passed the policy, unless a chunk is pushed by a number opcode |
| `block_proof` | heights 0 to 5 around both activations, 0 to 20 failed trees, payout to a hash or to a key | 116,864 | the miner's own block passes, a proof is good for one block, one root stands for one list up to repetitions at its end, the leaf that is marked is the one that was checked if only payouts and the witness commitment precede the proof |
| `hosted` | 2 users, 2 concurrent sends, 3 addresses, 2 coins, 1 fault | 704,152 | a send spends only coins of its user and reports the amounts it sent, drained addresses are replaced, the whole implements `OneTimeLeaves` |

The following hold on the same instances and are not listed in the runs: `TypeOK` of
every module that has one, `TargetInRange`, `DurableBeforeRelease`, `SoleSigner`,
`SkNeverDiverges` and `UsableLeavesOnly` (conjuncts of `LedgerInv`), `LostOnlyByOverlap`
(a trigger is lost only when two answers overlap), `WalletSpendsPass` (what the wallet
makes passes policy and checks), `WinnerNotListed` (a tree does not both win and fail
in one block), `PublishedIsBurned` (published seeds are indexed) and `RewardsSpread`
(rewards of a user share an address only after a failed rotation or a restart).
Of these, `PublishedIsBurned`, `LostOnlyByOverlap`, the conjuncts of `LedgerInv` and
`TypeOK` of `TreeLedger` and `LeafDB` are also proved.

Every property of a passing run is shown to depend on the code by a mutant: an
operator marked `Mutant` beside the one it would replace, under which TLC finds
the property violated.

## Where code and comments disagree

Each of these runs checks one sentence of the repository and ends in a
counterexample.  `PROJECT.json` quotes the sentences.

| Run | The code |
|---|---|
| `ledger_power_loss` | A rename that is not followed by an fsync of the directory can be undone by a power loss after the signature was returned. |
| `leafdb_verify` | The start-up check at its default level erases the leaf marks of the last blocks. |

The modules also state the following, none of which holds.  They are not part of
the runs; TLC finds each counterexample when the definition is put in place of the
properties of the configuration named and the constants are changed as said.

| Definition | Configuration | The code |
|---|---|---|
| `AddressKeysSurvive` | `XMSSWalletCrypted` | A wallet that is loaded locked generates a key, and the next unlock saves that key alone over the stored ones; `wallet/rpc/xmss.cpp:90` says the key is saved so that it "survives a node crash or restart". |
| `NativeSignsOnce` | `XMSSWalletPlain` | A node that stops between signing and saving signs with a one-time address again, at the next leaf; `README.md` says the wallet refuses. |
| `ReleasedKeysOnDisk` | `XMSSWalletCrypted` | `SignTransaction` saves only when every input is signed, and `signrawtransactionwithwallet` returns an incomplete transaction too; `wallet/wallet.cpp:2208` says of a crash after signing that "the leaf index and retired flag are already on disk".  A restart then forgets the retirement; the ledger still prevents a second use of the leaf. |
| `LegacyKeysFailClosed` | `XMSSWalletPlain`, `LegacyImports = TRUE` | Keys of old blobs load as the wallet's own; `xmss_signer.cpp:363` says as imported. |
| `FailedOnlyByReuse` | `LeafDB`, `Stops = {"crash"}` | Leaf marks are written at once, the block index and coins at the next flush; after a crash in between, a block can be refused because of the mark it left itself.  `validation.cpp:2842` says "this can never mark a leaf for a block that didn't actually get connected". |
| `NoMiningReuse` | `LeafDB` | A mining leaf is looked up at arrival only, so a child stored before its parent may repeat the parent's leaf; `primitives/block.h:41` says "no reuse allowed". |
| `TransitionsPermitted` | `Difficulty`, `AllowMin = TRUE`, `MinShift = 5`, `CeilingShift = 6` | The return to minimum difficulty can be a transition that headers synchronisation refuses. |
| `FollowsBlockTimes` | `Difficulty`, `PowLimit = 32752`, `AllowMin = TRUE` | With the test networks' `powLimit` the "overflow-safe" product of `pouw_v2.h:180` wraps. |
| `FailedTreesNeverWon` | `Miner`, `MinSeeds = 1` | A tree that has won blocks is listed among the failed seeds once the target is harder than its root; `validation.cpp:2093` says "Nothing currently pays to a failed root". |
| `TempFileThere` | `Miner` | Two calls share a temp file, and the second rename throws. |
| `EveryBlockHasSeeds` | `Miner` | Blocks without a failed seed list are made, and `CheckPoUW` accepts them. |
| `EveryBlockListsSeeds` | `BlockProof` | The same from the side of the check; `validation.cpp:4301` says "Every PoUW v2 block must include" a list. |
| `ProofCoversSeeds` | `BlockProof` | The signed message has no `commitmentsRoot`, so a proof is good with another list too; `validation.cpp:4303` says the root is "covered by the XMSS proof itself". |
| `MarkedLeafAlwaysProved` | `BlockProof` | An output before the proof that `ParseCoinbasePoUWLeaf` alone takes for a proof (a short push with the magic, or after a 64-byte push the seed list or another long push) makes `ConnectBlock` mark another leaf than `CheckPoUW` has verified.  `GenerateBlock` makes no such coinbase. |
| `SkippedStandardAgree` | `SpendChecks` | A chunk of one byte from 1 to 16 must be pushed by an opcode (`MINIMALDATA`), and `xmss_leaf_key.cpp:38` refuses opcodes above `OP_PUSHDATA4`: a node that skips scripts records nothing for such a standard spend. |
| `SkippedTemplatesAgree` | `SpendChecks` | A template spend with an empty item below the signature is captured by the interpreter and missed by `ExtractXMSSLeafUse`; `validation.cpp:2680` names "non-template scripts" as the blind spot.  The policy (one item left on the stack) refuses such a spend. |
| `OtherInputsKeepTheLimit` | `SpendChecks` | A pay-to-script-hash input may have a script of up to 3000 bytes; `policy.cpp:225` says the old limit is enforced again "for every other input type". |
| `NeverOverpays` | `HostedWallet` | When the answer to a call that has sent is lost, `wallet_send` counts it as skipped and goes on with the next address. |
| `RewardsSpendable` | `HostedWallet` | A second coin reaches an address that is mined to, by a deposit, a failed rotation or a restarted loop, and the key signs for one of them only; `server.py:1788` says every address "holds exactly the one UTXO". |
| `ChangeIsOwned` | `HostedWallet` | Change goes to a fresh address of the node's wallet that is not in the user's list. |
| `CurrentCanSpend` | `HostedWallet` | An address that becomes the current one during a send and is drained by it stays the current one. |
| `TriggeredEveryTime` | `Stratum` | A trigger is lost when another share is counted during the write of the answer. |
| `SoleMiningCall` | `Stratum` | A call that timed out goes on at the node beside the next one. |
| `MiningAlwaysEnds` | `Stratum` | The handler that found a block waits in `drain()`, without a timeout, for its client to take the new work before `finally` resets `mining_in_progress`; while that client does not read, no share triggers mining. |
| `NewWorkForAll` | `Stratum` | Only the worker that found the block is sent new work. |

Likewise `NoLeafReuse` fails in `TreeLedger` without `CopyIsCurrent`: that "the
original machine is permanently retired" (`xmss_tree_ledger.cpp:255`) is not
enough to force-claim a copy that is older than its last signature.

## Bounds and why they are enough

* Ledger: two datadirs and three threads give two threads of one process and one
  of another; three leaves allow a use, a lost use and one after it.  The proofs
  remove these bounds.  Blacklisted trees appear in the proofs only.
* Wallet: two inputs are needed for one of them to fail, two spends for a key to
  be used again, two leaves for the second use to be at another leaf.  The encrypted
  instance has no mining tree; run `wallet_plain` has one, and the proofs cover both
  at once.
* LeafDB: a restart counts as two events, so that a behaviour has a restart or up to
  two commands; `reconsiderblock` thus meets every state that `invalidateblock`
  leaves, half unwound ones included.  Three blocks are a chain, or a branch of one against a branch of two,
  the smallest reorganisation in which the new branch fails after the old one is
  gone.  Leaf 2 is the one that is spent: no block, one or several may be mined
  with it.  Spends are recorded from the first block on; the heights below
  activation, where nothing is recorded, are left out.
* Difficulty: the gaps lie on both sides of every comparison.  The state is the
  target, three gaps and the height; heights past the last activation are alike,
  and the height then alternates between two values, so that the chain has no
  bound on its length and every block is a step.  The scaled `powLimit` leaves room
  for the factors 2.9 and 20 that the code multiplies by, as on the main network.
* Miner: two threads and three trees, one or two of which can win, so that each
  thread can overwrite the other's pointer to another tree and a tree can win at
  one target and fail at the other.  Threads are interchangeable (symmetry).
* Spend checks: sizes are the real ones.  The cuts are the wallet's, the longest and
  shortest pushes, one that fills all pieces the opcode takes and one more than it
  takes, one push that is too long, one whose first piece is shorter than the leaf
  number, and one in which the last byte of that number is a piece of its own, pushed
  by an opcode or not; below the signature there is nothing, an empty item, a chunk-like
  item or both.  The second input is the wallet's and may repeat the first one's
  leaf, as may the block's proof and the record.
* Block proof: the real limits on lists (10 to 20 entries); heights on both sides
  of both activations.  The other lists are those that an odd level of the Merkle
  tree might confuse, and one of each kind that `CheckPoUW` refuses.  Repetitions are
  those of the last entry or the last two.  A stray output stands behind the payout or
  at the end.
* Hosted wallet: two coins suffice for two at one address, one each at two addresses
  of a user and one each of two users; amounts lie below and above one coin.  One
  fault leaves every other request to behave.  Users and requests are
  interchangeable (symmetry).
* Stratum: shares for two triggers and one abandoned call, so that a second call
  can meet it.

Deadlock is not checked where the system may come to rest: an exhausted ledger, a
wallet that has made its last spend of the bound, a node that has every block, a
transaction that is connected, a block that is checked, requests that are answered.

## Fairness

* `LeafDB`: `ActivateBestChain` and `InvalidateBlock` go on while they have something
  to do; each is a loop on one thread, and they exclude each other.  Nothing
  is assumed about blocks arriving or about commands.
* `Difficulty`: blocks keep being mined.  Recovery is claimed only for chains on
  which the gaps stay slow.
* `Stratum`: the event loop runs handlers that are not waiting, the template task
  repeats, and an RPC ends within its timeout.  Clients need not do anything, read
  what they are sent included: no step that follows a `drain()` is assumed to be taken.
  `MiningEnds` therefore excepts a handler that waits for its client forever.

The other modules state safety only.

## What is proved

Every theorem holds for all values of the constants that satisfy the `ASSUME` of the
module (numbers are natural, bounds are positive where the code needs it, the markers
for "none" are nothing else), and under the further hypotheses named below, which
appear in the statement of the theorem.  In particular the bounds named in the section
above are arbitrary there.

Hardly any of the properties is inductive as it stands, so each module has an inductive
invariant, which TLC has checked as well (`LedgerInv` in run `ledger`, the others with
the constants of the runs).  Its proof goes action by action, and under an action clause
by clause.

**`TreeLedgerProofs`**: `TypeCorrect`, `Invariance`, `LeafSafety` (no leaf reuse),
`OwnershipSafety`, `Durability`, `SkAgreement`, `LeafRange`, `Monotonicity` and
`Refinement` (the ledger implements `OneTimeLeaves`).  A signature is released after
the save, and the save may have been made from a file that was copied from another
machine.  `LedgerInv` therefore adds:

* `IdsInv`: ids and stamps have been minted, and no two datadirs have the same id.
* `CallInv`: a call in flight holds its mutex, and what it has in memory is one
  leaf ahead of the file, or equal to it once saved.
* `HeldInv`: a snapshot is held in one datadir, and while that datadir has no file
  for the tree no other has one, so that a file is never created twice.
* `OwnerInv`: a file stamped by a datadir exists there too, and a file without a
  stamp is the only one of its tree.
* `SoleSigner`: at most one datadir in service can sign with a tree.
* `SignerIsCurrent`: that datadir has the most advanced file of the tree, hence,
  with `DurableBeforeRelease`, one that is ahead of every signature.
* `PendingLeafIsNew`: a leaf that is saved and not yet returned is above all others.

**`XMSSWalletProofs`**: `WalletInvariance`, `WalletLeafSafety` and `AutoSpendSafety`
(both if old blobs hold no key of the miner, `~LegacyImports`), `GeneratedTreesSafe` (the
same for the wallet's own trees without that hypothesis), `SentTransactionsVerify`,
`SentKeysRetired`, `RetiredKeysUsed`, `KeysSurvive` (for wallets that are never encrypted,
`~MayEncrypt`) and `StoredKeysKept` (an action property: only an unlock loses a stored
key).  `WalletInv` says the same of the keys in memory and in the blob (`KeysOK`,
`DiskOK`), since either may become the other by a save or a crash; that the ledger's
position separates used from unused leaves (`LedgerOK`); what a transaction that is half
signed has already done to keys and blob (`TxOK`, `AutoOK`, `SpendsOK`); and that a wallet
that can write has all stored keys in memory (`SessionOK`).  `SentKeysRetired` adds
`HandedInv`: the keys of an incomplete transaction that was handed out are retired in
memory.

**`LeafDBProofs`**: `LeafDBInvariance`, `ChainValid`, `TablesExact`, `TablesComplete`,
`SpendsNeverReuse`, `FailuresJustified` and `ArrivalChecked` (an action property), for
every tree of blocks.  Hypotheses: `"crash" \notin Stops` (stops are clean or tear a flush) and
`CheckLevel # 3`; with a crash or at level 3 some of these properties fail (see above).
`LeafDBInv` says that the active chain is the path of a stored valid block (`ChainOK`,
`ChainTyped`), that the target of `ActivateBestChain` is a longer such path
(`ActivationOK`), and that the tables are exact, complete and free of reuse for the
active chain *and the blocks stored* (`TablesOK`): which mark may be missing depends on
blocks that were stored, not on all that may exist.  `TablesOK` has the tables and the
chain as parameters.  One lemma for connecting a block and one for disconnecting it
thus serve `ConnectTip`, `DisconnectTip`, `InvalidateBlock`, `ReplayBlocks` and
`VerifyDB`, which each do a number of those at once.

**`SpendChecksProofs`**: `SpendInvariance`, `ConnectedScriptsPass`, `EveryLeafRecorded` and
`BlockLeavesDistinct`, for every set of transactions.  Hypothesis: `ScriptsExact`, that the
script of one input passes exactly when it should and reports its leaves.  Run
`spend_checks` checks that for the scripts of its instance (`VerifiesExactly`).  The
theorems are about what the cache, the queue of checks, the dry runs and the reuse check
make of these answers: `CacheOK` (only what passed is cached), `ChecksOK` (a check is
waiting, or has left its own answer in its own slot) and `UntouchedOK` (dry runs and
refusals record nothing).

**`BlockProofProofs`**: `BlockInvariance`, `OwnBlockAccepted`, `ProofBindsItsBlock`,
`MarkedLeafProved` and `PublishedAddressesBurned`, for every number of failed trees and
every activation height.  `OwnBlockAccepted` needs `ListsFit`: a proof and the longest list
fit into `nPoUWMaxSigSize`.  `MarkedLeafProved` is about coinbases in which only payouts and
the witness commitment precede the proof (`ProofFollowsPayouts`).  `BlockInv` says which block the miner has made at each stage
(`BlockOK`), that its list is that of the trees built so far, in order (`SeedsOK`), and
what the answer to an offered block was (`AnswerOK`).

**`MinerProofs`**: `MinerInvariance`, `MinerLeafSafety`, `MinerCoverage` and
`MinedBlocksVerify`.  Every call works on its own copy of the pointer file, so `MinerInv`
is about calls: `ControlInv` (where a call is tells what it knows of its tree), `SeedsInv`
(its failed seeds miss its target) and `PendingInv` (the leaf of a block to be is below
the ledger's position and belongs to no other block or call).

**`StratumProofs`**: `MutualExclusion`, `FreshWork` (an action property) and
`TriggersLostByOverlap`, for every number of connections.  `ExclusionInv` has the set of
handlers between trigger and `finally` instead of its size; `CountInv` counts the trigger
that an answer still owes.

**`HostedWalletProofs`**: `HostedInvariance`, `HostedOwnership`, `HostedReports`,
`HostedReplacement` and `HostedRefinement` (it implements `OneTimeLeaves`), for finitely many
requests.  `HostedInv` says that addresses have one user (`AddressInv`), that what a
request has read of addresses is still its user's (`RequestInv`), that coins and
transactions have distinct identifiers (`TxInv`), how many addresses the node has handed
out (`CountInv`) and who will replace a drained address (`DrainInv`).  `HostedReports` adds
`PayInv`: the sum over a request's transactions is what it has counted, and more if an
answer was lost.

Where a definition is recursive, or a sum over a set, the proofs take a least
counterexample in place of an induction: paths in the block tree, the removal of
outputs from a coinbase, and sums over finite sets of transactions.

Only model-checked:

* `SettlesOnMostWork`, `RecoversFromStall` and `MiningEnds`: liveness under fairness is
  outside what the proof system handles.
* `RootCommitsToSeeds`: what two Merkle trees have in common if their roots agree, an
  induction over lists of all lengths.
* `VerifiesExactly` and `SkippedScriptsAgree`: what evaluating a script gives, by folds over
  opcodes and stack items.
* `TransitionsPermitted`, `OwnTimestampInert` and `FollowsBlockTimes`: products and
  quotients of variables that wrap, which the solvers do not decide.

## Abstractions

* A signature is its tree, leaf and message.  Hashes do not collide and a fresh
  tree has a fresh root.
* `Miner` and `XMSSWallet` take a ledger call as one step.  The pointer file's
  `Save` is cut between write and rename; the moment at which the temp file is
  empty is not shown.
* `LeafDB`: all blocks have equal work and their headers are known before them.
  Among equal branches the one seen first wins, also after a restart (where the
  code orders by address).  Writes to the database survive a crash of the
  process; a power loss that undoes them is not modelled.  Rules other than leaf
  use are taken to hold.
* `Difficulty`: a mean of block times is rounded down, where C++ rounds towards
  zero; both are below the clamp when negative.  At most one of the last gaps is
  negative, in place of the median time rule.
* `Stratum`: a write to a client may suspend its handler, as it does when the
  client reads slowly.  Statistics are left out.
* `TreeLedger`: a claim that is refused because another datadir owns the file has no
  effect; the code may create the instance id of the datadir on the way, which the
  next call would create otherwise.
* `XMSSScript`: a signature verifies if it is whole, by the key and for the input; the
  sighash is the input's number.  Opcodes are those of the six output scripts, one
  of them the bare-key template with one opcode behind it.  Bytes of a signature other than its leaf number
  are not cut into single bytes, and pushes have the shortest encoding of their size.
  `SpendChecks` has one transaction in the block, whose coins are there.
* `BlockProof`: a hash is the tuple of what is hashed.  A tree's root is its number
  above the target.  The fields of the header that no check reads are left out.  An
  output has one push; the code looks at all pushes of a script when it marks a leaf.
* `HostedWallet`: amounts are small integers, where the server uses floats and the
  node integers.  The estimated fee is the actual one.  `getnewxmssaddress` and the
  database rows are one step, as are `getxmssaddressinfo` and `listunspent`.  A user
  installs one miner.  A call that is refused has not signed: `CreateTransaction` may
  also fail after signing, for instance on the maximum fee (`wallet/rpc/xmss.cpp:868`),
  which retires the key without a transaction; `DrainedAddressReplaced` says nothing of
  that case.  `ReportsWhatItPaid` compares amounts; fees on top of them and change,
  which goes to an address the user does not have, are not counted.

## Not modelled

* The XMSS primitives and the WOTS+ verification: computation on bytes.
* Address and record encodings.
* P2P, headers synchronisation, block assembly and the mempool beyond its script
  checks, the coins database beyond its best block: inherited from Bitcoin Core
  and hardly changed.
* The proof format before PoUW v2, except where it may be mistaken for the new one.
* The wallet's generic spending path (`sendtoaddress` and `wallet/spend.cpp`).
* `preciousblock`, pruning and assumeutxo snapshots.
* Login, tokens, watch addresses, balances and history of the hosted wallet.
* The GUI.  By count of lines most of the tree is its translation catalogues
  (`src/qt/locale/*.ts`), which are data and have no behaviour to model.

## Plan

1. The wallet's generic spending path, with its second signing attempt, in
   `XMSSWallet`.
2. Composition: `Miner` and `XMSSWallet` over `TreeLedger` by refinement of
   `OneTimeLeaves`, in place of ledger calls that are one step by definition.
3. Proofs: target range and permitted transitions in `Difficulty`; that `XmssCheckSig`
   accepts what `TakesExactly` says, which would remove the hypothesis `ScriptsExact`.
