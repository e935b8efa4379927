---------------------------- MODULE TreeLedger ----------------------------
(***************************************************************************)
(* The unified XMSS tree ledger, src/xmss_tree_ledger.{h,cpp} over the     *)
(* state record of src/xmss_miner_state.h: one file per tree root in each  *)
(* datadir, rewritten atomically (temp file, fsync, rename) under one      *)
(* process-wide mutex, and the only path by which mining and wallet        *)
(* spending obtain a signature.  Several datadirs (machines) are modelled, *)
(* because ledger files travel in backups and the ownership stamp is the   *)
(* code's answer to that.                                                  *)
(***************************************************************************)
EXTENDS Integers

CONSTANTS
    Datadirs,     \* datadirs, each served by at most one bitcoind process
    Roots,        \* XMSS tree roots (uint256)
    Msgs,         \* 32-byte hashes to sign
    Threads,      \* RPC threads: miners (GenerateBlock), wallets (SignXMSS)
    DirOf,        \* the datadir whose process a thread belongs to
    Blacklisted,  \* roots of xmss_blacklist.h
    MaxLeaves,    \* XMSS_MAX_LEAVES
    MaxMint,      \* bound: instance ids minted in a behaviour
    Free,         \* g_xmss_ledger_mutex not held
    NoFile        \* no ledger file for a root

\* An owner stamp of 0 is the all-zero stamp of v1 files; instanceId 0 means
\* that .instance_id is absent or short.  Other ids are random, hence fresh.
File == [next: 0..MaxLeaves, sk: Nat, owner: Nat]

\* What a caller hands to Init or SeedFromActive: the miner's pointer file or a
\* wallet's key entry (next is nextLeafIndex, sk the index inside the SK blob).
Snapshot == [root: Roots, next: 0..MaxLeaves, sk: Nat]

ASSUME ConstantsOK ==
    /\ Roots # {} /\ Msgs # {}
    /\ DirOf \in [Threads -> Datadirs]
    /\ Blacklisted \subseteq Roots
    /\ MaxLeaves \in Nat \ {0}
    /\ MaxMint \in Nat
    /\ Free \notin Threads
    /\ NoFile \notin File

VARIABLES
    ledger,      \* ledger[d][r]: xmss_trees/<r>.dat of datadir d
    instanceId,  \* instanceId[d]: xmss_trees/.instance_id of datadir d
    minted,      \* number of ids minted so far
    sentinel,    \* <<d, r>>: xmss_trees/<r>.forceclaim exists in d
    held,        \* held[d]: snapshots that callers in d keep on disk
    built,       \* roots whose tree has been generated
    online,      \* datadirs not yet permanently retired by their operator
    mutex,       \* mutex[d]: thread holding g_xmss_ledger_mutex of d's process
    phase,       \* phase[t]: where t is inside ClaimAndSign
    req,         \* req[t]: root and hash32 of the call t is in
    mem,         \* mem[t]: t's local `state` after signing
    released     \* history: signatures handed back to callers

store == <<ledger, instanceId, minted, sentinel, held, built, online>>
threadVars == <<mutex, phase, req, mem>>
vars == <<store, threadVars, released>>

Signature == [root: Roots, leaf: Int, msg: Msgs]
NoReq == [root |-> CHOOSE r \in Roots : TRUE, msg |-> CHOOSE m \in Msgs : TRUE]
NoMem == [next |-> 0, sk |-> 0, owner |-> 0]

TypeOK ==
    /\ ledger \in [Datadirs -> [Roots -> File \cup {NoFile}]]
    /\ instanceId \in [Datadirs -> Nat]
    /\ minted \in Nat
    /\ sentinel \subseteq Datadirs \X Roots
    /\ held \in [Datadirs -> SUBSET Snapshot]
    /\ built \subseteq Roots
    /\ online \subseteq Datadirs
    /\ mutex \in [Datadirs -> Threads \cup {Free}]
    /\ phase \in [Threads -> {"idle", "signed", "saved"}]
    /\ req \in [Threads -> [root: Roots, msg: Msgs]]
    /\ mem \in [Threads -> File]
    /\ released \subseteq Signature

-----------------------------------------------------------------------------
(* Initial states: for every tree nothing yet, a v1 ledger file (no stamp), *)
(* or a pointer file that predates the ledger, in one datadir only.         *)

Origin == [kind: {"none", "v1file", "pointer"}, dir: Datadirs, next: 0..MaxLeaves]

InitWith(origin) ==
    /\ ledger = [d \in Datadirs |-> [r \in Roots |->
                    IF origin[r].kind = "v1file" /\ origin[r].dir = d
                    THEN [next |-> origin[r].next, sk |-> origin[r].next, owner |-> 0]
                    ELSE NoFile]]
    /\ held = [d \in Datadirs |->
                    {[root |-> r, next |-> origin[r].next, sk |-> origin[r].next] :
                        r \in {q \in Roots : origin[q].kind = "pointer" /\ origin[q].dir = d}}]
    /\ built = {r \in Roots : origin[r].kind # "none"}

Init ==
    /\ \E origin \in [Roots -> Origin] : InitWith(origin)
    /\ instanceId = [d \in Datadirs |-> 0]
    /\ minted = 0
    /\ sentinel = {}
    /\ online = Datadirs
    /\ mutex = [d \in Datadirs |-> Free]
    /\ phase = [t \in Threads |-> "idle"]
    /\ req = [t \in Threads |-> NoReq]
    /\ mem = [t \in Threads |-> NoMem]
    /\ released = {}

-----------------------------------------------------------------------------
(* Helpers of the source *)

IsExhausted(f) == f.next >= MaxLeaves

IsValid(s) == s.next < MaxLeaves

IsXMSSTreeBlacklisted(r) == r \in Blacklisted

\* GetOrCreateInstanceId: the id on file, or a fresh random one that is then
\* persisted, unless writing it fails (in which case the next call mints again).
GetOrCreateInstanceId(d, id) ==
    IF instanceId[d] # 0
    THEN id = instanceId[d] /\ UNCHANGED <<instanceId, minted>>
    ELSE /\ minted < MaxMint
         /\ id = minted + 1
         /\ minted' = minted + 1
         /\ \/ instanceId' = [instanceId EXCEPT ![d] = id]
            \/ UNCHANGED instanceId

Ids == 1..MaxMint

\* Mutant: the mutex is not taken.
CanEnterNoLock(t) == DirOf[t] \in online /\ phase[t] = "idle"

\* A thread may enter a ledger call: its process runs and nobody holds the mutex.
CanEnter(t) ==
    /\ DirOf[t] \in online
    /\ phase[t] = "idle"
    /\ mutex[DirOf[t]] = Free

-----------------------------------------------------------------------------
(* Creating ledger files *)

\* GenerateKey / BuildNewTree: a new tree at leaf 0, kept by its caller.
BuildNewTree(t) ==
    /\ DirOf[t] \in online /\ phase[t] = "idle"
    /\ \E r \in Roots \ built :
         /\ built' = built \cup {r}
         /\ held' = [held EXCEPT ![DirOf[t]] = @ \cup {[root |-> r, next |-> 0, sk |-> 0]}]
    /\ UNCHANGED <<ledger, instanceId, minted, sentinel, online, threadVars, released>>

\* The part Init and SeedFromActive share: stamp the caller's state and save it
\* (the second disjunct is a SaveLocked that fails before its rename).
CreateLedger(d, s, id) ==
    /\ GetOrCreateInstanceId(d, id)
    /\ \/ ledger' = [ledger EXCEPT ![d][s.root] =
                        [next |-> s.next, sk |-> s.sk, owner |-> id]]
       \/ UNCHANGED ledger

\* Mutant: an existing ledger file is overwritten.
InitLedgerClobber(t) ==
    /\ CanEnter(t)
    /\ \E s \in held[DirOf[t]], id \in Ids : IsValid(s) /\ CreateLedger(DirOf[t], s, id)
    /\ UNCHANGED <<sentinel, held, built, online, threadVars, released>>

\* XMSSTreeLedgerInit and XMSSTreeLedgerSeedFromActive: an existing file is
\* never touched, an invalid snapshot never written.
InitLedger(t) ==
    /\ CanEnter(t)
    /\ \E s \in held[DirOf[t]], id \in Ids :
         /\ IsValid(s)
         /\ ledger[DirOf[t]][s.root] = NoFile
         /\ CreateLedger(DirOf[t], s, id)
    /\ UNCHANGED <<sentinel, held, built, online, threadVars, released>>

-----------------------------------------------------------------------------
(* XMSSTreeLedgerClaimAndSign, split where a crash can separate its effects *)

Foreign(f, id) == f.owner # 0 /\ f.owner # id

\* The leaf index inside the SK blob must agree with the tracked one.
SkMatches(f) == f.sk = f.next

\* Everything up to and including xmss_sign.  A refused call (exhausted, SK
\* mismatch) has consumed the force-claim sentinel already.
ClaimAndSign(t, r, m) ==
    LET d == DirOf[t]
        f == ledger[d][r]
    IN  /\ CanEnter(t)
        /\ ~IsXMSSTreeBlacklisted(r)
        /\ f # NoFile
        /\ \E id \in Ids :
             /\ GetOrCreateInstanceId(d, id)
             /\ \/ ~Foreign(f, id) /\ UNCHANGED sentinel
                \/ /\ Foreign(f, id) /\ <<d, r>> \in sentinel
                   /\ sentinel' = sentinel \ {<<d, r>>}
             /\ IF ~IsExhausted(f) /\ SkMatches(f)
                THEN /\ mutex' = [mutex EXCEPT ![d] = t]
                     /\ phase' = [phase EXCEPT ![t] = "signed"]
                     /\ req' = [req EXCEPT ![t] = [root |-> r, msg |-> m]]
                     /\ mem' = [mem EXCEPT ![t] =
                                  [next |-> f.next + 1, sk |-> f.sk + 1, owner |-> id]]
                ELSE UNCHANGED threadVars
        /\ UNCHANGED <<ledger, held, built, online, released>>

\* Mutant: the advanced SK blob is not written back, only the counter.
SaveCounterOnly(t) ==
    /\ phase[t] = "signed"
    /\ ledger' = [ledger EXCEPT ![DirOf[t]][req[t].root] = [mem[t] EXCEPT !.sk = @ - 1]]
    /\ phase' = [phase EXCEPT ![t] = "saved"]
    /\ UNCHANGED <<instanceId, minted, sentinel, held, built, online, mutex, req, mem, released>>

\* SaveLocked succeeds: the rename publishes the advanced state.
SaveLocked(t) ==
    /\ phase[t] = "signed"
    /\ ledger' = [ledger EXCEPT ![DirOf[t]][req[t].root] = mem[t]]
    /\ phase' = [phase EXCEPT ![t] = "saved"]
    /\ UNCHANGED <<instanceId, minted, sentinel, held, built, online, mutex, req, mem, released>>

Leave(t) ==
    /\ mutex' = [mutex EXCEPT ![DirOf[t]] = Free]
    /\ phase' = [phase EXCEPT ![t] = "idle"]
    /\ req' = [req EXCEPT ![t] = NoReq]
    /\ mem' = [mem EXCEPT ![t] = NoMem]

\* Mutant: the signature is returned although (or before) the save failed.
DiscardKeepsSignature(t) ==
    /\ phase[t] = "signed"
    /\ released' = released \cup
         {[root |-> req[t].root, leaf |-> mem[t].next - 1, msg |-> req[t].msg]}
    /\ Leave(t)
    /\ UNCHANGED store

\* xmss_sign or SaveLocked failed: the signature is discarded.
Discard(t) ==
    /\ phase[t] = "signed"
    /\ Leave(t)
    /\ UNCHANGED <<store, released>>

\* sig_out and leaf_used_out are assigned and the call returns true.
ReturnSignature(t) ==
    /\ phase[t] = "saved"
    /\ released' = released \cup
         {[root |-> req[t].root, leaf |-> mem[t].next - 1, msg |-> req[t].msg]}
    /\ Leave(t)
    /\ UNCHANGED store

-----------------------------------------------------------------------------
(* The environment: processes die, operators move files (external) *)

Idle(d) ==
    /\ mutex' = [mutex EXCEPT ![d] = Free]
    /\ phase' = [t \in Threads |-> IF DirOf[t] = d THEN "idle" ELSE phase[t]]
    /\ req' = [t \in Threads |-> IF DirOf[t] = d THEN NoReq ELSE req[t]]
    /\ mem' = [t \in Threads |-> IF DirOf[t] = d THEN NoMem ELSE mem[t]]

\* The process of d is killed and later started again; files survive.
Crash(d) ==
    /\ Idle(d)
    /\ UNCHANGED <<store, released>>

\* The operator takes datadir d out of service for good.
Retire(d) ==
    /\ online' = online \ {d}
    /\ Idle(d)
    /\ UNCHANGED <<ledger, instanceId, minted, sentinel, held, built, released>>

\* A ledger file is copied or restored into a datadir that has none for r.
\* Copies of unstamped v1 files are outside the protection (see README).
CopyLedger(from, to, r) ==
    /\ ledger[from][r] # NoFile /\ ledger[from][r].owner # 0
    /\ ledger[to][r] = NoFile
    /\ ledger' = [ledger EXCEPT ![to][r] = ledger[from][r]]
    /\ UNCHANGED <<instanceId, minted, sentinel, held, built, online, threadVars, released>>

\* Every other datadir with a file for r has been retired, as the refusal
\* message of ClaimAndSign asks the operator to make certain.
OthersRetired(d, r) ==
    \A e \in Datadirs \ {d} : ledger[e][r] # NoFile => e \notin online

\* The file in d is not older than any other copy.
CopyIsCurrent(d, r) ==
    \A e \in Datadirs : ledger[e][r] # NoFile => ledger[e][r].next <= ledger[d][r].next

DropSentinelIf(ok, d, r) ==
    /\ ledger[d][r] # NoFile /\ Foreign(ledger[d][r], instanceId[d])
    /\ ok
    /\ sentinel' = sentinel \cup {<<d, r>>}
    /\ UNCHANGED <<ledger, instanceId, minted, held, built, online, threadVars, released>>

\* A careful operator creates <r>.forceclaim in d.
DropSentinel(d, r) == DropSentinelIf(OthersRetired(d, r) /\ CopyIsCurrent(d, r), d, r)

-----------------------------------------------------------------------------
ThreadStep(t) ==
    \/ BuildNewTree(t)
    \/ InitLedger(t)
    \/ \E r \in Roots, m \in Msgs : ClaimAndSign(t, r, m)
    \/ SaveLocked(t)
    \/ Discard(t)
    \/ ReturnSignature(t)

FileCopies == \E from, to \in Datadirs, r \in Roots : CopyLedger(from, to, r)

\* Everything but the operator's decision to force a claim.
Core ==
    \/ \E t \in Threads : ThreadStep(t)
    \/ \E d \in Datadirs : Crash(d)
    \/ \E d \in Datadirs : Retire(d)
    \/ FileCopies

Next == Core \/ \E d \in Datadirs, r \in Roots : DropSentinel(d, r)

Spec == Init /\ [][Next]_vars

-----------------------------------------------------------------------------
(* Properties *)

\* Datadir d would pass the ownership check of ClaimAndSign for r, or is in it.
MaySign(d, r) ==
    /\ ledger[d][r] # NoFile
    /\ \/ ledger[d][r].owner \in {0, instanceId[d]}
       \/ <<d, r>> \in sentinel
       \/ \E t \in Threads : DirOf[t] = d /\ phase[t] # "idle" /\ req[t].root = r

\* No leaf of a tree ever signs two different messages, whichever threads and
\* datadirs ask, with crashes and failed saves anywhere: the reason
\* xmss_tree_ledger exists (a second WOTS+ signature leaks the private key).
NoLeafReuse ==
    \A x, y \in released : x.root = y.root /\ x.leaf = y.leaf => x.msg = y.msg

\* ClaimAndSign persists before it returns: every signature a caller ever got
\* is recorded as used in a ledger file that still exists.
DurableBeforeRelease ==
    \A x \in released : \E d \in Datadirs :
        ledger[d][x.root] # NoFile /\ x.leaf < ledger[d][x.root].next

\* At most one datadir in service can sign with a tree, although its ledger
\* file may have been copied to others: the purpose of the ownership stamp.
SoleSigner ==
    \A d, e \in online, r \in Roots : MaySign(d, r) /\ MaySign(e, r) => d = e

\* The index inside the stored SK blob never diverges from nextLeafIndex, so
\* the cross-check in ClaimAndSign ("must never happen") never refuses.
SkNeverDiverges ==
    \A d \in Datadirs, r \in Roots : ledger[d][r] # NoFile => SkMatches(ledger[d][r])

\* Only leaves 0..XMSS_MAX_LEAVES-1 of trees that are not blacklisted are ever
\* used, whatever failed or was retried on the way to the last leaf.
UsableLeavesOnly ==
    \A x \in released : x.leaf \in 0..(MaxLeaves - 1) /\ x.root \notin Blacklisted

\* No file disappears and no leaf counter goes back in this step.
Advances ==
    \A d \in Datadirs, r \in Roots : ledger[d][r] # NoFile =>
        ledger'[d][r] # NoFile /\ ledger'[d][r].next >= ledger[d][r].next

\* A ledger file is never deleted, and its leaf counter never goes back, by
\* Init, SeedFromActive, ClaimAndSign or a crash in the middle of them.
LedgerOnlyAdvances == [][Advances]_vars

\* What the ledger promises its callers, as a specification of its own.
Abstract == INSTANCE OneTimeLeaves

\* The ledger implements it: each step hands out nothing or one unused leaf.
ImplementsOneTimeLeaves == Abstract!Spec

-----------------------------------------------------------------------------
(* The inductive invariant behind the properties *)

HasFile(d, r) == ledger[d][r] # NoFile

\* Ids are fresh: no two datadirs share one, and none is larger than the last.
IdsInv ==
    /\ \A d \in Datadirs : instanceId[d] <= minted
    /\ \A d, e \in Datadirs : instanceId[d] = instanceId[e] /\ instanceId[d] # 0 => d = e
    /\ \A d \in Datadirs, r \in Roots : HasFile(d, r) => ledger[d][r].owner <= minted

\* A thread inside ClaimAndSign holds the mutex of an online process, and what
\* it has in memory is one leaf ahead of the file, or equal to it once saved.
InCallInv(t) ==
    LET d == DirOf[t]
        r == req[t].root
    IN  /\ mutex[d] = t /\ d \in online
        /\ HasFile(d, r) /\ ~IsXMSSTreeBlacklisted(r)
        /\ mem[t].sk = mem[t].next /\ mem[t].next >= 1
        /\ mem[t].owner \in 1..minted
        /\ \A e \in Datadirs : instanceId[e] = mem[t].owner => e = d
        /\ phase[t] = "signed" => mem[t].next = ledger[d][r].next + 1
        /\ phase[t] = "saved" => ledger[d][r] = mem[t]

CallInv == \A t \in Threads : phase[t] # "idle" => InCallInv(t)

\* A snapshot is held in one datadir, and while that datadir has no ledger
\* file for it no other datadir has one either.
HeldInv ==
    /\ \A d \in Datadirs : \A s \in held[d] :
         /\ s.sk = s.next /\ s.root \in built
         /\ HasFile(d, s.root) \/ \A e \in Datadirs : ~HasFile(e, s.root)
         /\ \A e \in Datadirs : \A x \in held[e] : x.root = s.root => e = d
    /\ \A d \in Datadirs, r \in Roots : HasFile(d, r) => r \in built

\* A file stamped by e exists in e too, an unstamped file is the only one of
\* its tree, and a sentinel lies beside a file.
OwnerInv ==
    /\ \A d, e \in Datadirs, r \in Roots :
         HasFile(d, r) /\ ledger[d][r].owner # 0 /\ ledger[d][r].owner = instanceId[e]
            => HasFile(e, r)
    /\ \A d, e \in Datadirs, r \in Roots :
         HasFile(d, r) /\ ledger[d][r].owner = 0 /\ HasFile(e, r) => e = d
    /\ \A d \in Datadirs, r \in Roots : <<d, r>> \in sentinel => HasFile(d, r)

\* The datadir that may sign has the most advanced file of the tree.
SignerIsCurrent ==
    \A d \in online, r \in Roots : MaySign(d, r) =>
        \A e \in Datadirs : HasFile(e, r) => ledger[e][r].next <= ledger[d][r].next

\* A leaf saved but not yet returned is above every leaf returned so far.
PendingLeafIsNew ==
    \A t \in Threads : phase[t] = "saved" =>
        \A x \in released : x.root = req[t].root => x.leaf < mem[t].next - 1

\* The inductive invariant: together these conjuncts are preserved by every
\* step of the ledger code and its environment, and imply the safety properties.
LedgerInv ==
    /\ IdsInv /\ CallInv /\ HeldInv /\ OwnerInv
    /\ SkNeverDiverges
    /\ SoleSigner
    /\ SignerIsCurrent
    /\ DurableBeforeRelease
    /\ PendingLeafIsNew
    /\ UsableLeavesOnly
    /\ NoLeafReuse
=============================================================================
