----------------------------- MODULE XMSSWallet -----------------------------
(***************************************************************************)
(* The wallet's XMSS keys: CXMSSSigner (src/wallet/xmss_signer.cpp), its   *)
(* state blob in wallet.dat and the CWallet code that saves, loads, locks, *)
(* unlocks and spends (src/wallet/wallet.cpp, src/wallet/rpc/xmss.cpp,     *)
(* src/script/sign.cpp).  The tree ledger of TreeLedger.tla appears as     *)
(* what it promises one datadir: a claim returns the next leaf and has     *)
(* advanced the file before it returns.  Wallet calls hold cs_wallet, so   *)
(* only crashes and the miner's claims interleave with a spend.            *)
(***************************************************************************)
EXTENDS Integers, Sequences, FiniteSets

CONSTANTS
    Natives,        \* trees the wallet may generate (GenerateKey)
    MineTrees,      \* trees of the miner, which importxmsskey may bring in
    Blacklisted,    \* roots of xmss_blacklist.h
    MaxLeaves,      \* XMSS_MAX_LEAVES
    MaxTx,          \* bound: spends attempted in a behaviour
    MaxInputs,      \* bound: inputs of a transaction
    MayEncrypt,     \* whether encryptwallet may be called
    LegacyImports,  \* whether a v2 blob may hold a key imported from the miner
    NoKey, NoFile, NoBlob, NoTx

Roots == Natives \cup MineTrees

ASSUME WalletConstantsOK ==
    /\ Natives \cap MineTrees = {} /\ Blacklisted \subseteq Roots
    /\ MaxLeaves \in Nat \ {0} /\ MaxTx \in Nat /\ MaxInputs \in Nat \ {0}
    /\ MayEncrypt \in BOOLEAN /\ LegacyImports \in BOOLEAN

\* XMSSKeyEntry.  leaf_index is left out: it is read only while the tree has no
\* ledger, and is 0 for every key that may sign then.
Entry == [retired: BOOLEAN, imported: BOOLEAN]
KeyMap == [Roots -> Entry \cup {NoKey}]
NewKey == [retired |-> FALSE, imported |-> FALSE]

VARIABLES
    keys,      \* xmss_keys
    blob,      \* the XMSS state record of wallet.dat
    ledger,    \* ledger[r]: nextLeafIndex of r's ledger file
    pointer,   \* pointer[r]: position of r in the miner's pointer file
    crypted,   \* IsCrypted()
    unlocked,  \* vMasterKey is not empty
    loaded,    \* the node runs with the wallet loaded
    tx,        \* the transaction that is being signed
    txno,      \* number of spends begun
    built,     \* native trees generated so far
    given,     \* addresses handed out when the wallet could save its state
    uses,      \* history: uses[r][l], signatures made with leaf l
    spends,    \* history: signatures made by the wallet
    sent,      \* history: complete transactions given to the caller or the network
    partial    \* history: incomplete ones given to the caller since the node started

session == <<crypted, unlocked, loaded>>
vars == <<keys, blob, ledger, pointer, session, tx, txno, built, given, uses, spends, sent,
          partial>>

Kinds == {"auto", "from", "raw"}
Transaction == [kind: Kinds, ins: Seq(Roots), i: Nat, pre: Nat, ok: BOOLEAN,
                pc: {"leaf", "sign", "signed", "ready"}]
Spend == [tx: 1..MaxTx, i: 1..MaxInputs, root: Roots, leaf: Nat, pre: Nat,
          kind: Kinds, native: BOOLEAN]
State == [ver: {2, 3}, enc: BOOLEAN, keys: KeyMap]

ASSUME AbsentValuesOK ==
    /\ NoKey \notin Entry /\ NoFile \notin 0..MaxLeaves
    /\ NoBlob \notin State /\ NoTx \notin Transaction

\* The variables have the shapes declared above; leaf counters stay in range.
TypeOK ==
    /\ keys \in KeyMap
    /\ blob = NoBlob \/ blob \in State
    /\ ledger \in [Roots -> 0..MaxLeaves \cup {NoFile}]
    /\ pointer \in [Roots -> 0..MaxLeaves \cup {NoFile}]
    /\ crypted \in BOOLEAN /\ unlocked \in BOOLEAN /\ loaded \in BOOLEAN
    /\ tx = NoTx \/ tx \in Transaction
    /\ txno \in 0..MaxTx
    /\ built \subseteq Natives /\ given \subseteq Natives
    /\ uses \in [Roots -> [0..(MaxLeaves - 1) -> Nat]]
    /\ spends \subseteq Spend
    /\ sent \subseteq 1..MaxTx /\ partial \subseteq 1..MaxTx

-----------------------------------------------------------------------------
(* A datadir may hold mining trees at any position: with a ledger file, with *)
(* only the pointer file of an older miner, or rotated away before ledgers   *)
(* existed.  The wallet is new, or has a v2 blob of unspent keys.            *)

Origin == [kind: {"ledger", "pointer", "rotated"}, next: 0..MaxLeaves]

Init ==
    /\ \E origin \in [MineTrees -> Origin] :
         LET At(kind, r) == IF r \in MineTrees /\ origin[r].kind = kind
                            THEN origin[r].next ELSE NoFile
         IN  /\ ledger = [r \in Roots |-> At("ledger", r)]
             /\ pointer = [r \in Roots |-> At("pointer", r)]
             /\ uses = [r \in Roots |-> [l \in 0..(MaxLeaves - 1) |->
                          IF r \in MineTrees /\ l < origin[r].next THEN 1 ELSE 0]]
    /\ \/ blob = NoBlob /\ built = {}
       \/ \E S \in SUBSET IF LegacyImports THEN Roots ELSE Natives :
            /\ Cardinality(S) = 1
            /\ blob = [ver |-> 2, enc |-> FALSE,
                       keys |-> [r \in Roots |-> IF r \in S THEN NewKey ELSE NoKey]]
            /\ built = S \cap Natives
    /\ keys = [r \in Roots |-> NoKey]
    /\ crypted = FALSE /\ unlocked = FALSE /\ loaded = FALSE
    /\ tx = NoTx /\ txno = 0
    /\ given = built
    /\ spends = {} /\ sent = {} /\ partial = {}

-----------------------------------------------------------------------------
(* Saving, seeding and generating *)

Held(k) == {r \in Roots : k[r] # NoKey}

CountFreshKeys(k) == Cardinality({r \in Held(k) : ~k[r].retired})

\* Mutant: the v1 format, without the retired flag.
SaveStateV1(k) ==
    [ver |-> 3, enc |-> crypted,
     keys |-> [r \in Roots |-> IF k[r] = NoKey THEN NoKey ELSE [k[r] EXCEPT !.retired = FALSE]]]

SaveState(k) == [ver |-> 3, enc |-> crypted, keys |-> k]

\* Mutant: a locked wallet writes its state as well.
CanPersistLocked == TRUE

CanPersist == ~crypted \/ unlocked

\* The blob after PersistXMSSState: a locked wallet skips the write.
PersistXMSSState(k) == IF CanPersist THEN SaveState(k) ELSE blob

\* XMSSTreeLedgerInit: an existing file stays, a new one may fail to be written.
Seeded(l, r, n) == IF l[r] = NoFile THEN {l, [l EXCEPT ![r] = n]} ELSE {l}

\* GenerateKey: the new key is in memory even when its ledger was not seeded.
GenerateKey(k, l) ==
    UNION {{[root |-> r, keys |-> [k EXCEPT ![r] = NewKey], ledger |-> l2] :
              l2 \in Seeded(l, r, 0)} : r \in Natives \ built}

\* EnsureXMSSKeyAvailable from keys k, ledger l and blob b: a key is generated
\* and saved if none is fresh, unless generation fails.
EnsureXMSSKeyAvailable(k, l, b) ==
    \/ /\ keys' = k /\ ledger' = l /\ blob' = b
       /\ UNCHANGED built
    \/ /\ CountFreshKeys(k) = 0
       /\ \E g \in GenerateKey(k, l) :
            /\ keys' = g.keys /\ ledger' = g.ledger
            /\ built' = built \cup {g.root}
            /\ blob' = PersistXMSSState(g.keys)

\* LoadState: v2 blobs do not record where a key came from; unspent native keys
\* without a ledger get one at leaf 0 (or fail to).
LoadedKeys(b) ==
    [r \in Roots |-> IF b.keys[r] = NoKey THEN NoKey
                     ELSE [b.keys[r] EXCEPT !.imported = @ /\ b.ver = 3]]

Migrated(k, l) ==
    LET fresh == {r \in Held(k) : ~k[r].imported /\ ~k[r].retired /\ l[r] = NoFile}
    IN  {[r \in Roots |-> IF r \in S THEN 0 ELSE l[r]] : S \in SUBSET fresh}

\* LoadXMSSStateIfPossible: keys and ledgers afterwards; an encrypted blob of a
\* locked wallet is left alone.
LoadXMSSStateIfPossible(canDecrypt) ==
    IF blob = NoBlob \/ (blob # NoBlob /\ blob.enc /\ ~canDecrypt)
    THEN {[keys |-> keys, ledger |-> ledger]}
    ELSE {[keys |-> LoadedKeys(blob), ledger |-> l] : l \in Migrated(LoadedKeys(blob), ledger)}

-----------------------------------------------------------------------------
(* The session: load, crash, encrypt, lock, unlock *)

history == <<txno, given, uses, spends, sent, partial>>

\* CWallet::Create.
Create ==
    /\ ~loaded
    /\ loaded' = TRUE
    /\ \E s \in LoadXMSSStateIfPossible(FALSE) :
         EnsureXMSSKeyAvailable(s.keys, s.ledger, blob)
    /\ UNCHANGED <<pointer, crypted, unlocked, tx, history>>

\* The node stops or dies at any point; only files survive.
Crash ==
    /\ loaded
    /\ loaded' = FALSE /\ unlocked' = FALSE
    /\ keys' = [r \in Roots |-> NoKey]
    /\ tx' = NoTx /\ partial' = {}
    /\ UNCHANGED <<blob, ledger, pointer, crypted, built, txno, given, uses, spends, sent>>

Idle == loaded /\ tx = NoTx

\* CWallet::Lock.
Lock ==
    /\ Idle /\ crypted
    /\ unlocked' = FALSE
    /\ UNCHANGED <<keys, blob, ledger, pointer, crypted, loaded, tx, built, history>>

\* The XMSS part of CWallet::Unlock, once vMasterKey is set: keys in memory are
\* saved, otherwise the blob is loaded.
UnlockXMSS ==
    IF Held(keys) # {}
    THEN /\ blob' = [ver |-> 3, enc |-> TRUE, keys |-> keys]
         /\ UNCHANGED <<keys, ledger>>
    ELSE /\ \E s \in LoadXMSSStateIfPossible(TRUE) : keys' = s.keys /\ ledger' = s.ledger
         /\ UNCHANGED blob

Unlock ==
    /\ Idle /\ crypted
    /\ unlocked' = TRUE
    /\ UnlockXMSS
    /\ UNCHANGED <<pointer, crypted, loaded, tx, built, history>>

\* EncryptWallet: the master key is committed, then Lock, Unlock, Lock.
EncryptWallet ==
    /\ MayEncrypt /\ Idle /\ ~crypted
    /\ crypted' = TRUE /\ unlocked' = FALSE
    /\ UnlockXMSS
    /\ UNCHANGED <<pointer, loaded, tx, built, history>>

\* The node dies after the master key is committed and before the state is saved.
EncryptInterrupted ==
    /\ MayEncrypt /\ Idle /\ ~crypted
    /\ crypted' = TRUE /\ unlocked' = FALSE /\ loaded' = FALSE
    /\ keys' = [r \in Roots |-> NoKey] /\ partial' = {}
    /\ UNCHANGED <<blob, ledger, pointer, tx, built, txno, given, uses, spends, sent>>

-----------------------------------------------------------------------------
(* Keys: getnewxmssaddress, importxmsskey *)

\* Mutant: the key is saved with the first spend only.
GetNewXMSSAddressUnsaved ==
    /\ Idle
    /\ \E g \in GenerateKey(keys, ledger) :
         /\ keys' = g.keys /\ ledger' = g.ledger
         /\ built' = built \cup {g.root}
         /\ given' = IF CanPersist THEN given \cup {g.root} ELSE given
    /\ UNCHANGED <<blob, pointer, session, tx, txno, uses, spends, sent, partial>>

\* getnewxmssaddress.  A crash between the ledger and the blob leaves only a
\* ledger file of a tree nobody holds, so the two writes are one step.
GetNewXMSSAddress ==
    /\ Idle
    /\ \E g \in GenerateKey(keys, ledger) :
         /\ keys' = g.keys /\ ledger' = g.ledger
         /\ built' = built \cup {g.root}
         /\ blob' = PersistXMSSState(g.keys)
         /\ given' = IF CanPersist THEN given \cup {g.root} ELSE given
    /\ UNCHANGED <<pointer, session, tx, txno, uses, spends, sent, partial>>

\* importxmsskey of a mining tree or of an exported wallet key.
ImportXMSSKey(r) ==
    /\ Idle
    /\ keys' = [keys EXCEPT ![r] = [retired |-> FALSE, imported |-> TRUE]]
    /\ blob' = PersistXMSSState(keys')
    /\ UNCHANGED <<ledger, pointer, session, tx, built, history>>

-----------------------------------------------------------------------------
(* Spending: the send RPCs and signrawtransactionwithwallet *)

\* Mutant: only the flag is looked at.
IsXMSSKeyRetiredByFlag(r) == keys[r].retired

\* The wallet's view of whether r's address has been used up.
IsXMSSKeyRetired(r) ==
    \/ r \in Blacklisted
    \/ IF ledger[r] = NoFile THEN keys[r].retired
       ELSE ledger[r] >= IF keys[r].imported THEN MaxLeaves ELSE 1

Inputs(S) == UNION {[1..n -> S] : n \in 1..MaxInputs}
Distinct(ins) == \A i, j \in DOMAIN ins : ins[i] = ins[j] => i = j

\* What coin selection may hand to SignTransaction: sendtoxmssaddress takes one
\* coin of each of some addresses not retired, sendfromxmssaddress one coin of
\* the given address, and a raw transaction spends whatever its author put in.
Selectable(kind) ==
    CASE kind = "auto" -> {ins \in Inputs({r \in Held(keys) : ~IsXMSSKeyRetired(r)}) : Distinct(ins)}
      [] kind = "from" -> [1..1 -> Held(keys)]
      [] kind = "raw"  -> Inputs(Held(keys))

Begin(kind, ins) ==
    [kind |-> kind, ins |-> ins, i |-> 1, pre |-> 0, ok |-> TRUE, pc |-> "leaf"]

\* A send RPC: unlocked, a change key generated and saved, then coin selection,
\* which may find the funds insufficient.
Send(kind) ==
    /\ Idle /\ CanPersist /\ txno < MaxTx
    /\ \E g \in GenerateKey(keys, ledger) :
         /\ keys' = g.keys /\ ledger' = g.ledger
         /\ built' = built \cup {g.root}
         /\ given' = given \cup {g.root}
         /\ blob' = PersistXMSSState(g.keys)
    /\ \/ \E ins \in Selectable(kind) : tx' = Begin(kind, ins)
       \/ UNCHANGED tx
    /\ txno' = txno + 1
    /\ UNCHANGED <<pointer, session, uses, spends, sent, partial>>

\* signrawtransactionwithwallet: CWallet::SignTransaction refills an empty pool.
SignRaw ==
    /\ Idle /\ CanPersist /\ txno < MaxTx
    /\ EnsureXMSSKeyAvailable(keys, ledger, blob)
    /\ \E ins \in Selectable("raw") : tx' = Begin("raw", ins)
    /\ txno' = txno + 1
    /\ UNCHANGED <<pointer, session, given, uses, spends, sent, partial>>

Input == tx.ins[tx.i]

\* CreateXMSSSig: the leaf index that goes into the signed hash is read first.
GetXMSSLeafIndex ==
    /\ tx # NoTx /\ tx.pc = "leaf"
    /\ tx' = [tx EXCEPT !.pre = IF ledger[Input] = NoFile THEN 0 ELSE ledger[Input],
                        !.pc = "sign"]
    /\ UNCHANGED <<keys, blob, ledger, pointer, session, built, history>>

\* Mutant: an imported key without a ledger is assumed to be at leaf 0.
LedgersForSigningAny(r) == Seeded(ledger, r, 0)

\* SignXMSS before the claim: a native key without a ledger is seeded, an
\* imported one refused.
LedgersForSigning(r) == IF keys[r].imported THEN {ledger} ELSE Seeded(ledger, r, 0)

\* XMSSTreeLedgerClaimAndSign gets as far as signing.
Claimable(l, r) == l[r] # NoFile /\ r \notin Blacklisted /\ l[r] < MaxLeaves

Use(r, leaf) ==
    uses' = [uses EXCEPT ![r] = [l \in DOMAIN @ |-> IF l = leaf THEN @[l] + 1 ELSE @[l]]]

\* Mutant: the hash signed is not checked against the leaf that signed it.
VerifyScriptSkipped(leaf, pre) == TRUE

\* OP_XMSS_CHECKSIG rebuilds the hash from the leaf index in the signature.
VerifyScript(leaf, pre) == leaf = pre

\* The rest of ::SignTransaction for this input, and on to the next one.
Advance(good) ==
    tx' = [tx EXCEPT !.ok = @ /\ good,
                     !.i = IF @ = Len(tx.ins) THEN @ ELSE @ + 1,
                     !.pc = IF tx.i = Len(tx.ins) THEN "signed" ELSE "leaf"]

\* Mutant: the key is retired although the ledger refused the claim.
SignXMSSRefusedRetires ==
    /\ tx # NoTx /\ tx.pc = "sign"
    /\ keys' = [keys EXCEPT ![Input].retired = TRUE]
    /\ Advance(FALSE)
    /\ UNCHANGED <<blob, ledger, pointer, session, built, history>>

\* SignXMSS refuses: retired, no ledger, exhausted, blacklisted, or not saved.
SignXMSSRefused ==
    /\ tx # NoTx /\ tx.pc = "sign"
    /\ IF ~keys[Input].imported /\ keys[Input].retired
       THEN UNCHANGED ledger
       ELSE \E l \in LedgersForSigning(Input) : ledger' = l
    /\ Advance(FALSE)
    /\ UNCHANGED <<keys, blob, pointer, session, built, history>>

\* SignXMSS signs; a native key is retired in memory.
SignXMSS ==
    LET r == Input
        native == ~keys[r].imported
    IN  /\ tx # NoTx /\ tx.pc = "sign"
        /\ ~(native /\ keys[r].retired)
        /\ \E l \in LedgersForSigning(r) :
             /\ Claimable(l, r)
             /\ ledger' = [l EXCEPT ![r] = @ + 1]
             /\ Use(r, l[r])
             /\ keys' = [keys EXCEPT ![r].retired = @ \/ native]
             /\ spends' = spends \cup {[tx |-> txno, i |-> tx.i, root |-> r, leaf |-> l[r],
                                        pre |-> tx.pre, kind |-> tx.kind, native |-> native]}
             /\ Advance(VerifyScript(l[r], tx.pre))
    /\ UNCHANGED <<blob, pointer, session, built, txno, given, sent, partial>>

\* CWallet::SignTransaction returns: with every input signed the state is saved
\* and the pool refilled, otherwise nothing is saved.  The send RPCs then fail;
\* signrawtransactionwithwallet returns what was signed, marked as incomplete.
SignTransactionReturns ==
    /\ tx # NoTx /\ tx.pc = "signed"
    /\ IF tx.ok
       THEN /\ EnsureXMSSKeyAvailable(keys, ledger, PersistXMSSState(keys))
            /\ tx' = [tx EXCEPT !.pc = "ready"]
            /\ UNCHANGED partial
       ELSE /\ tx' = NoTx
            /\ partial' = IF tx.kind = "raw" THEN partial \cup {txno} ELSE partial
            /\ UNCHANGED <<keys, ledger, blob, built>>
    /\ UNCHANGED <<pointer, session, txno, given, uses, spends, sent>>

\* A raw transaction is returned to its caller.  CommitTransaction saves the
\* state once more and broadcasts; it returns before that if the wallet does not
\* broadcast, and throws if the transaction cannot be stored.
CommitTransaction ==
    /\ tx # NoTx /\ tx.pc = "ready"
    /\ \/ /\ blob' \in IF tx.kind = "raw" THEN {blob} ELSE {blob, PersistXMSSState(keys)}
          /\ sent' = sent \cup {txno}
       \/ tx.kind # "raw" /\ UNCHANGED <<blob, sent>>
    /\ tx' = NoTx
    /\ UNCHANGED <<keys, ledger, pointer, session, built, txno, given, uses, spends, partial>>

-----------------------------------------------------------------------------
\* GenerateBlock of a mining thread claims a leaf of its tree, seeding the
\* ledger from the pointer file if there is none.
Mine(r) ==
    /\ loaded
    /\ \E l \in IF pointer[r] = NoFile THEN {ledger} ELSE Seeded(ledger, r, pointer[r]) :
         /\ Claimable(l, r)
         /\ ledger' = [l EXCEPT ![r] = @ + 1]
         /\ Use(r, l[r])
    /\ UNCHANGED <<keys, blob, pointer, session, tx, built, txno, given, spends, sent, partial>>

Next ==
    \/ Create \/ Crash \/ Lock \/ Unlock \/ EncryptWallet \/ EncryptInterrupted
    \/ GetNewXMSSAddress
    \/ \E r \in MineTrees \cup built : ImportXMSSKey(r)
    \/ \E kind \in {"auto", "from"} : Send(kind)
    \/ SignRaw
    \/ GetXMSSLeafIndex \/ SignXMSSRefused \/ SignXMSS
    \/ SignTransactionReturns \/ CommitTransaction
    \/ \E r \in MineTrees : Mine(r)

Spec == Init /\ [][Next]_vars

-----------------------------------------------------------------------------
(* Properties *)

\* No leaf signs twice, whoever signs: the wallet with generated, migrated or
\* imported keys, before and after crashes, or the miner.  SignXMSS may seed a
\* ledger at leaf 0 only for a tree that has never signed.
NoLeafReuse == \A r \in Roots : \A l \in DOMAIN uses[r] : uses[r][l] <= 1

\* A transaction counts as signed only if each of its signatures was made by
\* the leaf its hash names, although the miner may claim a leaf of an imported
\* tree between GetXMSSLeafIndex and SignXMSS.
SentSignaturesVerify == \A s \in spends : s.tx \in sent => s.leaf = s.pre

\* A one-time key whose signature has left the wallet is retired.  If the
\* transaction is complete it is retired on disk, and stays so through restarts,
\* unlocks and later saves.  If signrawtransactionwithwallet returned it with
\* inputs missing it is retired in memory, until the node stops.
ReleasedKeysRetired ==
    \A s \in spends : s.native =>
        /\ s.tx \in sent =>
             /\ blob # NoBlob
             /\ blob.keys[s.root] # NoKey =>
                  blob.keys[s.root].retired \/ blob.keys[s.root].imported
        /\ s.tx \in partial =>
             keys[s.root] # NoKey /\ (keys[s.root].retired \/ keys[s.root].imported)

\* sendtoxmssaddress never signs with a one-time address that has signed before,
\* even if a crash lost the retired flag: IsXMSSKeyRetired asks the ledger.
AutoSpendSignsOnce == \A s \in spends : s.kind = "auto" /\ s.native => s.leaf = 0

\* A key is retired, in memory or on disk, only if one of its leaves has signed:
\* a refused or failed claim never locks funds away.
RetiredOnlyIfUsed ==
    \A r \in Roots :
        \/ keys[r] # NoKey /\ keys[r].retired
        \/ blob # NoBlob /\ blob.keys[r] # NoKey /\ blob.keys[r].retired
        => \E l \in DOMAIN uses[r] : uses[r][l] > 0

\* "Persist immediately so the private key survives a node crash or restart":
\* the key of every address handed out by a wallet that could save is on disk.
\* Does not hold of an encrypted wallet (see KeysLostOnlyByUnlock).
AddressKeysSurvive == given # {} => blob # NoBlob /\ given \subseteq Held(blob.keys)

Stored == IF blob = NoBlob THEN {} ELSE Held(blob.keys)

\* The one way in which the stored state loses a key: Unlock saves what Create
\* put in memory while the wallet was locked.  Saving, loading, locking,
\* encrypting, spending and stopping the node, in any order, lose none.
KeysLostOnlyByUnlock ==
    [][Stored \subseteq Stored' \/ (crypted /\ ~unlocked /\ unlocked')]_vars

\* The wallet refuses to sign again with an address it has signed with: a key
\* the wallet generated makes one signature (until it is imported by hand).
\* Does not hold after a restart between SignXMSS and PersistXMSSState.
NativeSignsOnce ==
    \A x, y \in spends : x.native /\ y.native /\ x.root = y.root => x = y

\* "The leaf index and retired flag are already on disk" before a signature leaves
\* the wallet.  Does not hold of an incomplete raw transaction: SignTransaction
\* saves only when every input is signed.
ReleasedKeysOnDisk ==
    \A s \in spends : s.native /\ s.tx \in sent \cup partial =>
        /\ blob # NoBlob
        /\ blob.keys[s.root] # NoKey =>
             blob.keys[s.root].retired \/ blob.keys[s.root].imported

\* v1 and v2 blobs get a fail-closed default: a key whose origin the blob does
\* not record never signs a leaf the miner has already used.  Does not hold with LegacyImports.
LegacyKeysFailClosed == \A r \in MineTrees : \A l \in DOMAIN uses[r] : uses[r][l] <= 1
=============================================================================
