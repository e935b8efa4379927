-------------------------- MODULE XMSSWalletProofs --------------------------
(***************************************************************************)
(* Theorems about XMSSWallet for every number of trees, leaves, inputs and *)
(* transactions: leaves are used once, what is sent verifies, spent keys   *)
(* are retired on disk, and which steps can lose a stored key.             *)
(***************************************************************************)
EXTENDS XMSSWallet, TLAPS

-----------------------------------------------------------------------------
(* The inductive invariant *)

Leaves == 0..(MaxLeaves - 1)

\* The trees whose keys carry their origin: all of them, unless a v2 blob may
\* hold a key of the miner.
Sound == IF LegacyImports THEN Natives ELSE Roots

Used(r) == \E l \in Leaves : uses[r][l] > 0
Marked(e) == e = NoKey \/ (e # NoKey /\ (e.retired \/ e.imported))
SentNative(r) == \E s \in spends : s.tx \in sent /\ s.native /\ s.root = r

\* What holds of every key, in memory or in the blob: its tree was generated
\* or is the miner's, it is marked as imported in the second case, it is
\* retired only if it has signed and for sure if its transaction was sent.
KeysOK(k) ==
    \A r \in Roots :
        k[r] # NoKey =>
            /\ r \in built \cup MineTrees
            /\ r \in Sound /\ ~k[r].imported => r \in Natives
            /\ k[r].retired => Used(r)
            /\ SentNative(r) => k[r].retired \/ k[r].imported

\* The blob, which says where a key comes from if it was written by v3 code.
DiskOK(b) ==
    IF b = NoBlob THEN \A s \in spends : ~(s.tx \in sent /\ s.native)
    ELSE /\ KeysOK(b.keys)
         /\ b.ver = 2 => \A s \in spends : ~(s.tx \in sent /\ s.native)
         /\ b.ver = 2 => \A r \in MineTrees \cap Sound : b.keys[r] = NoKey

\* The leaves used are those below the ledger's position; a tree without a
\* ledger is unused, at its pointer's position, or never gets a ledger.
UsedBelow(r, n) == \A l \in Leaves : uses[r][l] = IF l < n THEN 1 ELSE 0
LedgerOK(l) ==
    \A r \in Sound :
        /\ \A x \in Leaves : uses[r][x] <= 1
        /\ l[r] # NoFile => UsedBelow(r, l[r])
        /\ l[r] = NoFile /\ r \in Natives => UsedBelow(r, 0)
        /\ l[r] = NoFile /\ pointer[r] # NoFile => UsedBelow(r, pointer[r])

\* A transaction that is being signed holds the wallet: its keys are in memory,
\* its number is new, and its signatures so far are as good as tx.ok says.
TxOK ==
    tx # NoTx =>
        /\ loaded /\ CanPersist /\ txno \in 1..MaxTx /\ txno \notin sent
        /\ Len(tx.ins) \in 1..MaxInputs /\ tx.i \in 1..Len(tx.ins)
        /\ \A j \in 1..Len(tx.ins) : keys[tx.ins[j]] # NoKey
        /\ tx.pc = "ready" => tx.ok
        /\ \A s \in spends : s.tx = txno =>
             /\ tx.ok => s.leaf = s.pre
             /\ s.native => Marked(keys[s.root])
             /\ s.native /\ tx.pc = "ready" =>
                  blob # NoBlob /\ blob.ver = 3 /\ Marked(blob.keys[s.root])

\* The inputs that sendtoxmssaddress has still to sign are unspent addresses.
AutoOK ==
    tx # NoTx /\ tx.kind = "auto" /\ ~LegacyImports =>
        /\ Distinct(tx.ins)
        /\ tx.pc \in {"leaf", "sign"} =>
             \A j \in tx.i..Len(tx.ins) :
                 keys[tx.ins[j]].imported \/ ledger[tx.ins[j]] \in {0, NoFile}

SpendsOK ==
    /\ sent \subseteq 1..txno
    /\ \A s \in spends :
         /\ s.tx <= txno /\ s.root \in built \cup MineTrees
         /\ s.tx \in sent => s.leaf = s.pre
         /\ s.kind = "auto" /\ s.native /\ ~LegacyImports => s.leaf = 0

\* A wallet that can write its state has all stored keys in memory.
SessionOK ==
    /\ ~crypted => blob = NoBlob \/ (blob # NoBlob /\ ~blob.enc)
    /\ ~loaded => ~unlocked /\ tx = NoTx /\ \A r \in Roots : keys[r] = NoKey
    /\ loaded /\ CanPersist => Stored \subseteq Held(keys)
    /\ ~MayEncrypt => ~crypted /\ given \subseteq Stored

WalletInv ==
    /\ KeysOK(keys) /\ DiskOK(blob) /\ LedgerOK(ledger)
    /\ TxOK /\ AutoOK /\ SpendsOK /\ SessionOK
-----------------------------------------------------------------------------
(* What the operators do to keys, ledgers and the blob *)

Ledgers == [Roots -> 0..MaxLeaves \cup {NoFile}]

LEMMA KeyFacts ==
    /\ NewKey \in Entry /\ NewKey # NoKey /\ ~NewKey.retired /\ ~NewKey.imported
    /\ \A e \in Entry : e # NoKey /\ e.retired \in BOOLEAN /\ e.imported \in BOOLEAN
<1>1. FALSE \in BOOLEAN
  BY Zenon
<1>2. NewKey \in Entry
  BY <1>1, Zenon DEF NewKey, Entry
<1>3. ~NewKey.retired /\ ~NewKey.imported
  BY Zenon DEF NewKey
<1>4. \A e \in Entry : e.retired \in BOOLEAN /\ e.imported \in BOOLEAN
  BY Zenon DEF Entry
<1>5. \A e \in Entry : e # NoKey
  BY AbsentValuesOK, Zenon
<1> QED
  BY <1>2, <1>3, <1>4, <1>5, Zenon

\* GenerateKey adds a key for a tree that was not there.
Adds(k, l, r) ==
    /\ r \in Natives \ built /\ built' = built \cup {r}
    /\ keys' \in KeyMap /\ ledger' \in Ledgers
    /\ keys'[r] = NewKey /\ \A x \in Roots \ {r} : keys'[x] = k[x] /\ ledger'[x] = l[x]
    /\ ledger'[r] = l[r] \/ (l[r] = NoFile /\ ledger'[r] = 0)

LEMMA SeedMoves ==
    ASSUME NEW l \in Ledgers, NEW r \in Roots, NEW n \in 0..MaxLeaves, NEW m \in Seeded(l, r, n)
    PROVE  /\ m \in Ledgers /\ \A x \in Roots \ {r} : m[x] = l[x]
           /\ m[r] = l[r] \/ (l[r] = NoFile /\ m[r] = n)
BY Zenon DEF Seeded, Ledgers

LEMMA GenerateMoves ==
    ASSUME NEW k \in KeyMap, NEW l \in Ledgers, NEW g \in GenerateKey(k, l),
           keys' = g.keys, ledger' = g.ledger, built' = built \cup {g.root}
    PROVE  Adds(k, l, g.root)
<1> DEFINE Made(r, m) == [root |-> r, keys |-> [k EXCEPT ![r] = NewKey], ledger |-> m]
<1>0. GenerateKey(k, l) = UNION {{Made(r, m) : m \in Seeded(l, r, 0)} : r \in Natives \ built}
  BY Zenon DEF GenerateKey
<1> HIDE DEF Made
<1>1. PICK r \in Natives \ built : \E m \in Seeded(l, r, 0) : g = Made(r, m)
  <2>1. PICK A \in {{Made(r, m) : m \in Seeded(l, r, 0)} : r \in Natives \ built} : g \in A
    BY <1>0, Zenon
  <2>2. PICK r \in Natives \ built : A = {Made(r, m) : m \in Seeded(l, r, 0)}
    BY <2>1, Zenon
  <2> QED
    BY <2>1, <2>2, Zenon
<1>6. PICK m \in Seeded(l, r, 0) : g = Made(r, m)
  BY <1>1, Zenon
<1>2. r \in Roots /\ 0 \in 0..MaxLeaves
  BY WalletConstantsOK DEF Roots
<1>3. m \in Ledgers /\ (\A x \in Roots \ {r} : m[x] = l[x]) /\ (m[r] = l[r] \/ (l[r] = NoFile /\ m[r] = 0))
  BY <1>2, SeedMoves
<1>4. g.root = r /\ g.keys = [k EXCEPT ![r] = NewKey] /\ g.ledger = m
  BY <1>6, Zenon DEF Made
<1>5. /\ g.keys \in KeyMap /\ g.keys[r] = NewKey /\ \A x \in Roots \ {r} : g.keys[x] = k[x]
  BY <1>2, <1>4, KeyFacts, Zenon DEF KeyMap
<1> QED
  BY <1>3, <1>4, <1>5, Zenon DEF Adds

LEMMA EnsureMoves ==
    ASSUME NEW k \in KeyMap, NEW l \in Ledgers, NEW b, EnsureXMSSKeyAvailable(k, l, b)
    PROVE  \/ keys' = k /\ ledger' = l /\ blob' = b /\ built' = built
           \/ \E r : Adds(k, l, r) /\ blob' = PersistXMSSState(keys')
<1>1. CASE keys' = k /\ ledger' = l /\ blob' = b /\ UNCHANGED built
  BY <1>1, Zenon
<1>2. CASE \E g \in GenerateKey(k, l) :
            /\ keys' = g.keys /\ ledger' = g.ledger
            /\ built' = built \cup {g.root}
            /\ blob' = PersistXMSSState(g.keys)
  <2>1. PICK g \in GenerateKey(k, l) :
            /\ keys' = g.keys /\ ledger' = g.ledger
            /\ built' = built \cup {g.root}
            /\ blob' = PersistXMSSState(g.keys)
    BY <1>2, Zenon
  <2>2. Adds(k, l, g.root)
    BY <2>1, GenerateMoves, Zenon
  <2> QED
    BY <2>1, <2>2, Zenon
<1> QED
  BY <1>1, <1>2, Zenon DEF EnsureXMSSKeyAvailable

\* What PersistXMSSState may leave in the database.
LEMMA SaveMoves ==
    ASSUME TypeOK, NEW k \in KeyMap
    PROVE  /\ SaveState(k) \in State /\ SaveState(k) # NoBlob
           /\ SaveState(k).ver = 3 /\ SaveState(k).keys = k /\ SaveState(k).enc = crypted
<1>1. SaveState(k).ver = 3 /\ SaveState(k).keys = k /\ SaveState(k).enc = crypted
  BY Zenon DEF SaveState
<1>2. 3 \in {2, 3} /\ crypted \in BOOLEAN
  BY Zenon DEF TypeOK
<1>3. SaveState(k) \in State
  BY <1>2, Zenon DEF SaveState, State
<1> QED
  BY <1>1, <1>3, AbsentValuesOK, Zenon

\* LoadXMSSStateIfPossible leaves memory alone or replaces it by the blob.
Loads(k, l) ==
    /\ blob # NoBlob /\ k \in KeyMap /\ l \in Ledgers
    /\ \A r \in Roots : k[r] = NoKey <=> blob.keys[r] = NoKey
    /\ \A r \in Roots : k[r] # NoKey =>
         /\ k[r].retired = blob.keys[r].retired
         /\ k[r].imported = (blob.keys[r].imported /\ blob.ver = 3)
    /\ \A r \in Roots : \/ l[r] = ledger[r]
                        \/ ledger[r] = NoFile /\ l[r] = 0 /\ k[r] # NoKey /\ ~k[r].imported

LEMMA LoadMoves ==
    ASSUME TypeOK, NEW c \in BOOLEAN, NEW s \in LoadXMSSStateIfPossible(c)
    PROVE  \/ /\ s.keys = keys /\ s.ledger = ledger
              /\ blob = NoBlob \/ (blob # NoBlob /\ blob.enc /\ ~c)
           \/ Loads(s.keys, s.ledger)
<1>1. CASE blob = NoBlob \/ (blob # NoBlob /\ blob.enc /\ ~c)
  <2>1. s = [keys |-> keys, ledger |-> ledger]
    BY <1>1, Zenon DEF LoadXMSSStateIfPossible
  <2> QED
    BY <1>1, <2>1, Zenon
<1>2. CASE ~(blob = NoBlob \/ (blob # NoBlob /\ blob.enc /\ ~c))
  <2> DEFINE k == LoadedKeys(blob)
             bk == blob.keys
             v == blob.ver
  <2>1. PICK l \in Migrated(k, ledger) : s = [keys |-> k, ledger |-> l]
    BY <1>2, Zenon DEF LoadXMSSStateIfPossible
  <2>2. blob \in State /\ bk \in KeyMap /\ blob # NoBlob
    BY <1>2, Zenon DEF TypeOK, State
  <2>3. k = [r \in Roots |-> IF bk[r] = NoKey THEN NoKey
                             ELSE [bk[r] EXCEPT !.imported = @ /\ v = 3]]
    BY Zenon DEF LoadedKeys
  <2> HIDE DEF k, bk, v
  <2>4. ASSUME NEW r \in Roots
        PROVE  /\ k[r] \in Entry \cup {NoKey} /\ (k[r] = NoKey <=> bk[r] = NoKey)
               /\ k[r] # NoKey => /\ k[r].retired = bk[r].retired
                                  /\ k[r].imported = (bk[r].imported /\ v = 3)
    <3>1. CASE bk[r] = NoKey
      BY <2>3, <3>1, Zenon
    <3>2. CASE bk[r] # NoKey
      <4>1. bk[r] \in Entry
        BY <2>2, <3>2, Zenon DEF KeyMap
      <4> DEFINE e == bk[r]
      <4>2. k[r] = [e EXCEPT !.imported = @ /\ v = 3]
        BY <2>3, <3>2, Zenon
      <4> HIDE DEF e
      <4>3. e \in Entry
        BY <4>1, Zenon DEF e
      <4> DEFINE ret == e.retired
                 imp == e.imported /\ v = 3
      <4>4. imp \in BOOLEAN /\ ret \in BOOLEAN
        BY <4>3, KeyFacts, Zenon
      <4>5. [e EXCEPT !.imported = @ /\ v = 3] = [retired |-> ret, imported |-> imp]
        BY <4>3 DEF Entry
      <4> HIDE DEF ret, imp
      <4>6. k[r] = [retired |-> ret, imported |-> imp]
        BY <4>2, <4>5, Zenon
      <4>7. k[r].retired = ret /\ k[r].imported = imp
        BY <4>6
      <4>8. k[r] \in Entry
        BY <4>4, <4>6 DEF Entry
      <4>9. k[r].retired = e.retired /\ k[r].imported = (e.imported /\ v = 3)
        BY <4>7, Zenon DEF ret, imp
      <4> QED
        BY <3>2, <4>8, <4>9, KeyFacts, Zenon DEF e
    <3> QED
      BY <3>1, <3>2, Zenon
  <2>5. k \in KeyMap
    BY <2>3, <2>4, Zenon DEF KeyMap
  <2>6. l \in Ledgers /\ \A r \in Roots :
            l[r] = ledger[r] \/ (ledger[r] = NoFile /\ l[r] = 0 /\ k[r] # NoKey /\ ~k[r].imported)
    <3> DEFINE fresh == {r \in Held(k) : ~k[r].imported /\ ~k[r].retired /\ ledger[r] = NoFile}
    <3>1. PICK S \in SUBSET fresh : l = [r \in Roots |-> IF r \in S THEN 0 ELSE ledger[r]]
      BY <2>1, Zenon DEF Migrated
    <3>2. \A r \in S : k[r] # NoKey /\ ~k[r].imported /\ ledger[r] = NoFile
      BY <3>1, Zenon DEF Held
    <3>3. 0 \in 0..MaxLeaves /\ ledger \in [Roots -> 0..MaxLeaves \cup {NoFile}]
      BY WalletConstantsOK DEF TypeOK
    <3> HIDE DEF fresh
    <3> QED
      BY <3>1, <3>2, <3>3, Zenon DEF Ledgers
  <2>7. s.keys = k /\ s.ledger = l
    BY <2>1, Zenon
  <2>8. Loads(k, l)
    BY <2>2, <2>4, <2>5, <2>6, Zenon DEF Loads, bk, v
  <2> QED
    BY <2>7, <2>8, Zenon
<1> QED
  BY <1>1, <1>2, Zenon
-----------------------------------------------------------------------------
(* Keys, blob and ledgers while nothing is signed or sent *)

quiet == <<uses, spends, sent, pointer>>

LEMMA SameHistory ==
    ASSUME UNCHANGED quiet
    PROVE  /\ \A r : Used(r)' <=> Used(r)
           /\ \A r : SentNative(r)' <=> SentNative(r)
           /\ \A r, n : UsedBelow(r, n)' <=> UsedBelow(r, n)
BY Zenon DEF quiet, Used, SentNative, UsedBelow

LEMMA KeysKept ==
    ASSUME NEW k, KeysOK(k), keys' = k, UNCHANGED quiet, built \subseteq built'
    PROVE  KeysOK(keys)'
BY SameHistory, Zenon DEF KeysOK

LEMMA DiskKept ==
    ASSUME DiskOK(blob), blob' = blob, UNCHANGED quiet, built \subseteq built'
    PROVE  DiskOK(blob)'
BY SameHistory, Zenon DEF DiskOK, KeysOK, quiet

LEMMA DiskSaved ==
    ASSUME KeysOK(keys)', blob' # NoBlob, blob'.ver = 3, blob'.keys = keys'
    PROVE  DiskOK(blob)'
BY DEF DiskOK, KeysOK

LEMMA LedgerKept ==
    ASSUME NEW l, LedgerOK(l), ledger' = l, UNCHANGED quiet
    PROVE  LedgerOK(ledger)'
BY SameHistory, Zenon DEF LedgerOK, quiet

\* A tree that is generated is new to the wallet and unused.
LEMMA AddsKeys ==
    ASSUME SpendsOK, NEW k, NEW l, NEW r, KeysOK(k), Adds(k, l, r), UNCHANGED quiet
    PROVE  KeysOK(keys)'
<1>1. r \in Natives /\ r \notin built /\ built' = built \cup {r}
  BY Zenon DEF Adds
<1>2. ~SentNative(r)
  BY <1>1, WalletConstantsOK, Zenon DEF SpendsOK, SentNative
<1>3. ~keys'[r].retired
  BY KeyFacts, Zenon DEF Adds
<1> SUFFICES ASSUME NEW x \in Roots, keys'[x] # NoKey
             PROVE  /\ x \in built' \cup MineTrees
                    /\ x \in Sound /\ ~keys'[x].imported => x \in Natives
                    /\ keys'[x].retired => Used(x)'
                    /\ SentNative(x)' => keys'[x].retired \/ keys'[x].imported
  BY Zenon DEF KeysOK, Sound
<1>4. CASE x = r
  BY <1>1, <1>2, <1>3, <1>4, SameHistory, Zenon
<1>5. CASE x # r
  <2>1. keys'[x] = k[x]
    BY <1>5, Zenon DEF Adds
  <2> QED
    BY <1>1, <2>1, SameHistory, Zenon DEF KeysOK
<1> QED
  BY <1>4, <1>5, Zenon

LEMMA AddsLedger ==
    ASSUME NEW k, NEW l, NEW r, LedgerOK(l), Adds(k, l, r), UNCHANGED quiet
    PROVE  LedgerOK(ledger)'
<1> DEFINE m == ledger'
<1>1. ASSUME NEW x \in Roots
      PROVE  m[x] = l[x] \/ (x \in Natives /\ l[x] = NoFile /\ m[x] = 0)
  BY Zenon DEF Adds
<1>2. 0 # NoFile /\ Sound \subseteq Roots
  BY AbsentValuesOK, WalletConstantsOK DEF Sound, Roots
<1> HIDE DEF m
<1>3. LedgerOK(m)
  <2> SUFFICES ASSUME NEW x \in Sound
               PROVE  /\ \A y \in Leaves : uses[x][y] <= 1
                      /\ m[x] # NoFile => UsedBelow(x, m[x])
                      /\ m[x] = NoFile /\ x \in Natives => UsedBelow(x, 0)
                      /\ m[x] = NoFile /\ pointer[x] # NoFile => UsedBelow(x, pointer[x])
    BY Zenon DEF LedgerOK
  <2>1. m[x] = l[x] \/ (x \in Natives /\ l[x] = NoFile /\ m[x] = 0)
    BY <1>1, <1>2, Zenon
  <2> QED
    BY <1>2, <2>1, Zenon DEF LedgerOK
<1>4. ledger' = m
  BY Zenon DEF m
<1> QED
  BY <1>3, <1>4, LedgerKept, Zenon

\* What is loaded from the blob.
LEMMA LoadKeys ==
    ASSUME TypeOK, DiskOK(blob), NEW k, NEW l, Loads(k, l)
    PROVE  KeysOK(k)
<1> SUFFICES ASSUME NEW r \in Roots, k[r] # NoKey
             PROVE  /\ r \in built \cup MineTrees
                    /\ r \in Sound /\ ~k[r].imported => r \in Natives
                    /\ k[r].retired => Used(r)
                    /\ SentNative(r) => k[r].retired \/ k[r].imported
  BY Zenon DEF KeysOK
<1>1. /\ blob # NoBlob /\ blob.keys[r] # NoKey /\ k[r].retired = blob.keys[r].retired
      /\ k[r].imported = (blob.keys[r].imported /\ blob.ver = 3)
  BY Zenon DEF Loads
<1>2. blob.ver \in {2, 3}
  BY <1>1, Zenon DEF TypeOK, State
<1>3. /\ r \in built \cup MineTrees
      /\ r \in Sound /\ ~blob.keys[r].imported => r \in Natives
      /\ blob.keys[r].retired => Used(r)
      /\ SentNative(r) => blob.keys[r].retired \/ blob.keys[r].imported
      /\ blob.ver = 2 => ~SentNative(r)
      /\ blob.ver = 2 => r \notin MineTrees \cap Sound
  BY <1>1, Zenon DEF DiskOK, KeysOK, SentNative
<1>4. r \in Natives \/ r \in MineTrees
  BY Zenon DEF Roots
<1>5. CASE blob.ver = 2
  <2>1. blob.ver # 3
    BY <1>5
  <2>2. ~k[r].imported
    BY <1>1, <2>1, Zenon
  <2> QED
    BY <1>1, <1>3, <1>4, <1>5, <2>2, Zenon
<1>6. CASE blob.ver = 3
  <2>1. k[r].imported <=> blob.keys[r].imported
    BY <1>1, <1>6, Zenon
  <2> QED
    BY <1>1, <1>3, <2>1, Zenon
<1> QED
  BY <1>2, <1>5, <1>6, Zenon

LEMMA LoadLedger ==
    ASSUME TypeOK, LedgerOK(ledger), NEW k, NEW l, KeysOK(k), Loads(k, l)
    PROVE  LedgerOK(l)
<1> SUFFICES ASSUME NEW x \in Sound
             PROVE  /\ \A y \in Leaves : uses[x][y] <= 1
                    /\ l[x] # NoFile => UsedBelow(x, l[x])
                    /\ l[x] = NoFile /\ x \in Natives => UsedBelow(x, 0)
                    /\ l[x] = NoFile /\ pointer[x] # NoFile => UsedBelow(x, pointer[x])
  BY Zenon DEF LedgerOK
<1>1. x \in Roots
  BY Zenon DEF Sound, Roots
<1>2. l[x] = ledger[x] \/ (ledger[x] = NoFile /\ l[x] = 0 /\ x \in Natives)
  BY <1>1, Zenon DEF Loads, KeysOK
<1>3. 0 # NoFile
  BY AbsentValuesOK, WalletConstantsOK
<1> QED
  BY <1>2, <1>3, Zenon DEF LedgerOK
-----------------------------------------------------------------------------
(* Saving *)

LEMMA Saved ==
    ASSUME TypeOK, DiskOK(blob), keys' \in KeyMap, KeysOK(keys)', UNCHANGED quiet,
           built \subseteq built', blob' = PersistXMSSState(keys')
    PROVE  /\ blob' = NoBlob \/ blob' \in State
           /\ DiskOK(blob)'
           /\ IF CanPersist THEN /\ blob' # NoBlob /\ blob'.ver = 3 /\ blob'.keys = keys'
                                 /\ blob'.enc = crypted /\ Stored' = Held(keys)'
                            ELSE blob' = blob
<1> DEFINE k == keys'
<1>1. k \in KeyMap
  BY Zenon
<1> HIDE DEF k
<1>2. /\ SaveState(k) \in State /\ SaveState(k) # NoBlob
      /\ SaveState(k).ver = 3 /\ SaveState(k).keys = k /\ SaveState(k).enc = crypted
  BY <1>1, SaveMoves, Zenon
<1>3. blob' = PersistXMSSState(k) /\ keys' = k
  BY Zenon DEF k
<1>4. CASE CanPersist
  <2>1. blob' = SaveState(k)
    BY <1>3, <1>4, Zenon DEF PersistXMSSState
  <2>2. DiskOK(blob)'
    BY <1>2, <1>3, <2>1, DiskSaved, Zenon
  <2>3. Stored' = Held(keys)'
    BY <1>2, <1>3, <2>1, Zenon DEF Stored, Held
  <2>4. blob' # NoBlob /\ blob'.ver = 3 /\ blob'.keys = keys' /\ blob'.enc = crypted /\ blob' \in State
    BY <1>2, <1>3, <2>1, Zenon
  <2> QED
    BY <1>4, <2>2, <2>3, <2>4, Zenon
<1>5. CASE ~CanPersist
  <2>1. blob' = blob
    BY <1>3, <1>5, Zenon DEF PersistXMSSState
  <2>2. DiskOK(blob)'
    BY <2>1, DiskKept, Zenon
  <2>3. blob' = NoBlob \/ blob' \in State
    BY <2>1, Zenon DEF TypeOK
  <2> QED
    BY <1>5, <2>1, <2>2, <2>3, Zenon
<1> QED
  BY <1>4, <1>5, Zenon

\* The wallet saves its keys, or is locked and keeps its blob.
LEMMA SaveSession ==
    ASSUME TypeOK, SessionOK, DiskOK(blob), keys' \in KeyMap, KeysOK(keys)', UNCHANGED quiet,
           built \subseteq built', blob' = PersistXMSSState(keys'),
           UNCHANGED <<crypted, unlocked>>, loaded', CanPersist => Stored \subseteq Held(keys)',
           CanPersist => given' \subseteq given \cup Held(keys)'
    PROVE  SessionOK'
<1>1. IF CanPersist THEN blob' # NoBlob /\ blob'.enc = crypted /\ Stored' = Held(keys)'
                    ELSE blob' = blob
  BY Saved, Zenon
<1>2. CanPersist' <=> CanPersist
  BY Zenon DEF CanPersist
<1>3. ~crypted => CanPersist
  BY Zenon DEF CanPersist
<1>4. ~crypted' => blob' = NoBlob \/ (blob' # NoBlob /\ ~blob'.enc)
  <2>1. ASSUME ~crypted' PROVE blob' # NoBlob /\ ~blob'.enc
    <3>1. ~crypted /\ CanPersist
      BY <1>3, <2>1, Zenon
    <3> QED
      BY <1>1, <3>1, Zenon
  <2> QED
    BY <2>1, Zenon
<1>5. CanPersist' => Stored' \subseteq Held(keys)'
  BY <1>1, <1>2, Zenon
<1>6. ~MayEncrypt => ~crypted' /\ given' \subseteq Stored'
  BY <1>1, <1>3, Zenon DEF SessionOK
<1> QED
  BY <1>4, <1>5, <1>6, Zenon DEF SessionOK

\* The incomplete transactions given out are among those begun.
LEMMA PartialTyped ==
    ASSUME TypeOK, WalletInv, Next
    PROVE  partial' \subseteq 1..MaxTx
<1>1. \/ partial' = partial \/ partial' = {}
      \/ partial' = partial \cup {txno} /\ tx # NoTx
  <2>1. CASE SignTransactionReturns
    BY <2>1, Zenon DEF SignTransactionReturns
  <2>2. CASE Crash \/ EncryptInterrupted
    BY <2>2, Zenon DEF Crash, EncryptInterrupted
  <2>3. CASE \/ Create \/ Lock \/ Unlock \/ EncryptWallet \/ GetNewXMSSAddress
             \/ \E r \in MineTrees \cup built : ImportXMSSKey(r)
    BY <2>3, Zenon DEF Create, Lock, Unlock, EncryptWallet, GetNewXMSSAddress, ImportXMSSKey, history
  <2>4. CASE \/ \E kind \in {"auto", "from"} : Send(kind)
             \/ SignRaw \/ GetXMSSLeafIndex \/ SignXMSSRefused \/ SignXMSS \/ CommitTransaction
             \/ \E r \in MineTrees : Mine(r)
    BY <2>4, Zenon DEF Send, SignRaw, GetXMSSLeafIndex, SignXMSSRefused, SignXMSS, CommitTransaction,
       Mine, history
  <2> QED
    BY <2>1, <2>2, <2>3, <2>4, Zenon DEF Next
<1> QED
  BY <1>1, Zenon DEF TypeOK, WalletInv, TxOK

\* The steps between transactions.
LEMMA IdleStep ==
    ASSUME TypeOK, WalletInv, tx' = NoTx, UNCHANGED <<quiet, txno>>,
           built \subseteq built', built' \subseteq Natives, given' \subseteq Natives,
           keys' \in KeyMap, ledger' \in Ledgers, blob' = NoBlob \/ blob' \in State,
           crypted' \in BOOLEAN, unlocked' \in BOOLEAN, loaded' \in BOOLEAN,
           KeysOK(keys)', DiskOK(blob)', LedgerOK(ledger)', SessionOK',
           partial' \subseteq 1..MaxTx
    PROVE  TypeOK' /\ WalletInv'
<1>1. TypeOK'
  BY Zenon DEF TypeOK, quiet, Ledgers
<1>2. SpendsOK'
  BY Zenon DEF WalletInv, SpendsOK, quiet
<1>3. TxOK' /\ AutoOK'
  BY Zenon DEF TxOK, AutoOK
<1> QED
  BY <1>1, <1>2, <1>3, Zenon DEF WalletInv

LEMMA CreateStep ==
    ASSUME TypeOK, WalletInv, Create
    PROVE  TypeOK' /\ WalletInv'
<1>0. partial' \subseteq 1..MaxTx
  BY PartialTyped, Zenon DEF Next
<1>1. /\ ~loaded /\ loaded' /\ loaded' = TRUE /\ tx' = tx /\ UNCHANGED <<crypted, unlocked, given, txno>>
      /\ UNCHANGED quiet
  BY Zenon DEF Create, history, quiet
<1>2. tx = NoTx /\ ~unlocked /\ \A r \in Roots : keys[r] = NoKey
  BY <1>1, Zenon DEF WalletInv, SessionOK
<1>3. PICK s \in LoadXMSSStateIfPossible(FALSE) : EnsureXMSSKeyAvailable(s.keys, s.ledger, blob)
  BY Zenon DEF Create
<1> DEFINE k == s.keys
           l == s.ledger
<1>4. /\ k \in KeyMap /\ l \in Ledgers /\ KeysOK(k) /\ LedgerOK(l)
      /\ CanPersist => Stored \subseteq Held(k)
  <2>1. FALSE \in BOOLEAN
    BY Zenon
  <2>2. CASE k = keys /\ l = ledger /\ (blob = NoBlob \/ (blob # NoBlob /\ blob.enc))
    <3>1. CanPersist => blob = NoBlob
      BY <1>2, <2>2, Zenon DEF CanPersist, WalletInv, SessionOK
    <3>2. k \in KeyMap /\ l \in Ledgers /\ KeysOK(k) /\ LedgerOK(l)
      BY <2>2, Zenon DEF TypeOK, WalletInv, Ledgers
    <3> QED
      BY <3>1, <3>2, Zenon DEF Stored
  <2>3. CASE Loads(k, l)
    <3>1. KeysOK(k)
      BY <2>3, LoadKeys, Zenon DEF WalletInv
    <3>2. LedgerOK(l)
      BY <2>3, <3>1, LoadLedger, Zenon DEF WalletInv
    <3>3. Stored \subseteq Held(k)
      BY <2>3, Zenon DEF Loads, Stored, Held
    <3> QED
      BY <2>3, <3>1, <3>2, <3>3, Zenon DEF Loads
  <2> QED
    BY <2>1, <2>2, <2>3, LoadMoves, Zenon
<1>5. EnsureXMSSKeyAvailable(k, l, blob)
  BY <1>3, Zenon
<1> HIDE DEF k, l
<1>6. DiskOK(blob) /\ SpendsOK /\ SessionOK
  BY Zenon DEF WalletInv
<1>7. CASE keys' = k /\ ledger' = l /\ blob' = blob /\ built' = built
  <2>1. KeysOK(keys)' /\ LedgerOK(ledger)' /\ DiskOK(blob)'
    BY <1>1, <1>4, <1>6, <1>7, KeysKept, LedgerKept, DiskKept, Zenon
  <2>2. SessionOK'
    BY <1>1, <1>2, <1>4, <1>6, <1>7, Zenon DEF SessionOK, CanPersist, Stored, Held
  <2> QED
    BY <1>0, <1>1, <1>2, <1>4, <1>7, <2>1, <2>2, IdleStep, Zenon DEF TypeOK
<1>8. CASE \E r : Adds(k, l, r) /\ blob' = PersistXMSSState(keys')
  <2>1. PICK r : Adds(k, l, r) /\ blob' = PersistXMSSState(keys')
    BY <1>8, Zenon
  <2>2. KeysOK(keys)' /\ LedgerOK(ledger)'
    BY <1>1, <1>4, <1>6, <2>1, AddsKeys, AddsLedger, Zenon
  <2>3. keys' \in KeyMap /\ ledger' \in Ledgers /\ built' = built \cup {r} /\ r \in Natives
    BY <2>1, Zenon DEF Adds
  <2>4. Held(k) \subseteq Held(keys)'
    BY <2>1, KeyFacts, Zenon DEF Adds, Held
  <2>5. (blob' = NoBlob \/ blob' \in State) /\ DiskOK(blob)'
    BY <1>1, <1>6, <2>1, <2>2, <2>3, Saved, Zenon
  <2>6. SessionOK'
    BY <1>1, <1>4, <1>6, <2>1, <2>2, <2>3, <2>4, SaveSession, Zenon
  <2> QED
    BY <1>0, <1>1, <1>2, <2>2, <2>3, <2>5, <2>6, IdleStep, Zenon DEF TypeOK
<1> QED
  BY <1>4, <1>5, <1>7, <1>8, EnsureMoves, Zenon
-----------------------------------------------------------------------------
(* Stopping, locking, unlocking, encrypting *)

LEMMA CrashStep ==
    ASSUME TypeOK, WalletInv, Crash \/ EncryptInterrupted
    PROVE  TypeOK' /\ WalletInv'
<1>0. partial' \subseteq 1..MaxTx
  BY PartialTyped, Zenon DEF Next
<1>1. /\ loaded' = FALSE /\ unlocked' = FALSE /\ ~loaded' /\ ~unlocked' /\ tx' = NoTx
      /\ keys' = [r \in Roots |-> NoKey] /\ UNCHANGED <<blob, ledger, built, given, txno>>
      /\ UNCHANGED quiet /\ crypted' \in BOOLEAN
      /\ ~MayEncrypt \/ ~crypted' => ~crypted' /\ ~crypted
  <2>1. CASE Crash
    BY <2>1, Zenon DEF Crash, history, quiet, TypeOK, WalletInv, SessionOK
  <2>2. CASE EncryptInterrupted
    BY <2>2, Zenon DEF EncryptInterrupted, Idle, history, quiet
  <2> QED
    BY <2>1, <2>2, Zenon
<1>2. keys' \in KeyMap /\ \A r \in Roots : keys'[r] = NoKey
  BY <1>1, Zenon DEF KeyMap
<1>3. KeysOK(keys)'
  BY <1>2, Zenon DEF KeysOK
<1>4. DiskOK(blob)' /\ LedgerOK(ledger)'
  BY <1>1, DiskKept, LedgerKept, Zenon DEF WalletInv
<1>5. SessionOK'
  BY <1>1, <1>2, Zenon DEF WalletInv, SessionOK, Stored, Held
<1> QED
  BY <1>0, <1>1, <1>2, <1>3, <1>4, <1>5, IdleStep, Zenon DEF TypeOK, Ledgers

LEMMA LockStep ==
    ASSUME TypeOK, WalletInv, Lock
    PROVE  TypeOK' /\ WalletInv'
<1>0. partial' \subseteq 1..MaxTx
  BY PartialTyped, Zenon DEF Next
<1>1. /\ loaded /\ tx = NoTx /\ crypted /\ unlocked' = FALSE /\ ~unlocked'
      /\ UNCHANGED <<keys, blob, ledger, crypted, loaded, tx, built, given, txno>> /\ UNCHANGED quiet
  BY Zenon DEF Lock, Idle, history, quiet
<1>2. KeysOK(keys)' /\ DiskOK(blob)' /\ LedgerOK(ledger)'
  BY <1>1, KeysKept, DiskKept, LedgerKept, Zenon DEF WalletInv
<1>3. SessionOK'
  BY <1>1, Zenon DEF WalletInv, SessionOK, CanPersist
<1> QED
  BY <1>0, <1>1, <1>2, <1>3, IdleStep, Zenon DEF TypeOK, Ledgers

LEMMA UnlockMoves ==
    ASSUME TypeOK, WalletInv, UnlockXMSS, UNCHANGED quiet, UNCHANGED built
    PROVE  /\ keys' \in KeyMap /\ ledger' \in Ledgers /\ (blob' = NoBlob \/ blob' \in State)
           /\ KeysOK(keys)' /\ DiskOK(blob)' /\ LedgerOK(ledger)'
           /\ Stored' \subseteq Held(keys)'
<1>0. KeysOK(keys) /\ DiskOK(blob) /\ LedgerOK(ledger)
  BY Zenon DEF WalletInv
<1>1. CASE Held(keys) # {}
  <2>1. blob' = [ver |-> 3, enc |-> TRUE, keys |-> keys] /\ keys' = keys /\ ledger' = ledger
    BY <1>1, Zenon DEF UnlockXMSS
  <2>2. blob'.ver = 3 /\ blob'.keys = keys
    BY <2>1, Zenon
  <2>3. TRUE \in BOOLEAN /\ 3 \in {2, 3} /\ keys \in KeyMap /\ ledger \in Ledgers
    BY Zenon DEF TypeOK, Ledgers
  <2>4. blob' \in State
    BY <2>1, <2>3, Zenon DEF State
  <2>5. blob' # NoBlob
    BY <2>4, AbsentValuesOK, Zenon
  <2>6. KeysOK(keys)' /\ LedgerOK(ledger)'
    BY <1>0, <2>1, KeysKept, LedgerKept, Zenon
  <2>7. DiskOK(blob)'
    BY <2>1, <2>2, <2>5, <2>6, DiskSaved, Zenon
  <2>8. Stored' \subseteq Held(keys)'
    BY <2>1, <2>2, <2>5, Zenon DEF Stored, Held
  <2> QED
    BY <2>1, <2>3, <2>4, <2>6, <2>7, <2>8, Zenon
<1>2. CASE Held(keys) = {}
  <2>1. PICK s \in LoadXMSSStateIfPossible(TRUE) : keys' = s.keys /\ ledger' = s.ledger
    BY <1>2, Zenon DEF UnlockXMSS
  <2>2. blob' = blob /\ TRUE \in BOOLEAN
    BY <1>2, Zenon DEF UnlockXMSS
  <2>3. DiskOK(blob)' /\ (blob' = NoBlob \/ blob' \in State)
    BY <1>0, <2>2, DiskKept, Zenon DEF TypeOK
  <2>4. CASE s.keys = keys /\ s.ledger = ledger /\ blob = NoBlob
    <3>1. KeysOK(keys)' /\ LedgerOK(ledger)'
      BY <1>0, <2>1, <2>4, KeysKept, LedgerKept, Zenon
    <3> QED
      BY <2>1, <2>2, <2>3, <2>4, <3>1, Zenon DEF TypeOK, Ledgers, Stored
  <2>5. CASE Loads(s.keys, s.ledger)
    <3> DEFINE k == s.keys
               l == s.ledger
    <3>1. Loads(k, l) /\ keys' = k /\ ledger' = l
      BY <2>1, <2>5, Zenon
    <3> HIDE DEF k, l
    <3>2. KeysOK(k)
      BY <1>0, <3>1, LoadKeys, Zenon
    <3>3. LedgerOK(l)
      BY <1>0, <3>1, <3>2, LoadLedger, Zenon
    <3>4. KeysOK(keys)' /\ LedgerOK(ledger)'
      BY <3>1, <3>2, <3>3, KeysKept, LedgerKept, Zenon
    <3>5. Stored' \subseteq Held(keys)'
      BY <2>2, <3>1, Zenon DEF Loads, Stored, Held
    <3> QED
      BY <2>3, <3>1, <3>4, <3>5, Zenon DEF Loads
  <2> QED
    BY <2>2, <2>4, <2>5, LoadMoves, Zenon
<1> QED
  BY <1>1, <1>2, Zenon

LEMMA UnlockStep ==
    ASSUME TypeOK, WalletInv, Unlock \/ EncryptWallet
    PROVE  TypeOK' /\ WalletInv'
<1>0. partial' \subseteq 1..MaxTx
  BY PartialTyped, Zenon DEF Next
<1>1. /\ UnlockXMSS /\ tx' = NoTx /\ UNCHANGED <<built, given, txno>> /\ UNCHANGED quiet
      /\ loaded' /\ loaded' \in BOOLEAN /\ crypted' /\ crypted' \in BOOLEAN
      /\ unlocked' \in BOOLEAN /\ (MayEncrypt \/ crypted)
  BY Zenon DEF Unlock, EncryptWallet, Idle, history, quiet, TypeOK
<1>2. MayEncrypt
  BY <1>1, Zenon DEF WalletInv, SessionOK
<1>3. SessionOK'
  BY <1>1, <1>2, UnlockMoves, Zenon DEF SessionOK
<1>4. /\ keys' \in KeyMap /\ ledger' \in Ledgers /\ (blob' = NoBlob \/ blob' \in State)
      /\ KeysOK(keys)' /\ DiskOK(blob)' /\ LedgerOK(ledger)'
  BY <1>1, UnlockMoves, Zenon
<1>5. built' = built /\ given' = given /\ built' \subseteq Natives /\ given' \subseteq Natives
  BY <1>1, Zenon DEF TypeOK
<1> QED
  BY <1>0, <1>1, <1>3, <1>4, <1>5, IdleStep, Zenon

-----------------------------------------------------------------------------
(* New and imported keys *)

\* A key is generated and saved if the wallet can save.
LEMMA GenerateStep ==
    ASSUME TypeOK, WalletInv, loaded, UNCHANGED quiet, UNCHANGED <<crypted, unlocked, loaded>>,
           NEW r, Adds(keys, ledger, r), blob' = PersistXMSSState(keys'),
           given' \subseteq given \cup {r}
    PROVE  /\ keys' \in KeyMap /\ ledger' \in Ledgers /\ (blob' = NoBlob \/ blob' \in State)
           /\ built \subseteq built' /\ built' \subseteq Natives /\ given' \subseteq Natives
           /\ KeysOK(keys)' /\ DiskOK(blob)' /\ LedgerOK(ledger)' /\ SessionOK'
           /\ \A x \in Held(keys) : keys'[x] = keys[x] /\ ledger'[x] = ledger[x]
<1>1. DiskOK(blob) /\ SpendsOK /\ SessionOK /\ KeysOK(keys) /\ LedgerOK(ledger)
  BY Zenon DEF WalletInv
<1>2. KeysOK(keys)' /\ LedgerOK(ledger)'
  BY <1>1, AddsKeys, AddsLedger, Zenon
<1>3. /\ keys' \in KeyMap /\ ledger' \in Ledgers
      /\ built' = built \cup {r} /\ r \in Natives /\ r \notin built
  BY Zenon DEF Adds
<1>4. r \in Held(keys)' /\ Held(keys) \subseteq Held(keys)'
  BY KeyFacts, Zenon DEF Adds, Held, Roots
<1>5. (blob' = NoBlob \/ blob' \in State) /\ DiskOK(blob)'
  BY <1>1, <1>2, <1>3, Saved, Zenon
<1>6. SessionOK'
  <2>1. CanPersist => Stored \subseteq Held(keys)'
    BY <1>1, <1>4, Zenon DEF SessionOK
  <2> QED
    BY <1>1, <1>2, <1>3, <1>4, <2>1, SaveSession, Zenon
<1>7. \A x \in Held(keys) : keys'[x] = keys[x] /\ ledger'[x] = ledger[x]
  <2>1. r \notin Held(keys)
    BY <1>1, <1>3, WalletConstantsOK, Zenon DEF KeysOK, Held
  <2> QED
    BY <2>1, Zenon DEF Adds, Held
<1>8. built \subseteq built' /\ built' \subseteq Natives /\ given' \subseteq Natives
  BY <1>3, Zenon DEF TypeOK
<1> QED
  BY <1>2, <1>3, <1>5, <1>6, <1>7, <1>8, Zenon

LEMMA GetNewStep ==
    ASSUME TypeOK, WalletInv, GetNewXMSSAddress
    PROVE  TypeOK' /\ WalletInv'
<1>0. partial' \subseteq 1..MaxTx
  BY PartialTyped, Zenon DEF Next
<1>1. /\ loaded /\ tx = NoTx /\ UNCHANGED <<crypted, unlocked, loaded, tx, txno>> /\ UNCHANGED quiet
  BY Zenon DEF GetNewXMSSAddress, Idle, session, quiet
<1>2. PICK g \in GenerateKey(keys, ledger) :
         /\ keys' = g.keys /\ ledger' = g.ledger
         /\ built' = built \cup {g.root}
         /\ blob' = PersistXMSSState(g.keys)
         /\ given' = IF CanPersist THEN given \cup {g.root} ELSE given
  BY Zenon DEF GetNewXMSSAddress
<1>3. /\ Adds(keys, ledger, g.root) /\ blob' = PersistXMSSState(keys')
      /\ given' \subseteq given \cup {g.root}
  BY <1>2, GenerateMoves, Zenon DEF TypeOK, Ledgers
<1> QED
  BY <1>0, <1>1, <1>3, GenerateStep, IdleStep, Zenon DEF TypeOK

LEMMA ImportStep ==
    ASSUME TypeOK, WalletInv, NEW r \in MineTrees \cup built, ImportXMSSKey(r)
    PROVE  TypeOK' /\ WalletInv'
<1>0. partial' \subseteq 1..MaxTx
  BY PartialTyped, Zenon DEF Next
<1> DEFINE e == [retired |-> FALSE, imported |-> TRUE]
<1>1. /\ loaded /\ tx = NoTx /\ keys' = [keys EXCEPT ![r] = e] /\ blob' = PersistXMSSState(keys')
      /\ UNCHANGED <<ledger, crypted, unlocked, loaded, tx, built, given, txno>> /\ UNCHANGED quiet
  BY Zenon DEF ImportXMSSKey, Idle, session, quiet, history
<1>2. e \in Entry /\ ~e.retired /\ e.imported
  <2>1. FALSE \in BOOLEAN /\ TRUE \in BOOLEAN
    BY Zenon
  <2>2. e \in Entry
    BY <2>1, Zenon DEF Entry
  <2>3. ~e.retired /\ e.imported
    BY Zenon
  <2> QED
    BY <2>2, <2>3, Zenon
<1> HIDE DEF e
<1>3. r \in Roots
  BY Zenon DEF TypeOK, Roots
<1>4. keys' \in KeyMap /\ keys'[r] = e /\ \A x \in Roots \ {r} : keys'[x] = keys[x]
  BY <1>1, <1>2, <1>3, Zenon DEF TypeOK, KeyMap
<1>5. DiskOK(blob) /\ SessionOK /\ KeysOK(keys) /\ LedgerOK(ledger)
  BY Zenon DEF WalletInv
<1>6. KeysOK(keys)'
  <2> SUFFICES ASSUME NEW x \in Roots, keys'[x] # NoKey
               PROVE  /\ x \in built' \cup MineTrees
                      /\ x \in Sound /\ ~keys'[x].imported => x \in Natives
                      /\ keys'[x].retired => Used(x)'
                      /\ SentNative(x)' => keys'[x].retired \/ keys'[x].imported
    BY Zenon DEF KeysOK, Sound
  <2>1. CASE x = r
    <3>1. ~keys'[x].retired /\ keys'[x].imported
      BY <1>2, <1>4, <2>1, Zenon
    <3> QED
      BY <1>1, <2>1, <3>1, Zenon
  <2>2. CASE x # r
    <3>1. keys'[x] = keys[x]
      BY <1>4, <2>2, Zenon
    <3> QED
      BY <1>1, <1>5, <3>1, SameHistory, Zenon DEF KeysOK
  <2> QED
    BY <2>1, <2>2, Zenon
<1>7. Held(keys) \subseteq Held(keys)'
  BY <1>2, <1>4, KeyFacts, Zenon DEF Held
<1>8. (blob' = NoBlob \/ blob' \in State) /\ DiskOK(blob)'
  BY <1>1, <1>4, <1>5, <1>6, Saved, Zenon
<1>9. SessionOK'
  <2>1. CanPersist => Stored \subseteq Held(keys)'
    BY <1>1, <1>5, <1>7, Zenon DEF SessionOK
  <2> QED
    BY <1>1, <1>4, <1>5, <1>6, <2>1, SaveSession, Zenon
<1>10. LedgerOK(ledger)'
  BY <1>1, <1>5, LedgerKept, Zenon
<1> QED
  BY <1>0, <1>1, <1>4, <1>6, <1>8, <1>9, <1>10, IdleStep, Zenon DEF TypeOK, Ledgers
-----------------------------------------------------------------------------
(* A transaction begins *)

\* The steps that sign and send nothing.
LEMMA QuietStep ==
    ASSUME TypeOK, WalletInv, tx' = NoTx \/ tx' \in Transaction, UNCHANGED quiet,
           txno' \in Nat, txno <= txno', txno' <= MaxTx,
           built \subseteq built', built' \subseteq Natives, given' \subseteq Natives,
           keys' \in KeyMap, ledger' \in Ledgers, blob' = NoBlob \/ blob' \in State,
           UNCHANGED session,
           KeysOK(keys)', DiskOK(blob)', LedgerOK(ledger)', SessionOK', TxOK', AutoOK',
           partial' \subseteq 1..MaxTx
    PROVE  TypeOK' /\ WalletInv'
<1>1. TypeOK'
  <2>1. txno' \in 0..MaxTx
    BY WalletConstantsOK
  <2> QED
    BY <2>1, Zenon DEF TypeOK, quiet, Ledgers, session
<1>2. SpendsOK'
  <2>1. txno \in Nat /\ spends' = spends /\ sent' = sent /\ \A s \in spends : s.tx \in Nat
    BY DEF TypeOK, quiet, Spend
  <2> QED
    BY <2>1 DEF WalletInv, SpendsOK
<1> QED
  BY <1>1, <1>2, Zenon DEF WalletInv

\* What coin selection hands to SignTransaction.
LEMMA InputsShape ==
    ASSUME TypeOK, NEW kind \in Kinds, NEW ins \in Selectable(kind)
    PROVE  /\ ins \in Seq(Roots) /\ Len(ins) \in 1..MaxInputs
           /\ \A j \in 1..Len(ins) : ins[j] \in Held(keys)
           /\ kind = "auto" =>
                /\ Distinct(ins)
                /\ \A j \in 1..Len(ins) : keys[ins[j]].imported \/ ledger[ins[j]] \in {0, NoFile}
<1>1. ASSUME NEW S \in SUBSET Roots, NEW x \in Inputs(S)
      PROVE  x \in Seq(Roots) /\ Len(x) \in 1..MaxInputs /\ \A j \in 1..Len(x) : x[j] \in S
  <2>1. PICK n \in 1..MaxInputs : x \in [1..n -> S]
    BY Zenon DEF Inputs
  <2>2. x \in Seq(Roots) /\ Len(x) = n
    BY <2>1
  <2> QED
    BY <2>1, <2>2, Zenon
<1>2. Held(keys) \in SUBSET Roots /\ 1 \in 1..MaxInputs
  BY WalletConstantsOK DEF Held
<1>3. CASE kind = "auto"
  <2> DEFINE S == {r \in Held(keys) : ~IsXMSSKeyRetired(r)}
  <2>1. ins \in Inputs(S) /\ Distinct(ins)
    BY <1>3, Zenon DEF Selectable
  <2>2. S \in SUBSET Roots
    BY <1>2, Zenon
  <2>3. \A r \in S : keys[r].imported \/ ledger[r] \in {0, NoFile}
    <3> SUFFICES ASSUME NEW r \in S, ~keys[r].imported, ledger[r] # NoFile PROVE ledger[r] = 0
      BY Zenon
    <3>1. r \in Roots /\ ~IsXMSSKeyRetired(r)
      BY <1>2, Zenon
    <3>2. ~(ledger[r] >= 1)
      BY <3>1, Zenon DEF IsXMSSKeyRetired
    <3>3. ledger[r] \in 0..MaxLeaves /\ MaxLeaves \in Nat
      BY <3>1, WalletConstantsOK, Zenon DEF TypeOK
    <3> QED
      BY <3>2, <3>3
  <2>4. \A r \in S : r \in Held(keys)
    BY Zenon
  <2> HIDE DEF S
  <2>5. ins \in Seq(Roots) /\ Len(ins) \in 1..MaxInputs /\ \A j \in 1..Len(ins) : ins[j] \in S
    BY <1>1, <2>1, <2>2, Zenon
  <2> QED
    BY <2>1, <2>3, <2>4, <2>5, Zenon
<1>4. CASE kind = "from"
  <2>1. ins \in [1..1 -> Held(keys)]
    BY <1>4, Zenon DEF Selectable
  <2>2. ins \in Inputs(Held(keys))
    BY <1>2, <2>1, Zenon DEF Inputs
  <2> QED
    BY <1>1, <1>2, <1>4, <2>2, Zenon
<1>5. CASE kind = "raw"
  <2>1. ins \in Inputs(Held(keys))
    BY <1>5, Zenon DEF Selectable
  <2> QED
    BY <1>1, <1>2, <1>5, <2>1, Zenon
<1> QED
  BY <1>3, <1>4, <1>5, Zenon DEF Kinds

LEMMA BeginStep ==
    ASSUME TypeOK, WalletInv, NEW kind \in Kinds, NEW ins \in Selectable(kind),
           tx' = Begin(kind, ins), loaded, CanPersist, txno < MaxTx, txno' = txno + 1,
           UNCHANGED session, UNCHANGED quiet,
           \A x \in Held(keys) : keys'[x] = keys[x] /\ ledger'[x] = ledger[x]
    PROVE  tx' \in Transaction /\ TxOK' /\ AutoOK'
<1> DEFINE t == Begin(kind, ins)
<1>1. /\ ins \in Seq(Roots) /\ Len(ins) \in 1..MaxInputs
      /\ \A j \in 1..Len(ins) : ins[j] \in Held(keys)
      /\ kind = "auto" =>
           /\ Distinct(ins)
           /\ \A j \in 1..Len(ins) : keys[ins[j]].imported \/ ledger[ins[j]] \in {0, NoFile}
  BY InputsShape, Zenon
<1>2. t.kind = kind /\ t.ins = ins /\ t.i = 1 /\ t.pc = "leaf"
  BY Zenon DEF Begin
<1>3. t \in Transaction
  <2>1. 1 \in Nat /\ 0 \in Nat /\ TRUE \in BOOLEAN /\ "leaf" \in {"leaf", "sign", "signed", "ready"}
    BY Zenon
  <2> QED
    BY <1>1, <2>1, Zenon DEF Begin, Transaction
<1>4. txno \in Nat /\ MaxTx \in Nat /\ MaxInputs \in Nat
  BY WalletConstantsOK DEF TypeOK
<1>5. tx' = t
  BY Zenon
<1> HIDE DEF t
<1>6. \A s \in spends' : s.tx # txno'
  <2>1. \A s \in spends : s.tx \in Nat /\ s.tx <= txno
    BY DEF TypeOK, Spend, WalletInv, SpendsOK
  <2> QED
    BY <1>4, <2>1 DEF quiet
<1>7. txno' \notin sent' /\ txno' \in 1..MaxTx
  <2>1. sent \subseteq 1..txno
    BY Zenon DEF WalletInv, SpendsOK
  <2> QED
    BY <1>4, <2>1, SMTT(60) DEF quiet
<1>8. loaded' /\ CanPersist'
  BY Zenon DEF session, CanPersist
<1>9. \A j \in 1..Len(ins) : /\ keys'[ins[j]] = keys[ins[j]] /\ keys'[ins[j]] # NoKey
                             /\ ledger'[ins[j]] = ledger[ins[j]]
  BY <1>1, ZenonT(60) DEF Held
<1>10. TxOK'
  <2>1. Len(ins) \in 1..MaxInputs /\ 1 \in 1..Len(ins)
    BY <1>1, <1>4, SMTT(60)
  <2> QED
    BY <1>2, <1>5, <1>6, <1>7, <1>8, <1>9, <2>1, ZenonT(60) DEF TxOK
<1>11. AutoOK'
  BY <1>1, <1>2, <1>5, <1>9 DEF AutoOK, Distinct
<1> QED
  BY <1>3, <1>5, <1>10, <1>11, Zenon
\* Nothing but the transaction changes.
LEMMA SameStep ==
    ASSUME TypeOK, WalletInv, loaded, UNCHANGED quiet, UNCHANGED session,
           UNCHANGED <<keys, ledger, blob, built, given>>
    PROVE  /\ keys' \in KeyMap /\ ledger' \in Ledgers /\ (blob' = NoBlob \/ blob' \in State)
           /\ built \subseteq built' /\ built' \subseteq Natives /\ given' \subseteq Natives
           /\ KeysOK(keys)' /\ DiskOK(blob)' /\ LedgerOK(ledger)' /\ SessionOK'
<1>1. KeysOK(keys)' /\ DiskOK(blob)' /\ LedgerOK(ledger)'
  BY KeysKept, DiskKept, LedgerKept, Zenon DEF WalletInv
<1>2. SessionOK'
  <2>1. SessionOK
    BY Zenon DEF WalletInv
  <2>2. UNCHANGED <<blob, keys, given, crypted, loaded, unlocked>>
    BY Zenon DEF session
  <2>3. Stored' = Stored /\ Held(keys)' = Held(keys) /\ (CanPersist' <=> CanPersist)
    BY <2>2, ZenonT(60) DEF Stored, Held, CanPersist
  <2> QED
    BY <2>1, <2>2, <2>3, Zenon DEF SessionOK
<1> QED
  BY <1>1, <1>2, Zenon DEF TypeOK, Ledgers

LEMMA SendStep ==
    ASSUME TypeOK, WalletInv, NEW kind \in {"auto", "from"}, Send(kind)
    PROVE  TypeOK' /\ WalletInv'
<1>0. partial' \subseteq 1..MaxTx
  BY PartialTyped, Zenon DEF Next
<1>1. /\ loaded /\ tx = NoTx /\ CanPersist /\ txno < MaxTx /\ txno' = txno + 1
      /\ UNCHANGED session /\ UNCHANGED quiet
      /\ (\E ins \in Selectable(kind) : tx' = Begin(kind, ins)) \/ tx' = tx
  BY Zenon DEF Send, Idle, quiet
<1>2. PICK g \in GenerateKey(keys, ledger) :
         /\ keys' = g.keys /\ ledger' = g.ledger
         /\ built' = built \cup {g.root}
         /\ given' = given \cup {g.root}
         /\ blob' = PersistXMSSState(g.keys)
  BY Zenon DEF Send
<1>3. /\ Adds(keys, ledger, g.root) /\ blob' = PersistXMSSState(keys')
      /\ given' \subseteq given \cup {g.root}
  BY <1>2, GenerateMoves, Zenon DEF TypeOK, Ledgers
<1>4. /\ keys' \in KeyMap /\ ledger' \in Ledgers /\ (blob' = NoBlob \/ blob' \in State)
      /\ built \subseteq built' /\ built' \subseteq Natives /\ given' \subseteq Natives
      /\ KeysOK(keys)' /\ DiskOK(blob)' /\ LedgerOK(ledger)' /\ SessionOK'
      /\ \A x \in Held(keys) : keys'[x] = keys[x] /\ ledger'[x] = ledger[x]
  BY <1>1, <1>3, GenerateStep, Zenon DEF session
<1>5. txno' \in Nat /\ txno <= txno' /\ txno' <= MaxTx
  BY <1>1, WalletConstantsOK DEF TypeOK
<1>6. (tx' = NoTx \/ tx' \in Transaction) /\ TxOK' /\ AutoOK'
  <2>1. CASE tx' = tx
    BY <1>1, <2>1, Zenon DEF TxOK, AutoOK
  <2>2. CASE \E ins \in Selectable(kind) : tx' = Begin(kind, ins)
    <3>1. PICK ins \in Selectable(kind) : tx' = Begin(kind, ins)
      BY <2>2, Zenon
    <3>2. kind \in Kinds
      BY Zenon DEF Kinds
    <3> QED
      BY <1>1, <1>4, <3>1, <3>2, BeginStep, Zenon
  <2> QED
    BY <1>1, <2>1, <2>2, Zenon
<1> QED
  BY <1>0, <1>1, <1>4, <1>5, <1>6, QuietStep, Zenon

LEMMA SignRawStep ==
    ASSUME TypeOK, WalletInv, SignRaw
    PROVE  TypeOK' /\ WalletInv'
<1>0. partial' \subseteq 1..MaxTx
  BY PartialTyped, Zenon DEF Next
<1>1. /\ loaded /\ tx = NoTx /\ CanPersist /\ txno < MaxTx /\ txno' = txno + 1 /\ given' = given
      /\ UNCHANGED session /\ UNCHANGED quiet
      /\ EnsureXMSSKeyAvailable(keys, ledger, blob)
  BY Zenon DEF SignRaw, Idle, quiet
<1>2. PICK ins \in Selectable("raw") : tx' = Begin("raw", ins)
  BY Zenon DEF SignRaw
<1>3. keys \in KeyMap /\ ledger \in Ledgers
  BY Zenon DEF TypeOK, Ledgers
<1>4. /\ keys' \in KeyMap /\ ledger' \in Ledgers /\ (blob' = NoBlob \/ blob' \in State)
      /\ built \subseteq built' /\ built' \subseteq Natives /\ given' \subseteq Natives
      /\ KeysOK(keys)' /\ DiskOK(blob)' /\ LedgerOK(ledger)' /\ SessionOK'
      /\ \A x \in Held(keys) : keys'[x] = keys[x] /\ ledger'[x] = ledger[x]
  <2>1. CASE keys' = keys /\ ledger' = ledger /\ blob' = blob /\ built' = built
    BY <1>1, <2>1, SameStep, ZenonT(60)
  <2>2. CASE \E r : Adds(keys, ledger, r) /\ blob' = PersistXMSSState(keys')
    <3>1. PICK r : Adds(keys, ledger, r) /\ blob' = PersistXMSSState(keys')
      BY <2>2, Zenon
    <3>2. given' \subseteq given \cup {r}
      BY <1>1, Zenon
    <3> QED
      BY <1>1, <3>1, <3>2, GenerateStep, Zenon DEF session
  <2> QED
    BY <1>1, <1>3, <2>1, <2>2, EnsureMoves, ZenonT(60)
<1>5. txno' \in Nat /\ txno <= txno' /\ txno' <= MaxTx
  BY <1>1, WalletConstantsOK, SMTT(60) DEF TypeOK
<1>6. tx' \in Transaction /\ TxOK' /\ AutoOK'
  <2>1. "raw" \in Kinds
    BY Zenon DEF Kinds
  <2> QED
    BY <1>1, <1>2, <1>4, <2>1, BeginStep, Zenon
<1> QED
  BY <1>0, <1>1, <1>4, <1>5, <1>6, QuietStep, Zenon

-----------------------------------------------------------------------------
(* The inputs of a transaction *)

\* The transaction that is being signed and the key of its next input.
LEMMA InputFacts ==
    ASSUME TypeOK, WalletInv, tx # NoTx
    PROVE  /\ tx \in Transaction /\ loaded /\ CanPersist /\ txno \in 1..MaxTx /\ txno \notin sent
           /\ Len(tx.ins) \in 1..MaxInputs /\ tx.i \in 1..Len(tx.ins)
           /\ \A j \in 1..Len(tx.ins) : tx.ins[j] \in Roots /\ keys[tx.ins[j]] # NoKey
           /\ Input \in Roots /\ keys[Input] \in Entry
<1>1. tx \in Transaction /\ tx.ins \in Seq(Roots)
  BY Zenon DEF TypeOK, Transaction
<1>2. /\ loaded /\ CanPersist /\ txno \in 1..MaxTx /\ txno \notin sent
      /\ Len(tx.ins) \in 1..MaxInputs /\ tx.i \in 1..Len(tx.ins)
      /\ \A j \in 1..Len(tx.ins) : keys[tx.ins[j]] # NoKey
  BY Zenon DEF WalletInv, TxOK
<1>3. \A j \in 1..Len(tx.ins) : tx.ins[j] \in Roots
  BY <1>1
<1>4. Input \in Roots /\ keys[Input] # NoKey
  BY <1>2, <1>3, Zenon DEF Input
<1>5. keys[Input] \in Entry
  BY <1>4, Zenon DEF TypeOK, KeyMap
<1> QED
  BY <1>1, <1>2, <1>3, <1>4, <1>5, Zenon

LEMMA AdvanceMoves ==
    ASSUME tx \in Transaction, tx.i \in 1..Len(tx.ins), NEW good \in BOOLEAN, Advance(good)
    PROVE  /\ tx' \in Transaction /\ tx'.kind = tx.kind /\ tx'.ins = tx.ins
           /\ tx'.ok = (tx.ok /\ good)
           /\ tx'.i \in 1..Len(tx.ins) /\ tx'.pc \in {"leaf", "signed"}
           /\ tx'.pc = "leaf" => tx'.i = tx.i + 1
<1> DEFINE ok == tx.ok /\ good
           n == Len(tx.ins)
           i == IF tx.i = n THEN tx.i ELSE tx.i + 1
           pc == IF tx.i = n THEN "signed" ELSE "leaf"
<1>1. tx' = [tx EXCEPT !.ok = ok, !.i = i, !.pc = pc]
  BY Zenon DEF Advance
<1>2. n \in Nat /\ tx.i \in Nat /\ tx.i <= n /\ 1 <= tx.i
  BY DEF Transaction
<1>3. ok \in BOOLEAN /\ i \in Nat /\ i \in 1..n /\ pc \in {"leaf", "signed"}
      /\ (pc = "leaf" => i = tx.i + 1)
  BY <1>2
<1> HIDE DEF ok, i, pc, n
<1>4. tx' = [kind |-> tx.kind, ins |-> tx.ins, i |-> i, pre |-> tx.pre, ok |-> ok, pc |-> pc]
  BY <1>1, Zenon DEF Transaction
<1>5. tx' \in Transaction
  <2>1. tx.kind \in Kinds /\ tx.ins \in Seq(Roots) /\ tx.pre \in Nat
    BY Zenon DEF Transaction
  <2>2. pc \in {"leaf", "sign", "signed", "ready"}
    BY <1>3, Zenon
  <2> QED
    BY <1>3, <1>4, <2>1, <2>2, Zenon DEF Transaction
<1>6. tx'.kind = tx.kind /\ tx'.ins = tx.ins /\ tx'.i = i /\ tx'.pc = pc /\ tx'.ok = ok
  BY <1>4, Zenon
<1>7. tx'.ok = (tx.ok /\ good)
  BY <1>6, Zenon DEF ok
<1> QED
  BY <1>3, <1>5, <1>6, <1>7, Zenon DEF n
LEMMA GetIndexStep ==
    ASSUME TypeOK, WalletInv, GetXMSSLeafIndex
    PROVE  TypeOK' /\ WalletInv'
<1>0. partial' \subseteq 1..MaxTx
  BY PartialTyped, Zenon DEF Next
<1> DEFINE p == IF ledger[Input] = NoFile THEN 0 ELSE ledger[Input]
<1>1. /\ tx # NoTx /\ tx.pc = "leaf" /\ tx' = [tx EXCEPT !.pre = p, !.pc = "sign"]
      /\ UNCHANGED <<keys, ledger, blob, built, given, txno>> /\ UNCHANGED session /\ UNCHANGED quiet
  BY Zenon DEF GetXMSSLeafIndex, history, quiet
<1>2. /\ tx \in Transaction /\ loaded /\ CanPersist /\ txno \in 1..MaxTx /\ txno \notin sent
      /\ Len(tx.ins) \in 1..MaxInputs /\ tx.i \in 1..Len(tx.ins) /\ Input \in Roots
      /\ \A j \in 1..Len(tx.ins) : tx.ins[j] \in Roots /\ keys[tx.ins[j]] # NoKey
  BY <1>1, InputFacts, Zenon
<1>3. p \in Nat
  BY <1>2, WalletConstantsOK DEF TypeOK
<1> HIDE DEF p
<1>4. /\ tx' \in Transaction /\ tx'.kind = tx.kind /\ tx'.ins = tx.ins /\ tx'.i = tx.i
      /\ tx'.ok = tx.ok /\ tx'.pc = "sign"
  BY <1>1, <1>2, <1>3, Zenon DEF Transaction
<1>5. TxOK'
  BY <1>1, <1>2, <1>4, Zenon DEF WalletInv, TxOK, CanPersist, Marked, session, quiet
<1>6. AutoOK'
  BY <1>1, <1>4 DEF WalletInv, AutoOK, Distinct
<1>7. txno' \in Nat /\ txno <= txno' /\ txno' <= MaxTx
  BY <1>1, <1>2, WalletConstantsOK, SMTT(60)
<1> QED
  BY <1>0, <1>1, <1>2, <1>4, <1>5, <1>6, <1>7, SameStep, QuietStep, Zenon

\* SignXMSS seeds a ledger only for a tree that is unused.
LEMMA SigningLedgers ==
    ASSUME TypeOK, WalletInv, NEW r \in Roots, keys[r] # NoKey, NEW l \in LedgersForSigning(r)
    PROVE  /\ l \in Ledgers /\ LedgerOK(l) /\ \A x \in Roots \ {r} : l[x] = ledger[x]
           /\ l[r] = ledger[r] \/ (ledger[r] = NoFile /\ l[r] = 0 /\ ~keys[r].imported)
<1>1. ledger \in Ledgers /\ 0 \in 0..MaxLeaves /\ 0 # NoFile
  BY WalletConstantsOK, AbsentValuesOK, SMTT(60) DEF TypeOK, Ledgers
<1>2. CASE keys[r].imported
  BY <1>1, <1>2, Zenon DEF LedgersForSigning, WalletInv
<1>3. CASE ~keys[r].imported
  <2>1. l \in Seeded(ledger, r, 0)
    BY <1>3, Zenon DEF LedgersForSigning
  <2>2. /\ l \in Ledgers /\ \A x \in Roots \ {r} : l[x] = ledger[x]
        /\ l[r] = ledger[r] \/ (ledger[r] = NoFile /\ l[r] = 0)
    BY <1>1, <2>1, SeedMoves, SMTT(60)
  <2>3. LedgerOK(l)
    <3> SUFFICES ASSUME NEW x \in Sound
                 PROVE  /\ \A y \in Leaves : uses[x][y] <= 1
                        /\ l[x] # NoFile => UsedBelow(x, l[x])
                        /\ l[x] = NoFile /\ x \in Natives => UsedBelow(x, 0)
                        /\ l[x] = NoFile /\ pointer[x] # NoFile => UsedBelow(x, pointer[x])
      BY Zenon DEF LedgerOK
    <3>1. x \in Roots
      BY Zenon DEF Sound, Roots
    <3>2. l[x] = ledger[x] \/ (ledger[x] = NoFile /\ l[x] = 0 /\ x \in Natives)
      BY <1>3, <2>2, <3>1, Zenon DEF WalletInv, KeysOK
    <3> QED
      BY <1>1, <3>2, Zenon DEF WalletInv, LedgerOK
  <2> QED
    BY <1>3, <2>2, <2>3, Zenon
<1> QED
  BY <1>2, <1>3, Zenon

LEMMA RefusedStep ==
    ASSUME TypeOK, WalletInv, SignXMSSRefused
    PROVE  TypeOK' /\ WalletInv'
<1>0. partial' \subseteq 1..MaxTx
  BY PartialTyped, Zenon DEF Next
<1> DEFINE r == Input
<1>1. /\ tx # NoTx /\ tx.pc = "sign" /\ Advance(FALSE)
      /\ ledger' = ledger \/ \E l \in LedgersForSigning(r) : ledger' = l
      /\ UNCHANGED <<keys, blob, built, given, txno>> /\ UNCHANGED session /\ UNCHANGED quiet
  BY Zenon DEF SignXMSSRefused, history, quiet
<1>2. /\ tx \in Transaction /\ loaded /\ CanPersist /\ txno \in 1..MaxTx /\ txno \notin sent
      /\ Len(tx.ins) \in 1..MaxInputs /\ tx.i \in 1..Len(tx.ins) /\ r \in Roots /\ keys[r] # NoKey
      /\ \A j \in 1..Len(tx.ins) : tx.ins[j] \in Roots /\ keys[tx.ins[j]] # NoKey
  BY <1>1, InputFacts, KeyFacts, Zenon
<1> HIDE DEF r
<1>3. /\ ledger' \in Ledgers /\ LedgerOK(ledger)'
      /\ \A x \in Roots : ledger'[x] = ledger[x] \/ (ledger[x] = NoFile /\ ledger'[x] = 0)
  <2>1. CASE ledger' = ledger
    BY <1>1, <2>1, LedgerKept, Zenon DEF TypeOK, WalletInv, Ledgers
  <2>2. CASE \E l \in LedgersForSigning(r) : ledger' = l
    <3>1. PICK l \in LedgersForSigning(r) : ledger' = l
      BY <2>2, Zenon
    <3>2. /\ l \in Ledgers /\ LedgerOK(l) /\ \A x \in Roots \ {r} : l[x] = ledger[x]
          /\ l[r] = ledger[r] \/ (ledger[r] = NoFile /\ l[r] = 0 /\ ~keys[r].imported)
      BY <1>2, SigningLedgers, Zenon
    <3>3. LedgerOK(ledger)'
      BY <1>1, <3>1, <3>2, LedgerKept, Zenon
    <3> QED
      BY <3>1, <3>2, <3>3, Zenon
  <2> QED
    BY <1>1, <2>1, <2>2, Zenon
<1>4. /\ tx' \in Transaction /\ tx'.kind = tx.kind /\ tx'.ins = tx.ins
      /\ tx'.ok = (tx.ok /\ FALSE)
      /\ tx'.i \in 1..Len(tx.ins) /\ tx'.pc \in {"leaf", "signed"}
      /\ tx'.pc = "leaf" => tx'.i = tx.i + 1
  <2>1. FALSE \in BOOLEAN
    BY Zenon
  <2> QED
    BY <1>1, <1>2, <2>1, AdvanceMoves, ZenonT(60)
<1>5. ~tx'.ok
  BY <1>4, Zenon
<1>6. TxOK'
  BY <1>1, <1>2, <1>4, <1>5, ZenonT(60) DEF WalletInv, TxOK, CanPersist, Marked, session, quiet
<1>7. AutoOK'
  <2>1. tx.i \in Nat /\ Len(tx.ins) \in Nat
    BY <1>2 DEF Transaction
  <2>2. \A j \in (tx.i + 1)..Len(tx.ins) : j \in tx.i..Len(tx.ins) /\ j \in 1..Len(tx.ins)
    BY <1>2, <2>1
  <2> QED
    BY <1>1, <1>2, <1>3, <1>4, <2>2, Zenon DEF WalletInv, AutoOK, Distinct
<1>8. txno' \in Nat /\ txno <= txno' /\ txno' <= MaxTx
  BY <1>1, <1>2, WalletConstantsOK
<1>9. KeysOK(keys)' /\ DiskOK(blob)'
  BY <1>1, KeysKept, DiskKept, Zenon DEF WalletInv
<1>10. SessionOK'
  BY <1>1, <1>2, Zenon DEF WalletInv, SessionOK, CanPersist, Stored, Held, session
<1> QED
  BY <1>0, <1>1, <1>3, <1>4, <1>6, <1>7, <1>8, <1>9, <1>10, QuietStep, Zenon DEF TypeOK
-----------------------------------------------------------------------------
(* Claims *)

\* A claim at the ledger's position uses a leaf for the first time.
LEMMA ClaimMoves ==
    ASSUME TypeOK, NEW l \in Ledgers, LedgerOK(l), NEW r \in Roots, Claimable(l, r),
           ledger' = [l EXCEPT ![r] = @ + 1], Use(r, l[r]), UNCHANGED pointer
    PROVE  /\ l[r] \in Nat /\ ledger' \in Ledgers /\ uses' \in [Roots -> [Leaves -> Nat]]
           /\ LedgerOK(ledger)' /\ Used(r)' /\ \A x \in Roots : Used(x) => Used(x)'
           /\ \A x \in Roots \ {r} : ledger'[x] = l[x]
<1> DEFINE n == l[r]
<1>1. n \in 0..MaxLeaves /\ n < MaxLeaves /\ n # NoFile
  BY Zenon DEF Claimable, Ledgers
<1>2. MaxLeaves \in Nat
  BY WalletConstantsOK, Zenon
<1>3. n \in Nat /\ n \in Leaves /\ n + 1 \in 0..MaxLeaves /\ n + 1 # NoFile
  BY <1>1, <1>2, AbsentValuesOK DEF Leaves
<1>4. ledger' \in Ledgers /\ ledger'[r] = n + 1 /\ \A x \in Roots \ {r} : ledger'[x] = l[x]
  BY <1>3, Zenon DEF Ledgers
<1>5. uses \in [Roots -> [Leaves -> Nat]]
  BY Zenon DEF TypeOK, Leaves
<1>6. uses' = [uses EXCEPT ![r] = [y \in DOMAIN uses[r] |->
                  IF y = n THEN uses[r][y] + 1 ELSE uses[r][y]]]
  BY Zenon DEF Use
<1> HIDE DEF n
<1>7. DOMAIN uses[r] = Leaves
  BY <1>5, Zenon
<1>8. /\ \A x \in Roots \ {r} : uses'[x] = uses[x]
      /\ uses'[r] = [y \in Leaves |-> IF y = n THEN uses[r][y] + 1 ELSE uses[r][y]]
  BY <1>5, <1>6, <1>7, Zenon
<1>9. \A y \in Leaves : uses'[r][y] = IF y = n THEN uses[r][y] + 1 ELSE uses[r][y]
  BY <1>8, Zenon
<1>10. \A y \in Leaves : uses[r][y] \in Nat
  BY <1>5, Zenon
<1>11. uses' \in [Roots -> [Leaves -> Nat]]
  <2>1. uses'[r] \in [Leaves -> Nat]
    BY <1>8, <1>10
  <2>2. DOMAIN uses' = Roots /\ uses' = [x \in Roots |-> uses'[x]]
    BY <1>5, <1>6, Zenon
  <2> QED
    BY <1>5, <1>8, <2>1, <2>2, Zenon
<1>12. Used(r)'
  <2>1. uses'[r][n] > 0
    BY <1>3, <1>9, <1>10
  <2> QED
    BY <1>3, <2>1, Zenon DEF Used, Leaves
<1>13. \A x \in Roots : Used(x) => Used(x)'
  <2> SUFFICES ASSUME NEW x \in Roots, Used(x), x # r PROVE Used(x)'
    BY <1>12, Zenon
  <2>1. uses'[x] = uses[x]
    BY <1>8, Zenon
  <2> QED
    BY <2>1, Zenon DEF Used, Leaves
<1>14. LedgerOK(ledger)'
  <2>1. ASSUME r \in Sound
        PROVE  \A y \in Leaves : uses'[r][y] = IF y < n + 1 THEN 1 ELSE 0
    <3>1. \A y \in Leaves : uses[r][y] = IF y < n THEN 1 ELSE 0
      BY <1>1, <2>1, Zenon DEF LedgerOK, UsedBelow, n
    <3>2. \A y \in Leaves : y \in Int
      BY SMTT(60) DEF Leaves
    <3> QED
      BY <1>3, <1>9, <3>1, <3>2
  <2> SUFFICES ASSUME NEW x \in Sound
               PROVE  /\ \A y \in Leaves : uses'[x][y] <= 1
                      /\ ledger'[x] # NoFile =>
                           \A y \in Leaves : uses'[x][y] = IF y < ledger'[x] THEN 1 ELSE 0
                      /\ ledger'[x] = NoFile /\ x \in Natives =>
                           \A y \in Leaves : uses'[x][y] = IF y < 0 THEN 1 ELSE 0
                      /\ ledger'[x] = NoFile /\ pointer'[x] # NoFile =>
                           \A y \in Leaves : uses'[x][y] = IF y < pointer'[x] THEN 1 ELSE 0
    BY Zenon DEF LedgerOK, UsedBelow, Sound, Leaves
  <2>2. CASE x = r
    <3>1. \A y \in Leaves : uses'[r][y] <= 1
      BY <2>1, <2>2
    <3> QED
      BY <1>3, <1>4, <2>1, <2>2, <3>1, Zenon
  <2>3. CASE x # r
    <3>1. x \in Roots
      BY Zenon DEF Sound, Roots
    <3>2. uses'[x] = uses[x] /\ ledger'[x] = l[x] /\ pointer'[x] = pointer[x]
      BY <1>4, <1>8, <2>3, <3>1, Zenon
    <3> QED
      BY <3>2 DEF LedgerOK, UsedBelow
  <2> QED
    BY <2>2, <2>3, Zenon
<1> QED
  BY <1>3, <1>4, <1>11, <1>12, <1>13, <1>14, Zenon DEF n

LEMMA MineStep ==
    ASSUME TypeOK, WalletInv, NEW r \in MineTrees, Mine(r)
    PROVE  TypeOK' /\ WalletInv'
<1>0. partial' \subseteq 1..MaxTx
  BY PartialTyped, Zenon DEF Next
<1>1. /\ UNCHANGED <<keys, blob, pointer, tx, built, txno, given, spends, sent>> /\ UNCHANGED session
  BY Zenon DEF Mine
<1>2. PICK l \in IF pointer[r] = NoFile THEN {ledger} ELSE Seeded(ledger, r, pointer[r]) :
         /\ Claimable(l, r)
         /\ ledger' = [l EXCEPT ![r] = @ + 1]
         /\ Use(r, l[r])
  BY Zenon DEF Mine
<1>3. r \in Roots /\ ledger \in Ledgers /\ (pointer[r] = NoFile \/ pointer[r] \in 0..MaxLeaves)
  BY Zenon DEF TypeOK, Ledgers, Roots
<1>4. /\ l \in Ledgers /\ \A x \in Roots \ {r} : l[x] = ledger[x]
      /\ \/ l[r] = ledger[r]
         \/ ledger[r] = NoFile /\ pointer[r] # NoFile /\ l[r] = pointer[r] /\ l[r] # NoFile
  <2>1. CASE pointer[r] = NoFile
    BY <1>2, <1>3, <2>1, Zenon
  <2>2. CASE pointer[r] # NoFile
    <3>1. l \in Seeded(ledger, r, pointer[r]) /\ pointer[r] \in 0..MaxLeaves
      BY <1>2, <1>3, <2>2, Zenon
    <3>2. /\ l \in Ledgers /\ \A x \in Roots \ {r} : l[x] = ledger[x]
          /\ l[r] = ledger[r] \/ (ledger[r] = NoFile /\ l[r] = pointer[r])
      BY <1>3, <3>1, SeedMoves, SMTT(60)
    <3> QED
      BY <2>2, <3>2, Zenon
  <2> QED
    BY <2>1, <2>2, Zenon
<1>5. LedgerOK(l)
  <2> SUFFICES ASSUME NEW x \in Sound
               PROVE  /\ \A y \in Leaves : uses[x][y] <= 1
                      /\ l[x] # NoFile => UsedBelow(x, l[x])
                      /\ l[x] = NoFile /\ x \in Natives => UsedBelow(x, 0)
                      /\ l[x] = NoFile /\ pointer[x] # NoFile => UsedBelow(x, pointer[x])
    BY Zenon DEF LedgerOK
  <2>1. x \in Roots
    BY Zenon DEF Sound, Roots
  <2>2. \/ l[x] = ledger[x]
        \/ ledger[x] = NoFile /\ pointer[x] # NoFile /\ l[x] = pointer[x] /\ l[x] # NoFile
    BY <1>4, <2>1, Zenon
  <2> QED
    BY <2>2, ZenonT(60) DEF WalletInv, LedgerOK
<1>6. /\ ledger' \in Ledgers /\ uses' \in [Roots -> [Leaves -> Nat]]
      /\ LedgerOK(ledger)' /\ (\A x \in Roots : Used(x) => Used(x)')
      /\ \A x \in Roots \ {r} : ledger'[x] = l[x]
  BY <1>1, <1>2, <1>3, <1>4, <1>5, ClaimMoves, Zenon
<1>7. TypeOK'
  BY <1>0, <1>1, <1>6, Zenon DEF TypeOK, Ledgers, Leaves, session
<1>8. \A x : SentNative(x)' <=> SentNative(x)
  BY <1>1, Zenon DEF SentNative
<1>9. KeysOK(keys)' /\ DiskOK(blob)'
  BY <1>1, <1>6, <1>8, ZenonT(60) DEF WalletInv, KeysOK, DiskOK, Sound
<1>10. TxOK'
  BY <1>1, ZenonT(60) DEF WalletInv, TxOK, CanPersist, Marked, session
<1>11. AutoOK'
  <2> SUFFICES ASSUME tx # NoTx, tx.kind = "auto", ~LegacyImports
               PROVE  /\ Distinct(tx.ins)
                      /\ tx.pc \in {"leaf", "sign"} =>
                           \A j \in tx.i..Len(tx.ins) :
                             keys[tx.ins[j]].imported \/ ledger'[tx.ins[j]] \in {0, NoFile}
    BY <1>1, Zenon DEF AutoOK, Distinct
  <2>1. /\ tx.i \in 1..Len(tx.ins)
        /\ \A j \in 1..Len(tx.ins) : tx.ins[j] \in Roots /\ keys[tx.ins[j]] # NoKey
    BY InputFacts, Zenon
  <2>2. Sound = Roots
    BY Zenon DEF Sound
  <2>3. \A j \in tx.i..Len(tx.ins) : j \in 1..Len(tx.ins)
    BY <2>1
  <2>4. \A x \in Roots : keys[x] # NoKey /\ ~keys[x].imported => x # r
    BY <2>2, WalletConstantsOK, Zenon DEF WalletInv, KeysOK
  <2>5. \A x \in Roots : x # r => ledger'[x] = ledger[x]
    BY <1>4, <1>6, Zenon
  <2> QED
    BY <2>1, <2>3, <2>4, <2>5, ZenonT(60) DEF WalletInv, AutoOK
<1>12. SpendsOK' /\ SessionOK'
  BY <1>1, Zenon DEF WalletInv, SpendsOK, SessionOK, CanPersist, Stored, Held, session
<1> QED
  BY <1>6, <1>7, <1>9, <1>10, <1>11, <1>12, Zenon DEF WalletInv
\* SignXMSS retires a native key and leaves the others as they are.
LEMMA RetireMoves ==
    ASSUME TypeOK, NEW r \in Roots, keys[r] \in Entry, NEW native \in BOOLEAN,
           keys' = [keys EXCEPT ![r].retired = @ \/ native]
    PROVE  /\ keys' \in KeyMap /\ \A x \in Roots \ {r} : keys'[x] = keys[x]
           /\ keys'[r] \in Entry /\ keys'[r] # NoKey /\ keys'[r].imported = keys[r].imported
           /\ keys[r].retired \/ native => keys'[r].retired
<1> DEFINE e == keys[r]
           ret == e.retired \/ native
<1>1. e.imported \in BOOLEAN /\ ret \in BOOLEAN
  BY KeyFacts, Zenon
<1>2. keys \in [Roots -> Entry \cup {NoKey}]
  BY Zenon DEF TypeOK, KeyMap
<1>3. /\ keys'[r] = [e EXCEPT !.retired = ret] /\ \A x \in Roots \ {r} : keys'[x] = keys[x]
      /\ DOMAIN keys' = Roots /\ keys' = [x \in Roots |-> keys'[x]]
  BY <1>2, Zenon
<1> HIDE DEF ret
<1>4. [e EXCEPT !.retired = ret] = [retired |-> ret, imported |-> e.imported]
  BY DEF Entry
<1> HIDE DEF e
<1>5. keys'[r] = [retired |-> ret, imported |-> e.imported]
  BY <1>3, <1>4, Zenon
<1>6. keys'[r] \in Entry
  BY <1>1, <1>5 DEF Entry
<1>7. keys'[r].retired = ret /\ keys'[r].imported = e.imported
  BY <1>5
<1>8. keys[r].retired \/ native => keys'[r].retired
  BY <1>7, Zenon DEF ret, e
<1>9. keys' \in KeyMap
  BY <1>2, <1>3, <1>6, Zenon DEF KeyMap
<1> QED
  BY <1>3, <1>6, <1>7, <1>8, <1>9, KeyFacts, Zenon DEF e

LEMMA SignStep ==
    ASSUME TypeOK, WalletInv, SignXMSS
    PROVE  TypeOK' /\ WalletInv'
<1>0. partial' \subseteq 1..MaxTx
  BY PartialTyped, Zenon DEF Next
<1>1. /\ tx # NoTx /\ tx.pc = "sign"
      /\ UNCHANGED <<blob, pointer, built, txno, given, sent>> /\ UNCHANGED session
  BY Zenon DEF SignXMSS
<1> PICK r \in Roots : r = Input
  BY <1>1, InputFacts, Zenon
<1> DEFINE native == ~keys[r].imported
<1>2. /\ tx \in Transaction /\ loaded /\ CanPersist /\ txno \in 1..MaxTx /\ txno \notin sent
      /\ Len(tx.ins) \in 1..MaxInputs /\ tx.i \in 1..Len(tx.ins)
      /\ \A j \in 1..Len(tx.ins) : tx.ins[j] \in Roots /\ keys[tx.ins[j]] # NoKey
      /\ r \in Roots /\ keys[r] \in Entry
  BY <1>1, InputFacts, Zenon
<1>3. PICK l \in LedgersForSigning(r) :
             /\ Claimable(l, r)
             /\ ledger' = [l EXCEPT ![r] = @ + 1]
             /\ Use(r, l[r])
             /\ keys' = [keys EXCEPT ![r].retired = @ \/ native]
             /\ spends' = spends \cup {[tx |-> txno, i |-> tx.i, root |-> r, leaf |-> l[r],
                                        pre |-> tx.pre, kind |-> tx.kind, native |-> native]}
             /\ Advance(VerifyScript(l[r], tx.pre))
  BY Zenon DEF SignXMSS
<1> DEFINE n == l[r]
           good == VerifyScript(n, tx.pre)
           new == [tx |-> txno, i |-> tx.i, root |-> r, leaf |-> n,
                   pre |-> tx.pre, kind |-> tx.kind, native |-> native]
<1>4. keys[r] # NoKey /\ native \in BOOLEAN /\ good \in BOOLEAN /\ r = tx.ins[tx.i]
  BY <1>2, KeyFacts, Zenon DEF Input, VerifyScript
<1>5. /\ l \in Ledgers /\ LedgerOK(l) /\ \A x \in Roots \ {r} : l[x] = ledger[x]
      /\ l[r] = ledger[r] \/ (ledger[r] = NoFile /\ l[r] = 0 /\ ~keys[r].imported)
  BY <1>2, <1>4, SigningLedgers, Zenon
<1>6. /\ n \in Nat /\ ledger' \in Ledgers /\ uses' \in [Roots -> [Leaves -> Nat]]
      /\ LedgerOK(ledger)' /\ Used(r)' /\ (\A x \in Roots : Used(x) => Used(x)')
      /\ \A x \in Roots \ {r} : ledger'[x] = l[x]
  BY <1>1, <1>2, <1>3, <1>5, ClaimMoves, Zenon
<1>7. /\ keys' \in KeyMap /\ (\A x \in Roots \ {r} : keys'[x] = keys[x])
      /\ keys'[r] \in Entry /\ keys'[r] # NoKey /\ keys'[r].imported = keys[r].imported
      /\ (keys[r].retired \/ native => keys'[r].retired)
  BY <1>2, <1>3, <1>4, RetireMoves, Zenon
<1>27. keys'[r].imported <=> keys[r].imported
  BY <1>7, ZenonT(60)
<1>8. /\ tx' \in Transaction /\ tx'.kind = tx.kind /\ tx'.ins = tx.ins
      /\ tx'.ok = (tx.ok /\ good)
      /\ tx'.i \in 1..Len(tx.ins) /\ tx'.pc \in {"leaf", "signed"}
      /\ (tx'.pc = "leaf" => tx'.i = tx.i + 1)
  BY <1>2, <1>3, <1>4, AdvanceMoves, Zenon
<1>9. good <=> n = tx.pre
  BY Zenon DEF VerifyScript
<1>10. tx'.ok => tx.ok /\ n = tx.pre
  BY <1>8, <1>9, Zenon
<1>11. native <=> ~keys[r].imported
  BY Zenon
<1>12. /\ new.tx = txno /\ new.root = r /\ new.leaf = n /\ new.pre = tx.pre /\ new.kind = tx.kind
       /\ new.native = native
  BY Zenon
<1>13. new \in Spend
  <2>1. tx.i \in 1..MaxInputs
    BY <1>2, WalletConstantsOK
  <2>2. tx.pre \in Nat /\ tx.kind \in Kinds
    BY <1>2, Zenon DEF Transaction
  <2> QED
    BY <1>2, <1>4, <1>6, <2>1, <2>2, ZenonT(60) DEF Spend
<1>14. spends' = spends \cup {new} /\ (new.native <=> ~keys[r].imported)
  BY <1>3, <1>12, Zenon
<1>15. n # NoFile
  BY <1>3, Zenon DEF Claimable
<1> HIDE DEF good, new, native, n
<1>16. TypeOK'
  <2>1. spends' \subseteq Spend
    BY <1>13, <1>14, Zenon DEF TypeOK
  <2> QED
    BY <1>0, <1>1, <1>6, <1>7, <1>8, <2>1, Zenon DEF TypeOK, Ledgers, Leaves, session
<1>17. \A x : SentNative(x)' <=> SentNative(x)
  BY <1>1, <1>2, <1>12, <1>14, Zenon DEF SentNative
<1>18. KeysOK(keys)'
  <2> SUFFICES ASSUME NEW x \in Roots, keys'[x] # NoKey
               PROVE  /\ x \in built' \cup MineTrees
                      /\ x \in Sound /\ ~keys'[x].imported => x \in Natives
                      /\ keys'[x].retired => Used(x)'
                      /\ SentNative(x)' => keys'[x].retired \/ keys'[x].imported
    BY Zenon DEF KeysOK, Sound
  <2>1. CASE x = r
    BY <1>1, <1>4, <1>6, <1>7, <1>17, <1>27, <2>1, ZenonT(60) DEF WalletInv, KeysOK
  <2>2. CASE x # r
    <3>1. keys'[x] = keys[x]
      BY <1>7, <2>2, Zenon
    <3> QED
      BY <1>1, <1>6, <1>17, <3>1, ZenonT(60) DEF WalletInv, KeysOK
  <2> QED
    BY <2>1, <2>2, Zenon
<1>19. DiskOK(blob)'
  <2>1. \A s \in spends' : s.tx \in sent' => s \in spends
    BY <1>1, <1>2, <1>12, <1>14, Zenon
  <2>2. DiskOK(blob)
    BY Zenon DEF WalletInv
  <2> QED
    BY <1>1, <1>6, <1>17, <2>1, <2>2, ZenonT(60) DEF DiskOK, KeysOK, Sound
<1>20. \A x \in Roots : Marked(keys[x]) => Marked(keys'[x])
  <2> SUFFICES ASSUME NEW x \in Roots, Marked(keys[x]) PROVE Marked(keys'[x])
    BY Zenon
  <2>1. CASE x = r
    <3>1. keys[r].retired \/ keys[r].imported
      BY <1>4, <2>1, Zenon DEF Marked
    <3>2. keys'[r].retired \/ keys'[r].imported
      BY <1>7, <1>27, <3>1, Zenon
    <3> QED
      BY <1>7, <2>1, <3>2, Zenon DEF Marked
  <2>2. CASE x # r
    BY <1>7, <2>2, Zenon
  <2> QED
    BY <2>1, <2>2, Zenon
<1>21. TxOK'
  <2>1. ASSUME NEW s \in spends', s.tx = txno
        PROVE  (tx'.ok => s.leaf = s.pre) /\ (s.native => Marked(keys'[s.root]))
    <3>1. CASE s \in spends
      <4>1. s.root \in Roots
        BY <3>1, Zenon DEF TypeOK, Spend
      <4> QED
        BY <1>1, <1>10, <1>20, <2>1, <3>1, <4>1, ZenonT(60) DEF WalletInv, TxOK
    <3>2. CASE s = new
      <4>1. new.native => Marked(keys'[r])
        BY <1>7, <1>11, <1>14, Zenon DEF Marked
      <4> QED
        BY <1>10, <1>12, <3>2, <4>1, ZenonT(60)
    <3> QED
      BY <1>14, <2>1, <3>1, <3>2, Zenon
  <2>2. \A j \in 1..Len(tx.ins) : keys'[tx.ins[j]] # NoKey
    BY <1>2, <1>7, ZenonT(60)
  <2>3. loaded' /\ CanPersist' /\ txno' \in 1..MaxTx /\ txno' \notin sent' /\ txno' = txno
    BY <1>1, <1>2, ZenonT(60) DEF session, CanPersist
  <2> QED
    BY <1>2, <1>8, <2>1, <2>2, <2>3, ZenonT(60) DEF TxOK, Marked
<1>22. ASSUME tx.kind = "auto", ~LegacyImports
       PROVE  Distinct(tx.ins) /\ \A j \in tx.i..Len(tx.ins) :
                 keys[tx.ins[j]].imported \/ ledger[tx.ins[j]] \in {0, NoFile}
  BY <1>1, <1>22, Zenon DEF WalletInv, AutoOK
<1>23. tx.i \in Nat /\ Len(tx.ins) \in Nat /\ tx.i \in tx.i..Len(tx.ins)
  BY <1>2, SMTT(60) DEF Transaction
<1>24. AutoOK'
  <2> SUFFICES ASSUME tx.kind = "auto", ~LegacyImports
               PROVE  /\ Distinct(tx.ins)
                      /\ tx'.pc = "leaf" => \A j \in tx'.i..Len(tx.ins) :
                             keys'[tx.ins[j]].imported \/ ledger'[tx.ins[j]] \in {0, NoFile}
    BY <1>8, Zenon DEF AutoOK, Distinct
  <2>1. DOMAIN tx.ins = 1..Len(tx.ins)
    BY <1>2, SMTT(60) DEF Transaction
  <2>2. ASSUME NEW j \in (tx.i + 1)..Len(tx.ins)
        PROVE  keys'[tx.ins[j]].imported \/ ledger'[tx.ins[j]] \in {0, NoFile}
    <3>1. j \in tx.i..Len(tx.ins) /\ j \in 1..Len(tx.ins) /\ j # tx.i
      BY <1>2, <1>23, SMTT(60)
    <3>2. tx.ins[j] # r /\ tx.ins[j] \in Roots
      BY <1>2, <1>4, <1>22, <2>1, <3>1, ZenonT(60) DEF Distinct
    <3> QED
      BY <1>5, <1>6, <1>7, <1>22, <3>1, <3>2, ZenonT(60)
  <2> QED
    BY <1>8, <1>22, <2>2, Zenon
<1>25. SpendsOK'
  <2>1. new.kind = "auto" /\ new.native /\ ~LegacyImports => new.leaf = 0
    <3> SUFFICES ASSUME tx.kind = "auto", ~keys[r].imported, ~LegacyImports PROVE n = 0
      BY <1>12, <1>14, Zenon
    <3>1. ledger[r] \in {0, NoFile}
      BY <1>4, <1>22, <1>23, Zenon
    <3> QED
      BY <1>5, <1>15, <3>1, Zenon DEF n
  <2>2. r \in built \cup MineTrees
    BY <1>2, <1>4, Zenon DEF WalletInv, KeysOK
  <2>3. txno \in Nat /\ txno <= txno
    BY <1>2, SMTT(60)
  <2> QED
    BY <1>1, <1>2, <1>12, <1>14, <2>1, <2>2, <2>3, ZenonT(60) DEF WalletInv, SpendsOK
<1>26. SessionOK'
  <2>1. Held(keys)' = Held(keys)
    BY <1>4, <1>7, Zenon DEF Held
  <2> QED
    BY <1>1, <1>2, <2>1, ZenonT(60) DEF WalletInv, SessionOK, CanPersist, Stored, Held, session
<1> QED
  BY <1>6, <1>16, <1>18, <1>19, <1>21, <1>24, <1>25, <1>26, Zenon DEF WalletInv
-----------------------------------------------------------------------------
(* The end of a transaction *)

LEMMA ReturnsStep ==
    ASSUME TypeOK, WalletInv, SignTransactionReturns
    PROVE  TypeOK' /\ WalletInv'
<1>0. partial' \subseteq 1..MaxTx
  BY PartialTyped, Zenon DEF Next
<1>1. /\ tx # NoTx /\ tx.pc = "signed" /\ UNCHANGED <<txno, given>>
      /\ UNCHANGED session /\ UNCHANGED quiet
  BY Zenon DEF SignTransactionReturns, history, quiet
<1>2. /\ tx \in Transaction /\ loaded /\ CanPersist /\ txno \in 1..MaxTx /\ txno \notin sent
      /\ Len(tx.ins) \in 1..MaxInputs /\ tx.i \in 1..Len(tx.ins)
      /\ \A j \in 1..Len(tx.ins) : tx.ins[j] \in Roots /\ keys[tx.ins[j]] # NoKey
  BY <1>1, InputFacts, ZenonT(60)
<1>3. txno' \in Nat /\ txno <= txno' /\ txno' <= MaxTx
  BY <1>1, <1>2, WalletConstantsOK, SMTT(60)
<1>4. CASE ~tx.ok
  <2>1. tx' = NoTx /\ UNCHANGED <<keys, ledger, blob, built, given>>
    BY <1>1, <1>4, Zenon DEF SignTransactionReturns
  <2>2. TxOK' /\ AutoOK'
    BY <2>1, ZenonT(60) DEF TxOK, AutoOK
  <2> QED
    BY <1>0, <1>1, <1>2, <1>3, <2>1, <2>2, SameStep, QuietStep, Zenon
<1>5. CASE tx.ok
  <2>1. EnsureXMSSKeyAvailable(keys, ledger, PersistXMSSState(keys)) /\ tx' = [tx EXCEPT !.pc = "ready"]
    BY <1>5, Zenon DEF SignTransactionReturns
  <2>2. /\ tx' \in Transaction /\ tx'.kind = tx.kind /\ tx'.ins = tx.ins /\ tx'.i = tx.i
        /\ tx'.ok = tx.ok /\ tx'.pc = "ready"
    BY <1>2, <2>1, Zenon DEF Transaction
  <2>3. tx'.ok
    BY <1>5, <2>2, Zenon
  <2>4. /\ keys' \in KeyMap /\ ledger' \in Ledgers /\ (blob' = NoBlob \/ blob' \in State)
        /\ built \subseteq built' /\ built' \subseteq Natives /\ given' \subseteq Natives
        /\ KeysOK(keys)' /\ DiskOK(blob)' /\ LedgerOK(ledger)' /\ SessionOK'
        /\ blob' = PersistXMSSState(keys')
        /\ \A x \in built \cup MineTrees : keys'[x] = keys[x]
    <3>1. keys \in KeyMap /\ ledger \in Ledgers
      BY Zenon DEF TypeOK, Ledgers
    <3>2. CASE keys' = keys /\ ledger' = ledger /\ blob' = PersistXMSSState(keys) /\ built' = built
      <4>1. blob' = PersistXMSSState(keys')
        BY <3>2, Zenon
      <4>2. KeysOK(keys)' /\ LedgerOK(ledger)' /\ DiskOK(blob) /\ SessionOK
        BY <1>1, <3>2, KeysKept, LedgerKept, Zenon DEF WalletInv
      <4>3. (blob' = NoBlob \/ blob' \in State) /\ DiskOK(blob)'
        BY <1>1, <3>1, <3>2, <4>1, <4>2, Saved, Zenon
      <4>4. Stored \subseteq Held(keys)' /\ given' = given /\ loaded' /\ UNCHANGED <<crypted, unlocked>>
        BY <1>1, <1>2, <3>2, <4>2, Zenon DEF SessionOK, Held, session
      <4>5. SessionOK'
        BY <1>1, <3>1, <3>2, <4>1, <4>2, <4>4, SaveSession, Zenon
      <4> QED
        BY <1>1, <3>1, <3>2, <4>1, <4>2, <4>3, <4>5, Zenon DEF TypeOK
    <3>3. CASE \E r : Adds(keys, ledger, r) /\ blob' = PersistXMSSState(keys')
      <4>1. PICK r : Adds(keys, ledger, r) /\ blob' = PersistXMSSState(keys')
        BY <3>3, Zenon
      <4>2. given' \subseteq given \cup {r} /\ UNCHANGED <<crypted, unlocked, loaded>>
        BY <1>1, Zenon DEF session
      <4>3. \A x \in built \cup MineTrees : x \in Roots /\ x # r
        BY <4>1, WalletConstantsOK, Zenon DEF Adds, TypeOK, Roots
      <4>4. \A x \in built \cup MineTrees : keys'[x] = keys[x]
        BY <4>1, <4>3, Zenon DEF Adds
      <4> QED
        BY <1>1, <1>2, <4>1, <4>2, <4>4, GenerateStep, Zenon
    <3> QED
      BY <2>1, <3>1, <3>2, <3>3, EnsureMoves, Zenon
  <2>5. blob' # NoBlob /\ blob'.ver = 3 /\ blob'.keys = keys'
    <3>1. DiskOK(blob)
      BY Zenon DEF WalletInv
    <3> QED
      BY <1>1, <1>2, <2>4, <3>1, Saved, Zenon
  <2>6. TxOK'
    <3>1. \A s \in spends : s.tx = txno =>
             (tx.ok => s.leaf = s.pre) /\ (s.native => Marked(keys[s.root]))
      BY <1>1, Zenon DEF WalletInv, TxOK
    <3>2. \A s \in spends : keys'[s.root] = keys[s.root]
      BY <2>4, Zenon DEF WalletInv, SpendsOK
    <3>3. \A j \in 1..Len(tx.ins) : keys'[tx.ins[j]] # NoKey
      BY <1>2, <2>4, Zenon DEF WalletInv, KeysOK
    <3>4. loaded' /\ CanPersist' /\ txno' = txno /\ spends' = spends /\ sent' = sent
      BY <1>1, <1>2, Zenon DEF session, CanPersist, quiet
    <3>5. \A s \in spends : s.tx = txno /\ s.native => Marked(keys'[s.root]) /\ Marked(blob'.keys[s.root])
      BY <2>5, <3>1, <3>2, Zenon
    <3> QED
      BY <1>2, <1>5, <2>2, <2>3, <2>5, <3>1, <3>3, <3>4, <3>5, ZenonT(60) DEF TxOK, Marked
  <2>7. AutoOK'
    BY <1>1, <2>2, Zenon DEF WalletInv, AutoOK, Distinct
  <2> QED
    BY <1>0, <1>1, <1>3, <2>2, <2>4, <2>6, <2>7, QuietStep, Zenon
<1> QED
  BY <1>4, <1>5, Zenon

LEMMA CommitStep ==
    ASSUME TypeOK, WalletInv, CommitTransaction
    PROVE  TypeOK' /\ WalletInv'
<1>0. partial' \subseteq 1..MaxTx
  BY PartialTyped, Zenon DEF Next
<1>1. /\ tx # NoTx /\ tx.pc = "ready" /\ tx' = NoTx
      /\ sent' = sent \cup {txno} \/ sent' = sent
      /\ blob' = blob \/ blob' = PersistXMSSState(keys)
      /\ UNCHANGED <<keys, ledger, pointer, built, txno, given, uses, spends>> /\ UNCHANGED session
  BY Zenon DEF CommitTransaction
<1>2. /\ tx \in Transaction /\ loaded /\ CanPersist /\ txno \in 1..MaxTx /\ txno \notin sent
  BY <1>1, InputFacts, Zenon
<1>3. \A s \in spends : s.tx = txno =>
        /\ s.leaf = s.pre
        /\ s.native => Marked(keys[s.root]) /\ blob # NoBlob /\ blob.ver = 3 /\ Marked(blob.keys[s.root])
  BY <1>1, Zenon DEF WalletInv, TxOK
<1>4. \A r : Used(r)' <=> Used(r)
  BY <1>1, Zenon DEF Used
<1>5. \A r : SentNative(r)' => \/ SentNative(r)
                               \/ \E s \in spends : s.tx = txno /\ s.native /\ s.root = r
  BY <1>1, Zenon DEF SentNative
<1>6. KeysOK(keys)'
  <2>1. KeysOK(keys)
    BY Zenon DEF WalletInv
  <2>2. ASSUME NEW r \in Roots, keys[r] # NoKey, SentNative(r)'
        PROVE  keys[r].retired \/ keys[r].imported
    <3>1. CASE SentNative(r)
      BY <2>1, <2>2, <3>1, Zenon DEF KeysOK
    <3>2. CASE \E s \in spends : s.tx = txno /\ s.native /\ s.root = r
      <4>1. Marked(keys[r])
        BY <1>3, <3>2, Zenon
      <4> QED
        BY <2>2, <4>1, Zenon DEF Marked
    <3> QED
      BY <1>5, <2>2, <3>1, <3>2, Zenon
  <2> QED
    BY <1>1, <1>4, <2>1, <2>2, Zenon DEF KeysOK
<1>7. SaveState(keys) \in State /\ SaveState(keys) # NoBlob /\ SaveState(keys).ver = 3
      /\ SaveState(keys).keys = keys /\ SaveState(keys).enc = crypted
  BY SaveMoves, Zenon DEF TypeOK
<1>8. TxOK' /\ AutoOK'
  BY <1>1, Zenon DEF TxOK, AutoOK
<1>9. LedgerOK(ledger)'
  BY <1>1, Zenon DEF WalletInv, LedgerOK, UsedBelow
<1>10. SpendsOK'
  <2>1. SpendsOK
    BY Zenon DEF WalletInv
  <2>2. sent' \subseteq 1..txno'
    <3>1. txno \in 1..txno
      BY <1>2
    <3> QED
      BY <1>1, <2>1, <3>1, Zenon DEF SpendsOK
  <2> QED
    BY <1>1, <1>3, <2>1, <2>2, Zenon DEF SpendsOK
<1>11. ASSUME blob' = NoBlob \/ blob' \in State
       PROVE  TypeOK'
  <2>1. sent' \subseteq 1..MaxTx
    BY <1>1, <1>2, Zenon DEF TypeOK
  <2> QED
    BY <1>0, <1>1, <1>11, <2>1, Zenon DEF TypeOK, session
<1>12. CASE blob' = blob
  <2>1. DiskOK(blob)'
    <3>1. DiskOK(blob)
      BY DEF WalletInv
    <3>2. CASE blob = NoBlob
      BY <1>1, <1>3, <1>12, <3>1, <3>2, ZenonT(60) DEF DiskOK
    <3>3. CASE blob # NoBlob
      <4>1. (blob.ver = 2 => ~(blob.ver = 3))
        OBVIOUS
      <4>2. blob.ver = 2 => \A s \in spends : ~(s.tx \in sent' /\ s.native)
        BY <1>1, <1>3, <3>1, <3>3, <4>1, Zenon DEF DiskOK
      <4>3. KeysOK(blob.keys)'
        <5>1. KeysOK(blob.keys)
          BY <3>1, <3>3, Zenon DEF DiskOK
        <5>2. ASSUME NEW r \in Roots, blob.keys[r] # NoKey, SentNative(r)'
              PROVE  blob.keys[r].retired \/ blob.keys[r].imported
          <6>1. CASE SentNative(r)
            BY <5>1, <5>2, <6>1, Zenon DEF KeysOK
          <6>2. CASE \E s \in spends : s.tx = txno /\ s.native /\ s.root = r
            <7>1. Marked(blob.keys[r])
              BY <1>3, <6>2, Zenon
            <7> QED
              BY <5>2, <7>1, Zenon DEF Marked
          <6> QED
            BY <1>5, <5>2, <6>1, <6>2, Zenon
        <5> QED
          BY <1>1, <1>4, <1>12, <5>1, <5>2, Zenon DEF KeysOK
      <4> QED
        BY <1>1, <1>12, <3>1, <3>3, <4>2, <4>3, Zenon DEF DiskOK, Sound
    <3> QED
      BY <3>2, <3>3, Zenon
  <2>2. SessionOK'
    BY <1>1, <1>2, <1>12, ZenonT(60) DEF WalletInv, SessionOK, CanPersist, Stored, Held, session
  <2> QED
    BY <1>6, <1>12, <1>8, <1>9, <1>10, <1>11, <2>1, <2>2, Zenon DEF TypeOK, WalletInv
<1>13. CASE blob' = SaveState(keys)
  <2>1. DiskOK(blob)'
    BY <1>1, <1>6, <1>7, <1>13, DiskSaved, Zenon
  <2>2. ~crypted' => ~blob'.enc
    BY <1>1, <1>7, <1>13, Zenon DEF session
  <2>3. Stored' = Held(keys)
    BY <1>7, <1>13, Zenon DEF Stored, Held
  <2>4. SessionOK'
    BY <1>1, <1>2, <1>7, <1>13, <2>2, <2>3, Zenon DEF WalletInv, SessionOK, CanPersist, Held, session
  <2> QED
    BY <1>6, <1>7, <1>13, <1>8, <1>9, <1>10, <1>11, <2>1, <2>4, Zenon DEF WalletInv
<1> QED
  BY <1>1, <1>2, <1>12, <1>13, Zenon DEF PersistXMSSState
-----------------------------------------------------------------------------
(* All steps *)

LEMMA WalletStep == TypeOK /\ WalletInv /\ [Next]_vars => TypeOK' /\ WalletInv'
<1> SUFFICES ASSUME TypeOK, WalletInv, [Next]_vars PROVE TypeOK' /\ WalletInv'
  BY Zenon
<1>1. CASE UNCHANGED vars
  <2>1. /\ UNCHANGED <<keys, blob, ledger, tx, txno, built, given, partial>>
        /\ UNCHANGED quiet /\ UNCHANGED session
    BY <1>1, Zenon DEF vars, quiet
  <2>2. KeysOK(keys)' /\ DiskOK(blob)' /\ LedgerOK(ledger)'
    BY <2>1, KeysKept, DiskKept, LedgerKept, Zenon DEF WalletInv
  <2>3. TypeOK'
    BY <2>1, Zenon DEF TypeOK, quiet, session
  <2>4. TxOK' /\ AutoOK' /\ SpendsOK'
    BY <2>1, ZenonT(60) DEF WalletInv, TxOK, AutoOK, SpendsOK, CanPersist, Marked, Distinct, quiet, session
  <2>5. SessionOK'
    BY <2>1, Zenon DEF WalletInv, SessionOK, CanPersist, Stored, Held, quiet, session
  <2> QED
    BY <2>2, <2>3, <2>4, <2>5, Zenon DEF WalletInv
<1>2. CASE Next
  BY <1>2, CreateStep, CrashStep, LockStep, UnlockStep, GetNewStep, ImportStep, SendStep, SignRawStep,
     GetIndexStep, RefusedStep, SignStep, ReturnsStep, CommitStep, MineStep, Zenon DEF Next
<1> QED
  BY <1>1, <1>2, Zenon

LEMMA WalletInit == Init => TypeOK /\ WalletInv
<1> SUFFICES ASSUME Init PROVE TypeOK /\ WalletInv
  BY Zenon
<1>1. /\ keys = [r \in Roots |-> NoKey] /\ ~crypted /\ ~unlocked /\ ~loaded
      /\ crypted = FALSE /\ unlocked = FALSE /\ loaded = FALSE
      /\ tx = NoTx /\ txno = 0 /\ given = built /\ spends = {} /\ sent = {}
      /\ partial = {}
  BY Zenon DEF Init
<1>2. PICK origin \in [MineTrees -> Origin] :
        /\ ledger = [r \in Roots |-> IF r \in MineTrees /\ origin[r].kind = "ledger"
                                     THEN origin[r].next ELSE NoFile]
        /\ pointer = [r \in Roots |-> IF r \in MineTrees /\ origin[r].kind = "pointer"
                                      THEN origin[r].next ELSE NoFile]
        /\ uses = [r \in Roots |-> [l \in Leaves |->
                     IF r \in MineTrees /\ l < origin[r].next THEN 1 ELSE 0]]
  BY Zenon DEF Init, Leaves
<1>3. \A r \in MineTrees : origin[r].next \in 0..MaxLeaves
  BY Zenon DEF Origin
<1>4. /\ ledger \in Ledgers /\ pointer \in Ledgers
      /\ \A r \in Roots : ledger[r] # NoFile => r \in MineTrees /\ ledger[r] = origin[r].next
      /\ \A r \in Roots : pointer[r] # NoFile => r \in MineTrees /\ pointer[r] = origin[r].next
  BY <1>2, <1>3, Zenon DEF Ledgers
<1>5. /\ uses \in [Roots -> [Leaves -> Nat]]
      /\ \A r \in Roots : \A l \in Leaves :
           uses[r][l] = IF r \in MineTrees /\ l < origin[r].next THEN 1 ELSE 0
  BY <1>2, Zenon
<1>6. LedgerOK(ledger)
  <2> SUFFICES ASSUME NEW r \in Sound
               PROVE  /\ \A y \in Leaves : uses[r][y] <= 1
                      /\ ledger[r] # NoFile => UsedBelow(r, ledger[r])
                      /\ ledger[r] = NoFile /\ r \in Natives => UsedBelow(r, 0)
                      /\ ledger[r] = NoFile /\ pointer[r] # NoFile => UsedBelow(r, pointer[r])
    BY Zenon DEF LedgerOK
  <2>1. r \in Roots
    BY Zenon DEF Sound, Roots
  <2>2. \A y \in Leaves : uses[r][y] <= 1 /\ ~(y < 0)
    BY <1>5, <2>1, WalletConstantsOK DEF Leaves
  <2>3. r \in Natives => r \notin MineTrees
    BY WalletConstantsOK, Zenon
  <2> QED
    BY <1>4, <1>5, <2>1, <2>2, <2>3, Zenon DEF UsedBelow
<1>7. KeysOK(keys) /\ keys \in KeyMap
  BY <1>1, Zenon DEF KeysOK, KeyMap
<1>8. /\ blob = NoBlob \/ (blob \in State /\ ~blob.enc)
      /\ built \subseteq Natives /\ DiskOK(blob) /\ built \subseteq Stored
  <2>1. CASE blob = NoBlob /\ built = {}
    BY <1>1, <2>1, Zenon DEF DiskOK
  <2>2. CASE \E S \in SUBSET IF LegacyImports THEN Roots ELSE Natives :
                /\ Cardinality(S) = 1
                /\ blob = [ver |-> 2, enc |-> FALSE,
                           keys |-> [r \in Roots |-> IF r \in S THEN NewKey ELSE NoKey]]
                /\ built = S \cap Natives
    <3>1. PICK S \in SUBSET IF LegacyImports THEN Roots ELSE Natives :
                /\ blob = [ver |-> 2, enc |-> FALSE,
                           keys |-> [r \in Roots |-> IF r \in S THEN NewKey ELSE NoKey]]
                /\ built = S \cap Natives
      BY <2>2, Zenon
    <3> DEFINE k == [r \in Roots |-> IF r \in S THEN NewKey ELSE NoKey]
    <3>2. k \in KeyMap /\ \A r \in Roots : k[r] = IF r \in S THEN NewKey ELSE NoKey
      BY KeyFacts, Zenon DEF KeyMap
    <3>3. blob = [ver |-> 2, enc |-> FALSE, keys |-> k]
      BY <3>1, Zenon
    <3> HIDE DEF k
    <3>4. FALSE \in BOOLEAN /\ 2 \in {2, 3}
      BY Zenon
    <3>5. blob \in State
      BY <3>2, <3>3, <3>4, Zenon DEF State
    <3>6. ~blob.enc /\ blob.ver = 2 /\ blob.keys = k /\ blob # NoBlob
      <4>1. ~blob.enc
        BY <3>3, Zenon
      <4> QED
        BY <3>3, <3>5, <4>1, AbsentValuesOK, Zenon
    <3>7. S \subseteq Roots /\ (\A r \in S : r \in Sound => r \in Natives)
      BY <3>1, Zenon DEF Sound, Roots
    <3>8. KeysOK(k)
      <4>1. \A r : ~SentNative(r)
        BY <1>1, Zenon DEF SentNative
      <4>2. \A r \in Roots : k[r] # NoKey => r \in S /\ ~k[r].retired
        BY <3>2, KeyFacts, Zenon
      <4> QED
        BY <3>1, <3>7, <4>1, <4>2, Zenon DEF KeysOK, Roots
    <3>9. DiskOK(blob)
      <4>1. \A r \in MineTrees \cap Sound : k[r] = NoKey
        BY <3>2, <3>7, WalletConstantsOK, Zenon DEF Roots
      <4> QED
        BY <1>1, <3>6, <3>8, <4>1, Zenon DEF DiskOK
    <3>10. built \subseteq Stored
      BY <3>1, <3>2, <3>6, <3>7, KeyFacts, Zenon DEF Stored, Held
    <3> QED
      BY <3>1, <3>5, <3>6, <3>9, <3>10, Zenon
  <2> QED
    BY <2>1, <2>2, Zenon DEF Init
<1>9. TypeOK
  <2>1. FALSE \in BOOLEAN /\ 0 \in 0..MaxTx
    BY WalletConstantsOK
  <2> QED
    BY <1>1, <1>4, <1>5, <1>7, <1>8, <2>1, Zenon DEF TypeOK, Ledgers, Leaves
<1>10. TxOK /\ AutoOK /\ SpendsOK
  BY <1>1, Zenon DEF TxOK, AutoOK, SpendsOK
<1>11. SessionOK
  <2>1. \A r \in Roots : keys[r] = NoKey
    BY <1>1, Zenon
  <2> QED
    BY <1>1, <1>8, <2>1, AbsentValuesOK, Zenon DEF SessionOK
<1> QED
  BY <1>6, <1>7, <1>8, <1>9, <1>10, <1>11, Zenon DEF WalletInv

-----------------------------------------------------------------------------
(* Theorems *)

\* What the wallet's keys, its blob, the ledgers and the transaction being
\* signed keep true of each other.
THEOREM WalletInvariance == Spec => [](TypeOK /\ WalletInv)
BY WalletInit, WalletStep, PTL DEF Spec

\* No leaf of any tree signs twice: SignXMSS, the seeding of ledgers at load
\* and at signing, importxmsskey and the miner never meet at one leaf, if no
\* v2 blob holds a key of the miner.
THEOREM WalletLeafSafety ==
    ASSUME ~LegacyImports
    PROVE  Spec => []NoLeafReuse
<1>1. TypeOK /\ WalletInv => NoLeafReuse
  BY Zenon DEF TypeOK, WalletInv, LedgerOK, Sound, NoLeafReuse, Leaves
<1> QED
  BY <1>1, WalletInvariance, PTL

\* The trees the wallet generates are safe in any case: what GenerateKey made
\* signs no leaf twice even beside v2 blobs with keys of the miner.
THEOREM GeneratedTreesSafe ==
    Spec => [](\A r \in Natives : \A l \in Leaves : uses[r][l] <= 1)
<1>1. TypeOK /\ WalletInv => \A r \in Natives : \A l \in Leaves : uses[r][l] <= 1
  BY Zenon DEF WalletInv, LedgerOK, Sound, Roots
<1> QED
  BY <1>1, WalletInvariance, PTL

\* A transaction leaves the wallet only if every signature in it was made by
\* the leaf whose index CreateXMSSSig hashed.
THEOREM SentTransactionsVerify == Spec => []SentSignaturesVerify
<1>1. TypeOK /\ WalletInv => SentSignaturesVerify
  BY Zenon DEF WalletInv, SpendsOK, SentSignaturesVerify
<1> QED
  BY <1>1, WalletInvariance, PTL

-----------------------------------------------------------------------------
(* Signatures that have left the wallet *)

Kept(e) == e # NoKey /\ (e.retired \/ e.imported)

\* What the keys in memory say of the signatures that are not yet in a complete
\* transaction: those given out, and those of the transaction being signed.
HandedInv ==
    /\ ~loaded => partial = {}
    /\ \A s \in spends :
         s.native /\ (s.tx \in partial \/ (tx # NoTx /\ s.tx = txno)) => Kept(keys[s.root])

\* No step but a crash or a load takes a retired key from memory.
LEMMA KeptStep ==
    ASSUME TypeOK, WalletInv, Next, ~Crash, ~EncryptInterrupted,
           NEW r \in built \cup MineTrees, Kept(keys[r])
    PROVE  Kept(keys'[r])
<1>1. r \in Roots /\ loaded /\ keys \in KeyMap /\ ledger \in Ledgers /\ keys[r] \in Entry
  BY Zenon DEF TypeOK, WalletInv, SessionOK, Roots, Kept, KeyMap, Ledgers
<1>2. ASSUME NEW x, Adds(keys, ledger, x) PROVE Kept(keys'[r])
  <2>1. r # x
    BY <1>2, WalletConstantsOK, Zenon DEF Adds
  <2> QED
    BY <1>1, <1>2, <2>1, Zenon DEF Adds
<1>3. ASSUME NEW g \in GenerateKey(keys, ledger), keys' = g.keys, ledger' = g.ledger,
             built' = built \cup {g.root}
      PROVE  Kept(keys'[r])
  BY <1>1, <1>2, <1>3, GenerateMoves, Zenon
<1>4. ASSUME NEW b, EnsureXMSSKeyAvailable(keys, ledger, b) PROVE Kept(keys'[r])
  BY <1>1, <1>2, <1>4, EnsureMoves, Zenon
<1>5. CASE Unlock \/ EncryptWallet
  <2>1. r \in Held(keys)
    BY <1>1, Zenon DEF Held, Kept
  <2> QED
    BY <1>5, <2>1, Zenon DEF Unlock, EncryptWallet, UnlockXMSS
<1>6. CASE GetNewXMSSAddress \/ \E kind \in {"auto", "from"} : Send(kind)
  BY <1>3, <1>6, Zenon DEF GetNewXMSSAddress, Send
<1>7. ASSUME NEW x \in MineTrees \cup built, ImportXMSSKey(x) PROVE Kept(keys'[r])
  <2> DEFINE e == [retired |-> FALSE, imported |-> TRUE]
  <2>1. e \in Entry /\ e.imported
    BY Zenon DEF Entry
  <2> HIDE DEF e
  <2>2. keys'[r] = (IF r = x THEN e ELSE keys[r])
    BY <1>1, <1>7, Zenon DEF ImportXMSSKey, KeyMap, e
  <2> QED
    BY <2>1, <2>2, KeyFacts, Zenon DEF Kept
<1>8. CASE SignRaw
  BY <1>4, <1>8, Zenon DEF SignRaw
<1>9. CASE SignXMSS
  <2>1. /\ Input \in Roots /\ keys[Input] \in Entry
        /\ keys' = [keys EXCEPT ![Input].retired = @ \/ ~keys[Input].imported]
    BY <1>9, InputFacts, Zenon DEF SignXMSS
  <2>2. (~keys[Input].imported) \in BOOLEAN
    BY Zenon
  <2>3. /\ \A x \in Roots \ {Input} : keys'[x] = keys[x]
        /\ keys'[Input] # NoKey /\ keys'[Input].imported = keys[Input].imported
        /\ keys[Input].retired => keys'[Input].retired
    BY <2>1, <2>2, RetireMoves, Zenon
  <2> QED
    BY <1>1, <2>3, Zenon DEF Kept
<1>10. CASE SignTransactionReturns
  BY <1>4, <1>10, Zenon DEF SignTransactionReturns
<1>11. CASE \/ Lock \/ GetXMSSLeafIndex \/ SignXMSSRefused \/ CommitTransaction
            \/ \E x \in MineTrees : Mine(x)
  BY <1>11, Zenon DEF Lock, GetXMSSLeafIndex, SignXMSSRefused, CommitTransaction, Mine
<1>12. CASE Create
  BY <1>1, <1>12, Zenon DEF Create
<1> QED
  BY <1>5, <1>6, <1>7, <1>8, <1>9, <1>10, <1>11, <1>12, Zenon DEF Next

LEMMA HandedStep ==
    TypeOK /\ WalletInv /\ HandedInv /\ [Next]_vars => HandedInv'
<1> SUFFICES ASSUME TypeOK, WalletInv, HandedInv, [Next]_vars PROVE HandedInv'
  BY Zenon
<1>1. CASE UNCHANGED vars
  BY <1>1, Zenon DEF vars, session, HandedInv
<1>2. CASE Crash \/ EncryptInterrupted
  <2>1. partial' = {} /\ tx' = NoTx
    BY <1>2, Zenon DEF Crash, EncryptInterrupted, Idle
  <2> QED
    BY <2>1, Zenon DEF HandedInv
<1>3. CASE Next /\ ~Crash /\ ~EncryptInterrupted
  <2>0. Next /\ ~Crash /\ ~EncryptInterrupted
    BY <1>3, Zenon
  <2>1. \A s \in spends : s.root \in built \cup MineTrees /\ s.tx \in 1..MaxTx /\ s.tx <= txno
    BY Zenon DEF TypeOK, Spend, WalletInv, SpendsOK
  <2>2. \A s \in spends : Kept(keys[s.root]) => Kept(keys'[s.root])
    BY <2>0, <2>1, KeptStep, Zenon
  <2>3. CASE SignXMSS
    <3>1. /\ tx # NoTx /\ txno' = txno /\ partial' = partial /\ loaded
          /\ UNCHANGED session /\ Input \in Roots /\ keys[Input] \in Entry
      BY <2>3, InputFacts, Zenon DEF SignXMSS
    <3>2. PICK l \in LedgersForSigning(Input) :
            spends' = spends \cup {[tx |-> txno, i |-> tx.i, root |-> Input, leaf |-> l[Input],
                                    pre |-> tx.pre, kind |-> tx.kind, native |-> ~keys[Input].imported]}
      BY <2>3, Zenon DEF SignXMSS
    <3>3. \A s \in spends' : s \in spends \/ (s.root = Input /\ (s.native => ~keys[Input].imported))
      <4> DEFINE new == [tx |-> txno, i |-> tx.i, root |-> Input, leaf |-> l[Input],
                         pre |-> tx.pre, kind |-> tx.kind, native |-> ~keys[Input].imported]
      <4>1. new.root = Input /\ new.native = ~keys[Input].imported
        OBVIOUS
      <4>2. spends' = spends \cup {new}
        BY <3>2, Zenon
      <4> HIDE DEF new
      <4> QED
        BY <4>1, <4>2, Zenon
    <3>4. ~keys[Input].imported => Kept(keys'[Input])
      <4>1. keys' = [keys EXCEPT ![Input].retired = @ \/ ~keys[Input].imported]
        BY <2>3, Zenon DEF SignXMSS
      <4>2. (~keys[Input].imported) \in BOOLEAN
        BY Zenon
      <4> QED
        BY <3>1, <4>1, <4>2, RetireMoves, Zenon DEF Kept
    <3> QED
      BY <2>2, <3>1, <3>3, <3>4, Zenon DEF HandedInv, session
  <2>4. CASE ~SignXMSS
    <3>1. spends' = spends
      BY <2>0, <2>4, Zenon DEF Next, Create, Lock, Unlock, EncryptWallet, GetNewXMSSAddress, ImportXMSSKey,
         Send, SignRaw, GetXMSSLeafIndex, SignXMSSRefused, SignTransactionReturns, CommitTransaction, Mine,
         history
    <3>2. CASE (\E kind \in {"auto", "from"} : Send(kind)) \/ SignRaw
      <4>1. /\ txno' = txno + 1 /\ partial' = partial /\ loaded /\ UNCHANGED session
        BY <3>2, Zenon DEF Send, SignRaw, Idle
      <4>2. \A s \in spends : s.tx # txno'
        BY <2>1, <4>1 DEF TypeOK
      <4> QED
        BY <2>2, <3>1, <4>1, <4>2, Zenon DEF HandedInv, session
    <3>3. CASE SignTransactionReturns
      <4>1. /\ tx # NoTx /\ txno' = txno /\ loaded /\ UNCHANGED session
            /\ partial' = partial \/ partial' = partial \cup {txno}
        BY <3>3, InputFacts, Zenon DEF SignTransactionReturns
      <4> QED
        BY <2>2, <3>1, <4>1, Zenon DEF HandedInv, session
    <3>4. CASE \/ Create \/ Lock \/ Unlock \/ EncryptWallet \/ GetNewXMSSAddress
               \/ \E r \in MineTrees \cup built : ImportXMSSKey(r)
      <4>1. tx' = tx /\ txno' = txno /\ partial' = partial /\ (~loaded' => ~loaded)
        <5>1. CASE Create
          <6>1. tx' = tx /\ history' = history /\ ~loaded
            BY <5>1, Zenon DEF Create
          <6> QED
            BY <6>1, Zenon DEF history
        <5>2. CASE Lock \/ Unlock \/ EncryptWallet
          <6>1. tx' = tx /\ history' = history /\ loaded' = loaded
            BY <5>2, Zenon DEF Lock, Unlock, EncryptWallet
          <6> QED
            BY <6>1, Zenon DEF history
        <5>3. CASE GetNewXMSSAddress \/ \E r \in MineTrees \cup built : ImportXMSSKey(r)
          <6>1. tx' = tx /\ txno' = txno /\ partial' = partial
            BY <5>3, Zenon DEF GetNewXMSSAddress, ImportXMSSKey, history
          <6>2. session' = session
            BY <5>3, Zenon DEF GetNewXMSSAddress, ImportXMSSKey
          <6>3. loaded' = loaded
            BY <6>2, Zenon DEF session
          <6> QED
            BY <6>1, <6>3, Zenon
        <5> QED
          BY <3>4, <5>1, <5>2, <5>3, Zenon
      <4> QED
        BY <2>2, <3>1, <4>1, Zenon DEF HandedInv
    <3>5. CASE \/ GetXMSSLeafIndex \/ SignXMSSRefused \/ CommitTransaction
               \/ \E r \in MineTrees : Mine(r)
      <4>1. UNCHANGED <<txno, partial>> /\ UNCHANGED session /\ (tx' # NoTx => tx # NoTx)
        BY <3>5, Zenon DEF GetXMSSLeafIndex, SignXMSSRefused, CommitTransaction, Mine, history
      <4> QED
        BY <2>2, <3>1, <4>1, Zenon DEF HandedInv, session
    <3> QED
      BY <2>0, <2>4, <3>2, <3>3, <3>4, <3>5, Zenon DEF Next
  <2> QED
    BY <2>3, <2>4, Zenon
<1> QED
  BY <1>1, <1>2, <1>3, Zenon

\* A signature that leaves the wallet leaves its one-time key retired: on disk
\* when the transaction is complete, as PersistXMSSState in SignTransaction
\* precedes its return, and in memory when signrawtransactionwithwallet returns
\* a part of it, which nothing but a stop of the node undoes.
THEOREM SentKeysRetired == Spec => []ReleasedKeysRetired
<1>1. ASSUME TypeOK, WalletInv, HandedInv PROVE ReleasedKeysRetired
  <2> SUFFICES ASSUME NEW s \in spends, s.native
               PROVE  /\ s.tx \in sent =>
                           /\ blob # NoBlob
                           /\ blob.keys[s.root] # NoKey =>
                                blob.keys[s.root].retired \/ blob.keys[s.root].imported
                      /\ s.tx \in partial => Kept(keys[s.root])
    BY Zenon DEF ReleasedKeysRetired, Kept
  <2>1. s.root \in Roots /\ (s.tx \in sent => SentNative(s.root))
    BY <1>1, Zenon DEF TypeOK, Spend, SentNative
  <2>2. DiskOK(blob)
    BY <1>1, Zenon DEF WalletInv
  <2>3. s.tx \in sent => blob # NoBlob
    BY <2>2, Zenon DEF DiskOK
  <2> QED
    BY <1>1, <2>1, <2>2, <2>3, Zenon DEF DiskOK, KeysOK, HandedInv
<1>2. Init => HandedInv
  BY Zenon DEF Init, HandedInv
<1> QED
  BY <1>1, <1>2, HandedStep, WalletInvariance, PTL DEF Spec

\* sendtoxmssaddress signs with leaf 0 of its one-time addresses only: coin
\* selection asks the ledger, and nothing claims those leaves before SignXMSS.
THEOREM AutoSpendSafety ==
    ASSUME ~LegacyImports
    PROVE  Spec => []AutoSpendSignsOnce
<1>1. TypeOK /\ WalletInv => AutoSpendSignsOnce
  BY Zenon DEF WalletInv, SpendsOK, AutoSpendSignsOnce
<1> QED
  BY <1>1, WalletInvariance, PTL

\* Only a claim that went through retires a key.
THEOREM RetiredKeysUsed == Spec => []RetiredOnlyIfUsed
<1>1. TypeOK /\ WalletInv => RetiredOnlyIfUsed
  <2>1. TypeOK => \A r \in Roots : DOMAIN uses[r] = Leaves
    BY Zenon DEF TypeOK, Leaves
  <2> QED
    BY <2>1, Zenon DEF WalletInv, KeysOK, DiskOK, Used, RetiredOnlyIfUsed
<1> QED
  BY <1>1, WalletInvariance, PTL

\* A wallet that is never encrypted keeps on disk the key of every address
\* that getnewxmssaddress and the send RPCs handed out.
THEOREM KeysSurvive ==
    ASSUME ~MayEncrypt
    PROVE  Spec => []AddressKeysSurvive
<1>1. TypeOK /\ WalletInv => AddressKeysSurvive
  BY Zenon DEF WalletInv, SessionOK, Stored, AddressKeysSurvive
<1> QED
  BY <1>1, WalletInvariance, PTL
\* A wallet that saves what it has loaded, and more, loses nothing.
LEMMA SaveKeeps ==
    ASSUME TypeOK, NEW k \in KeyMap, blob' = PersistXMSSState(k),
           CanPersist => Stored \subseteq Held(k)
    PROVE  Stored \subseteq Stored'
<1>1. CASE CanPersist
  <2>1. blob' = SaveState(k)
    BY <1>1, Zenon DEF PersistXMSSState
  <2>2. blob' # NoBlob /\ blob'.keys = k
    BY <2>1, SaveMoves, Zenon
  <2>3. Stored' = Held(k)
    BY <2>2, Zenon DEF Stored, Held
  <2> QED
    BY <1>1, <2>3, Zenon
<1>2. CASE ~CanPersist
  <2>1. blob' = blob
    BY <1>2, Zenon DEF PersistXMSSState
  <2> QED
    BY <2>1, Zenon DEF Stored, Held
<1> QED
  BY <1>1, <1>2, Zenon

LEMMA EnsureKeeps ==
    ASSUME TypeOK, WalletInv, NEW k \in KeyMap, NEW l \in Ledgers, NEW b,
           EnsureXMSSKeyAvailable(k, l, b), b = blob \/ b = PersistXMSSState(k),
           CanPersist => Stored \subseteq Held(k)
    PROVE  Stored \subseteq Stored'
<1>1. CASE blob' = blob
  BY <1>1, Zenon DEF Stored, Held
<1>2. CASE blob' = PersistXMSSState(k)
  BY <1>2, SaveKeeps, Zenon
<1>3. CASE \E r : Adds(k, l, r) /\ blob' = PersistXMSSState(keys')
  <2>1. PICK r : Adds(k, l, r) /\ blob' = PersistXMSSState(keys')
    BY <1>3, Zenon
  <2> DEFINE m == keys'
  <2>2. m \in KeyMap /\ blob' = PersistXMSSState(m)
    BY <2>1, Zenon DEF Adds
  <2>3. Held(k) \subseteq Held(m)
    BY <2>1, KeyFacts, Zenon DEF Adds, Held
  <2> HIDE DEF m
  <2> QED
    BY <2>2, <2>3, SaveKeeps, Zenon
<1> QED
  BY <1>1, <1>2, <1>3, EnsureMoves, Zenon

LEMMA StoreStep ==
    TypeOK /\ WalletInv /\ [Next]_vars
      => Stored \subseteq Stored' \/ (crypted /\ ~unlocked /\ unlocked')
<1> SUFFICES ASSUME TypeOK, WalletInv, [Next]_vars, ~(crypted /\ ~unlocked /\ unlocked')
             PROVE  Stored \subseteq Stored'
  BY Zenon
<1>1. ASSUME blob' = blob PROVE Stored \subseteq Stored'
  BY <1>1, Zenon DEF Stored, Held
<1>2. keys \in KeyMap /\ ledger \in Ledgers
  BY Zenon DEF TypeOK, Ledgers
<1>3. loaded /\ CanPersist => Stored \subseteq Held(keys)
  BY Zenon DEF WalletInv, SessionOK
<1>4. ASSUME Create PROVE Stored \subseteq Stored'
  <2>1. PICK s \in LoadXMSSStateIfPossible(FALSE) : EnsureXMSSKeyAvailable(s.keys, s.ledger, blob)
    BY <1>4, Zenon DEF Create
  <2>2. s.keys \in KeyMap /\ s.ledger \in Ledgers /\ (CanPersist => Stored \subseteq Held(s.keys))
    <3>1. FALSE \in BOOLEAN
      BY Zenon
    <3>2. CASE s.keys = keys /\ s.ledger = ledger /\ (blob = NoBlob \/ (blob # NoBlob /\ blob.enc))
      <4>1. CanPersist => blob = NoBlob
        BY <1>4, <3>2, Zenon DEF Create, CanPersist, WalletInv, SessionOK
      <4> QED
        BY <1>2, <3>2, <4>1, Zenon DEF Stored
    <3>3. CASE Loads(s.keys, s.ledger)
      BY <3>3, Zenon DEF Loads, Stored, Held
    <3> QED
      BY <3>1, <3>2, <3>3, LoadMoves, Zenon
  <2> QED
    BY <2>1, <2>2, EnsureKeeps, Zenon
<1>5. ASSUME Unlock \/ EncryptWallet PROVE Stored \subseteq Stored'
  <2>1. UnlockXMSS /\ loaded /\ CanPersist
    BY <1>5, Zenon DEF Unlock, EncryptWallet, Idle, CanPersist
  <2>2. CASE blob' = [ver |-> 3, enc |-> TRUE, keys |-> keys]
    <3>1. TRUE \in BOOLEAN /\ 3 \in {2, 3}
      BY Zenon
    <3>2. blob' \in State
      BY <1>2, <2>2, <3>1, Zenon DEF State
    <3>3. blob' # NoBlob /\ blob'.keys = keys
      BY <2>2, <3>2, AbsentValuesOK, Zenon
    <3>4. Stored' = Held(keys)
      BY <3>3, Zenon DEF Stored, Held
    <3> QED
      BY <1>3, <2>1, <3>4, Zenon
  <2> QED
    BY <1>1, <2>1, <2>2, Zenon DEF UnlockXMSS
<1>6. ASSUME NEW g \in GenerateKey(keys, ledger), loaded,
             keys' = g.keys, ledger' = g.ledger, built' = built \cup {g.root},
             blob' = PersistXMSSState(g.keys)
      PROVE  Stored \subseteq Stored'
  <2> DEFINE m == g.keys
  <2>1. Adds(keys, ledger, g.root)
    BY <1>2, <1>6, GenerateMoves, Zenon
  <2>2. m \in KeyMap /\ Held(keys) \subseteq Held(m)
    BY <1>6, <2>1, KeyFacts, ZenonT(60) DEF Adds, Held
  <2> QED
    BY <1>3, <1>6, <2>2, SaveKeeps, Zenon
<1>7. ASSUME GetNewXMSSAddress \/ \E kind \in {"auto", "from"} : Send(kind)
      PROVE  Stored \subseteq Stored'
  BY <1>6, <1>7, Zenon DEF GetNewXMSSAddress, Send, Idle
<1>8. ASSUME NEW r \in MineTrees \cup built, ImportXMSSKey(r) PROVE Stored \subseteq Stored'
  <2> DEFINE e == [retired |-> FALSE, imported |-> TRUE]
             m == [keys EXCEPT ![r] = e]
  <2>1. FALSE \in BOOLEAN /\ TRUE \in BOOLEAN /\ r \in Roots
    BY Zenon DEF TypeOK, Roots
  <2>2. e \in Entry
    BY <2>1, Zenon DEF Entry
  <2>3. loaded /\ blob' = PersistXMSSState(m)
    BY <1>8, Zenon DEF ImportXMSSKey, Idle
  <2> HIDE DEF e
  <2>4. m \in KeyMap /\ Held(keys) \subseteq Held(m)
    BY <1>2, <2>1, <2>2, KeyFacts, Zenon DEF KeyMap, Held
  <2> HIDE DEF m
  <2> QED
    BY <1>3, <2>3, <2>4, SaveKeeps, Zenon
<1>9. ASSUME SignRaw PROVE Stored \subseteq Stored'
  BY <1>2, <1>3, <1>9, EnsureKeeps, Zenon DEF SignRaw, Idle
<1>10. ASSUME SignTransactionReturns PROVE Stored \subseteq Stored'
  <2>1. loaded
    BY <1>10, InputFacts, Zenon DEF SignTransactionReturns
  <2>2. blob' = blob \/ EnsureXMSSKeyAvailable(keys, ledger, PersistXMSSState(keys))
    BY <1>10, Zenon DEF SignTransactionReturns
  <2> QED
    BY <1>1, <1>2, <1>3, <2>1, <2>2, EnsureKeeps, Zenon
<1>11. ASSUME CommitTransaction PROVE Stored \subseteq Stored'
  <2>1. loaded
    BY <1>11, InputFacts, Zenon DEF CommitTransaction
  <2>2. blob' = blob \/ blob' = PersistXMSSState(keys)
    BY <1>11, Zenon DEF CommitTransaction
  <2> QED
    BY <1>1, <1>2, <1>3, <2>1, <2>2, SaveKeeps, Zenon
<1>12. ASSUME \/ Crash \/ Lock \/ EncryptInterrupted \/ GetXMSSLeafIndex \/ SignXMSSRefused \/ SignXMSS
              \/ (\E r \in MineTrees : Mine(r)) \/ UNCHANGED vars
       PROVE  blob' = blob
  BY <1>12, Zenon DEF Crash, Lock, EncryptInterrupted, GetXMSSLeafIndex, SignXMSSRefused, SignXMSS, Mine, vars
<1> QED
  BY <1>1, <1>4, <1>5, <1>7, <1>8, <1>9, <1>10, <1>11, <1>12, Zenon DEF Next

\* Saving, encrypting, spending and restarting lose no stored key; the only
\* step that can is the Unlock of a locked wallet.
THEOREM StoredKeysKept == Spec => KeysLostOnlyByUnlock
BY StoreStep, WalletInvariance, PTL DEF Spec, KeysLostOnlyByUnlock
=============================================================================
