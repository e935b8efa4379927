-------------------------- MODULE TreeLedgerProofs --------------------------
(***************************************************************************)
(* Theorems about TreeLedger for every number of datadirs, trees, threads, *)
(* messages and leaves: type correctness, the inductive invariant          *)
(* LedgerInv, the safety properties it implies, and the refinement of      *)
(* OneTimeLeaves.                                                          *)
(***************************************************************************)
EXTENDS TreeLedger, TLAPS

-----------------------------------------------------------------------------
(* Types, instance ids, and the steps that create files *)

\* The default request and the default memory image are well typed.
LEMMA DefaultsTyped == NoReq \in [root: Roots, msg: Msgs] /\ NoMem \in File
BY ConstantsOK DEF NoReq, NoMem, File

\* Reading or minting the instance id keeps both counters natural numbers.
LEMMA InstanceIdType ==
    ASSUME TypeOK, NEW d \in Datadirs, NEW id, GetOrCreateInstanceId(d, id)
    PROVE  instanceId' \in [Datadirs -> Nat] /\ minted' \in Nat /\ id \in Nat
BY ConstantsOK DEF TypeOK, GetOrCreateInstanceId

\* One ledger file is written.
WriteFile(d, r, g) == ledger' = [ledger EXCEPT ![d][r] = g]

\* What writing one ledger file changes.
LEMMA FileUpdate ==
    ASSUME TypeOK, NEW d \in Datadirs, NEW r \in Roots, NEW g \in File, WriteFile(d, r, g)
    PROVE  /\ ledger' \in [Datadirs -> [Roots -> File \cup {NoFile}]]
           /\ \A e \in Datadirs, q \in Roots :
                 ledger'[e][q] = IF e = d /\ q = r THEN g ELSE ledger[e][q]
<1>1. ledger \in [Datadirs -> [Roots -> File \cup {NoFile}]]
  BY Zenon DEF TypeOK
<1>2. [ledger[d] EXCEPT ![r] = g] \in [Roots -> File \cup {NoFile}]
  BY <1>1, Zenon
<1> QED
  BY <1>1, <1>2, Zenon DEF WriteFile

\* Every step of the ledger and its environment preserves the types.
LEMMA TypeStep == TypeOK /\ [Next]_vars => TypeOK'
<1> SUFFICES ASSUME TypeOK, [Next]_vars PROVE TypeOK'
  BY Zenon
<1> USE ConstantsOK
<1>1. ASSUME NEW t \in Threads, BuildNewTree(t) PROVE TypeOK'
  BY <1>1 DEF TypeOK, BuildNewTree, threadVars, Snapshot
<1>2. ASSUME NEW t \in Threads, InitLedger(t) PROVE TypeOK'
  <2>1. PICK s \in held[DirOf[t]], id \in Ids : CreateLedger(DirOf[t], s, id)
    BY <1>2, Zenon DEF InitLedger
  <2>2. DirOf[t] \in Datadirs /\ s \in Snapshot
    BY Zenon DEF TypeOK
  <2>3. instanceId' \in [Datadirs -> Nat] /\ minted' \in Nat /\ id \in Nat
    BY <2>1, <2>2, InstanceIdType, Zenon DEF CreateLedger
  <2> DEFINE g == [next |-> s.next, sk |-> s.sk, owner |-> id]
             r == s.root
             d == DirOf[t]
  <2>5. g \in File /\ r \in Roots /\ d \in Datadirs
    BY <2>2, <2>3, Zenon DEF Snapshot, File
  <2>6. WriteFile(d, r, g) \/ ledger' = ledger
    BY <2>1, Zenon DEF CreateLedger, WriteFile
  <2> HIDE DEF g, r, d
  <2>4. ledger' \in [Datadirs -> [Roots -> File \cup {NoFile}]]
    BY <2>5, <2>6, FileUpdate, Zenon DEF TypeOK
  <2> QED
    BY <1>2, <2>3, <2>4, Zenon DEF TypeOK, InitLedger, threadVars
<1>3. ASSUME NEW t \in Threads, NEW r \in Roots, NEW m \in Msgs, ClaimAndSign(t, r, m)
      PROVE TypeOK'
  <2> DEFINE d == DirOf[t]
             f == ledger[d][r]
  <2>1. d \in Datadirs /\ f \in File
    BY <1>3 DEF TypeOK, ClaimAndSign
  <2>2. PICK id \in Ids :
             /\ GetOrCreateInstanceId(d, id)
             /\ sentinel' \in {sentinel, sentinel \ {<<d, r>>}}
             /\ IF ~IsExhausted(f) /\ SkMatches(f)
                THEN /\ mutex' = [mutex EXCEPT ![d] = t]
                     /\ phase' = [phase EXCEPT ![t] = "signed"]
                     /\ req' = [req EXCEPT ![t] = [root |-> r, msg |-> m]]
                     /\ mem' = [mem EXCEPT ![t] =
                                  [next |-> f.next + 1, sk |-> f.sk + 1, owner |-> id]]
                ELSE UNCHANGED threadVars
    BY <1>3, Zenon DEF ClaimAndSign
  <2>3. instanceId' \in [Datadirs -> Nat] /\ minted' \in Nat /\ id \in Nat
    BY <2>1, <2>2, InstanceIdType, Zenon
  <2>4. CASE ~IsExhausted(f) /\ SkMatches(f)
    <3> DEFINE g == [next |-> f.next + 1, sk |-> f.sk + 1, owner |-> id]
               q == [root |-> r, msg |-> m]
    <3>1. g \in File /\ q \in [root: Roots, msg: Msgs]
      BY <2>1, <2>3, <2>4 DEF IsExhausted, File
    <3>3. /\ mutex' = [mutex EXCEPT ![d] = t]
          /\ phase' = [phase EXCEPT ![t] = "signed"]
          /\ req' = [req EXCEPT ![t] = q]
          /\ mem' = [mem EXCEPT ![t] = g]
      BY <2>2, <2>4, Zenon
    <3> HIDE DEF g, q
    <3>2. /\ mem' \in [Threads -> File]
          /\ req' \in [Threads -> [root: Roots, msg: Msgs]]
          /\ phase' \in [Threads -> {"idle", "signed", "saved"}]
          /\ mutex' \in [Datadirs -> Threads \cup {Free}]
      BY <3>1, <3>3, <2>1, Zenon DEF TypeOK
    <3> QED
      BY <1>3, <2>2, <2>3, <3>2, Zenon DEF TypeOK, ClaimAndSign
  <2>5. CASE ~(~IsExhausted(f) /\ SkMatches(f))
    BY <1>3, <2>2, <2>3, <2>5, Zenon DEF TypeOK, ClaimAndSign, threadVars
  <2> QED
    BY <2>4, <2>5, Zenon
<1>4. ASSUME NEW t \in Threads, SaveLocked(t) PROVE TypeOK'
  BY <1>4, Zenon DEF TypeOK, SaveLocked
<1>5. ASSUME NEW t \in Threads, Discard(t) PROVE TypeOK'
  BY <1>5, DefaultsTyped, Zenon DEF TypeOK, Discard, Leave, store
<1>6. ASSUME NEW t \in Threads, ReturnSignature(t) PROVE TypeOK'
  <2>1. [root |-> req[t].root, leaf |-> mem[t].next - 1, msg |-> req[t].msg] \in
           [root: Roots, leaf: Int, msg: Msgs]
    BY DEF TypeOK, File
  <2> QED
    BY <1>6, <2>1, DefaultsTyped, Zenon DEF TypeOK, ReturnSignature, Leave, store, Signature
<1>7. ASSUME NEW d \in Datadirs, Crash(d) PROVE TypeOK'
  BY <1>7, DefaultsTyped, Zenon DEF TypeOK, Crash, Idle, store
<1>8. ASSUME NEW d \in Datadirs, Retire(d) PROVE TypeOK'
  BY <1>8, DefaultsTyped, Zenon DEF TypeOK, Retire, Idle
<1>9. ASSUME NEW from \in Datadirs, NEW to \in Datadirs, NEW r \in Roots, CopyLedger(from, to, r)
      PROVE TypeOK'
  BY <1>9 DEF TypeOK, CopyLedger, threadVars
<1>10. ASSUME NEW d \in Datadirs, NEW r \in Roots, DropSentinel(d, r) PROVE TypeOK'
  BY <1>10 DEF TypeOK, DropSentinel, DropSentinelIf, threadVars
<1>11. CASE UNCHANGED vars
  BY <1>11, Zenon DEF TypeOK, vars, store, threadVars
<1> QED
  BY <1>1, <1>2, <1>3, <1>4, <1>5, <1>6, <1>7, <1>8, <1>9, <1>10, <1>11, Zenon
     DEF Next, Core, ThreadStep, FileCopies

\* The hypotheses and the goal of every preservation lemma below.
Step == TypeOK /\ TypeOK' /\ LedgerInv

\* What reading or minting the instance id of d does to the ids.
LEMMA InstanceIdFacts ==
    ASSUME Step, NEW d \in Datadirs, NEW id \in Ids, GetOrCreateInstanceId(d, id)
    PROVE  /\ minted' \in Nat /\ minted <= minted' /\ id \in 1..minted'
           /\ \A e \in Datadirs : instanceId'[e] # instanceId[e] =>
                 e = d /\ instanceId[e] = 0 /\ instanceId'[e] = minted + 1 /\ minted' = minted + 1
           /\ \A e \in Datadirs : instanceId'[e] = id => e = d
           /\ \A e \in Datadirs : instanceId'[e] <= minted'
           /\ \A c, e \in Datadirs :
                 instanceId'[c] = instanceId'[e] /\ instanceId'[c] # 0 => c = e
<1>1. instanceId \in [Datadirs -> Nat] /\ minted \in Nat /\ id \in Nat \ {0}
  BY ConstantsOK DEF Step, TypeOK, Ids
<1>2. CASE instanceId[d] # 0
  BY <1>1, <1>2 DEF GetOrCreateInstanceId, Step, LedgerInv, IdsInv
<1>3. CASE instanceId[d] = 0
  BY <1>1, <1>3 DEF GetOrCreateInstanceId, Step, LedgerInv, IdsInv
<1> QED
  BY <1>2, <1>3, Zenon

\* A new id never equals the stamp on a file or in a thread's memory, so it
\* lets no datadir sign that could not sign before.
LEMMA NewIdOwnsNothing ==
    ASSUME Step, NEW d \in Datadirs, NEW id \in Ids, GetOrCreateInstanceId(d, id),
           NEW e \in Datadirs, NEW n \in 1..minted, instanceId'[e] = n
    PROVE  instanceId[e] = n
BY InstanceIdFacts DEF Step, TypeOK

\* Init and SeedFromActive: the first file of a tree appears.
LEMMA InitLedgerStep == ASSUME Step, NEW t \in Threads, InitLedger(t) PROVE LedgerInv'
<1> USE ConstantsOK
<1>0. PICK d \in Datadirs : d = DirOf[t]
  BY Zenon
<1>1. PICK s \in held[d], id \in Ids :
         IsValid(s) /\ ledger[d][s.root] = NoFile /\ CreateLedger(d, s, id)
  BY <1>0, Zenon DEF InitLedger
<1>1a. s \in Snapshot /\ s.sk = s.next /\ s.root \in built /\ id \in Nat \ {0}
  BY DEF Step, TypeOK, Ids, LedgerInv, HeldInv
<1>1b. PICK r \in Roots, g \in File :
         r = s.root /\ g = [next |-> s.next, sk |-> s.sk, owner |-> id]
  BY <1>1a, Zenon DEF Snapshot, File
<1>2. g # NoFile /\ g.sk = g.next /\ g.owner = id /\ g.next \in Nat /\ r \in built
  BY <1>1a, <1>1b, Zenon DEF Snapshot, File
<1>3. UNCHANGED <<sentinel, held, built, online, mutex, phase, req, mem, released>>
  BY Zenon DEF InitLedger, threadVars
<1>4. GetOrCreateInstanceId(d, id)
  BY <1>1, Zenon DEF CreateLedger
<1>5. \A e \in Datadirs : ~HasFile(e, r)
  BY <1>1, <1>1b, Zenon DEF Step, LedgerInv, HeldInv, HasFile
<1>6. PICK new \in BOOLEAN : \A e \in Datadirs, q \in Roots :
         ledger'[e][q] = IF new /\ e = d /\ q = r THEN g ELSE ledger[e][q]
  <2>1. CASE ledger' = ledger
    <3> WITNESS FALSE \in BOOLEAN
    <3> QED
      BY <2>1, Zenon
  <2>2. CASE WriteFile(d, r, g)
    <3>1. TypeOK
      BY Zenon DEF Step
    <3>3. \A e \in Datadirs, q \in Roots :
             ledger'[e][q] = IF e = d /\ q = r THEN g ELSE ledger[e][q]
      BY <2>2, <3>1, FileUpdate
    <3> WITNESS TRUE \in BOOLEAN
    <3> QED
      BY <3>3, Zenon
  <2> QED
    BY <1>1, <1>1b, <2>1, <2>2, Zenon DEF CreateLedger, WriteFile
<1>7. \A e \in Datadirs, q \in Roots :
         HasFile(e, q)' <=> HasFile(e, q) \/ (new /\ e = d /\ q = r)
  BY <1>2, <1>6, Zenon DEF HasFile
<1>8. \A u \in Threads : phase[u] # "idle" => req[u].root # r
  BY <1>5 DEF Step, LedgerInv, CallInv, InCallInv, TypeOK
<1>9. \A e \in Datadirs, q \in Roots : q # r /\ MaySign(e, q)' => MaySign(e, q)
  <2> SUFFICES ASSUME NEW e \in Datadirs, NEW q \in Roots, q # r, MaySign(e, q)'
               PROVE  MaySign(e, q)
    BY Zenon
  <2>1. HasFile(e, q) /\ ledger'[e][q] = ledger[e][q]
    BY <1>6, Zenon DEF MaySign, HasFile
  <2>2. ledger[e][q].owner \in Nat /\ ledger[e][q].owner <= minted /\ minted \in Nat
    BY <2>1 DEF Step, LedgerInv, IdsInv, TypeOK, File, HasFile
  <2>3. ledger[e][q].owner # 0 /\ ledger[e][q].owner = instanceId'[e]
           => ledger[e][q].owner = instanceId[e]
    BY <1>2, <1>4, <2>2, NewIdOwnsNothing
  <2> QED
    BY <1>3, <2>1, <2>3, Zenon DEF MaySign, HasFile
<1>10. \A e \in Datadirs : MaySign(e, r)' => e = d
  BY <1>2, <1>5, <1>7, Zenon DEF MaySign, HasFile
<1>11. IdsInv'
  <2>1. \A e \in Datadirs, q \in Roots : HasFile(e, q) => ledger[e][q].owner \in Nat
    BY DEF Step, TypeOK, File, HasFile
  <2>2. minted \in Nat /\ minted' \in Nat /\ minted <= minted' /\ id <= minted'
    BY <1>4, InstanceIdFacts DEF Step, TypeOK
  <2>3. \A e \in Datadirs, q \in Roots : HasFile(e, q)' => ledger'[e][q].owner <= minted'
    <3> SUFFICES ASSUME NEW e \in Datadirs, NEW q \in Roots, HasFile(e, q)'
                 PROVE  ledger'[e][q].owner <= minted'
      BY Zenon
    <3>1. CASE ledger'[e][q] = g
      BY <1>2, <2>2, <3>1, Zenon
    <3>2. CASE ledger'[e][q] = ledger[e][q] /\ HasFile(e, q)
      <4>1. ledger[e][q].owner \in Nat /\ ledger[e][q].owner <= minted
        BY <2>1, <3>2, Zenon DEF Step, LedgerInv, IdsInv
      <4> QED
        BY <2>2, <3>2, <4>1
    <3> QED
      BY <1>6, <1>7, <3>1, <3>2, Zenon
  <2> QED
    BY <1>4, <2>3, InstanceIdFacts, Zenon DEF IdsInv
<1>12. CallInv'
  <2> SUFFICES ASSUME NEW u \in Threads, phase[u] # "idle" PROVE InCallInv(u)'
    BY <1>3, Zenon DEF CallInv
  <2>1. InCallInv(u) /\ req[u].root # r /\ req[u].root \in Roots /\ DirOf[u] \in Datadirs
    BY <1>8, Zenon DEF Step, LedgerInv, CallInv, TypeOK
  <2>2. mem[u].owner \in 1..minted /\ minted \in Nat
    BY <2>1, Zenon DEF InCallInv, Step, TypeOK
  <2>3. mem[u].owner \in 1..minted'
    BY <1>2, <1>4, <2>2, InstanceIdFacts
  <2>4. \A e \in Datadirs : instanceId'[e] = mem[u].owner => e = DirOf[u]
    BY <1>2, <1>4, <2>1, <2>2, NewIdOwnsNothing, Zenon DEF InCallInv
  <2> QED
    BY <1>3, <1>6, <2>1, <2>3, <2>4 DEF InCallInv, HasFile
<1>13. HeldInv'
  <2>1. ASSUME NEW e \in Datadirs, NEW x \in held[e]
        PROVE  HasFile(e, x.root)' \/ \A c \in Datadirs : ~HasFile(c, x.root)'
    <3>1. x.root \in Roots
      BY DEF Step, TypeOK, Snapshot
    <3>2. HasFile(e, x.root) \/ \A c \in Datadirs : ~HasFile(c, x.root)
      BY Zenon DEF Step, LedgerInv, HeldInv
    <3>3. x.root = r => e = d
      BY <1>1b, Zenon DEF Step, LedgerInv, HeldInv
    <3> QED
      BY <1>2, <1>7, <3>1, <3>2, <3>3, Zenon
  <2>2. \A e \in Datadirs, q \in Roots : HasFile(e, q)' => q \in built
    BY <1>2, <1>7 DEF Step, LedgerInv, HeldInv
  <2> QED
    BY <1>3, <2>1, <2>2, Zenon DEF Step, LedgerInv, HeldInv
<1>14. OwnerInv'
  <2>1. ASSUME NEW c \in Datadirs, NEW e \in Datadirs, NEW q \in Roots, HasFile(c, q)',
               ledger'[c][q].owner # 0, ledger'[c][q].owner = instanceId'[e]
        PROVE  HasFile(e, q)'
    <3>1. CASE HasFile(c, q)
      <4>1. ledger'[c][q] = ledger[c][q]
        BY <1>5, <1>6, <3>1, Zenon
      <4>2. ledger[c][q].owner \in 1..minted
        BY <2>1, <3>1, <4>1 DEF Step, LedgerInv, IdsInv, TypeOK, File, HasFile
      <4>3. ledger[c][q].owner = instanceId[e]
        BY <1>2, <1>4, <2>1, <4>1, <4>2, NewIdOwnsNothing, Zenon
      <4> QED
        BY <1>7, <2>1, <3>1, <4>1, <4>3, Zenon DEF Step, LedgerInv, OwnerInv
    <3>2. CASE ~HasFile(c, q)
      <4>1. c = d /\ q = r /\ ledger'[c][q].owner = id /\ new
        BY <1>2, <1>6, <1>7, <2>1, <3>2, Zenon
      <4>2. e = d
        BY <1>2, <1>4, <2>1, <4>1, InstanceIdFacts
      <4> QED
        BY <2>1, <4>1, <4>2, Zenon
    <3> QED
      BY <3>1, <3>2, Zenon
  <2>2. ASSUME NEW c \in Datadirs, NEW e \in Datadirs, NEW q \in Roots, HasFile(c, q)',
               ledger'[c][q].owner = 0, HasFile(e, q)'
        PROVE  e = c
    <3>1. CASE q = r
      BY <1>5, <1>7, <2>2, <3>1, Zenon
    <3>2. CASE q # r
      BY <1>6, <1>7, <2>2, <3>2, Zenon DEF Step, LedgerInv, OwnerInv
    <3> QED
      BY <3>1, <3>2, Zenon
  <2>3. \A e \in Datadirs, q \in Roots : <<e, q>> \in sentinel' => HasFile(e, q)'
    BY <1>3, <1>7, Zenon DEF Step, LedgerInv, OwnerInv
  <2> QED
    BY <2>1, <2>2, <2>3, Zenon DEF OwnerInv
<1>15. SkNeverDiverges'
  BY <1>2, <1>6 DEF Step, LedgerInv, SkNeverDiverges, SkMatches
<1>16. SoleSigner'
  <2> SUFFICES ASSUME NEW c \in online, NEW e \in online, NEW q \in Roots,
                      MaySign(c, q)', MaySign(e, q)'
               PROVE  c = e
    BY <1>3, Zenon DEF SoleSigner
  <2>1. c \in Datadirs /\ e \in Datadirs
    BY Zenon DEF Step, TypeOK
  <2> QED
    BY <1>9, <1>10, <2>1 DEF Step, LedgerInv, SoleSigner
<1>17. SignerIsCurrent'
  <2> SUFFICES ASSUME NEW e \in online, NEW q \in Roots, MaySign(e, q)',
                      NEW c \in Datadirs, HasFile(c, q)'
               PROVE  ledger'[c][q].next <= ledger'[e][q].next
    BY <1>3, Zenon DEF SignerIsCurrent
  <2>1. e \in Datadirs
    BY Zenon DEF Step, TypeOK
  <2>2. CASE q = r
    <3>1. c = d /\ e = d
      BY <1>5, <1>7, <1>10, <2>1, <2>2, Zenon
    <3>2. ledger'[d][r].next \in Nat
      BY <1>2, <1>6, <2>2, <3>1, <1>5, <1>7, Zenon DEF Snapshot
    <3> QED
      BY <2>2, <3>1, <3>2
  <2>3. CASE q # r
    BY <1>6, <1>7, <1>9, <2>1, <2>3, ZenonT(60) DEF Step, LedgerInv, SignerIsCurrent
  <2> QED
    BY <2>2, <2>3, Zenon
<1>18. DurableBeforeRelease'
  <2> SUFFICES ASSUME NEW x \in released
               PROVE  \E e \in Datadirs : HasFile(e, x.root)' /\ x.leaf < ledger'[e][x.root].next
    BY <1>3, Zenon DEF DurableBeforeRelease, HasFile
  <2>1. x.root \in Roots
    BY Zenon DEF Step, TypeOK, Signature
  <2>2. PICK e \in Datadirs : HasFile(e, x.root) /\ x.leaf < ledger[e][x.root].next
    BY Zenon DEF Step, LedgerInv, DurableBeforeRelease, HasFile
  <2>3. x.root # r
    BY <1>5, <2>2, Zenon
  <2> QED
    BY <1>6, <1>7, <2>1, <2>2, <2>3, Zenon
<1>19. PendingLeafIsNew' /\ UsableLeavesOnly' /\ NoLeafReuse'
  BY <1>3, Zenon DEF Step, LedgerInv, PendingLeafIsNew, UsableLeavesOnly, NoLeafReuse
<1> QED
  BY <1>11, <1>12, <1>13, <1>14, <1>15, <1>16, <1>17, <1>18, <1>19, Zenon DEF LedgerInv

-----------------------------------------------------------------------------
(* The steps of ClaimAndSign, and those that leave it *)

-----------------------------------------------------------------------------
(* Steps that leave all files alone *)

\* The conjuncts about files only.
LEMMA FilesUnchanged ==
    ASSUME Step, UNCHANGED <<ledger, instanceId, minted, sentinel, held, built>>
    PROVE  IdsInv' /\ HeldInv' /\ OwnerInv' /\ SkNeverDiverges'
BY DEF Step, LedgerInv, IdsInv, HeldInv, OwnerInv, SkNeverDiverges, HasFile, SkMatches

\* Threads only leave ClaimAndSign and datadirs only go offline, so nobody
\* becomes able to sign.
LEMMA SignersShrink ==
    ASSUME Step, UNCHANGED <<ledger, instanceId, minted, sentinel>>,
           online' \subseteq online,
           \A t \in Threads : phase'[t] # "idle" => phase'[t] = phase[t] /\ req'[t] = req[t]
    PROVE  SoleSigner' /\ SignerIsCurrent'
<1>1. \A d \in Datadirs, r \in Roots : MaySign(d, r)' => MaySign(d, r)
  BY Zenon DEF MaySign
<1> QED
  BY <1>1, Zenon DEF Step, LedgerInv, SoleSigner, SignerIsCurrent, HasFile, TypeOK

\* Thread t stays inside ClaimAndSign, if it is there after the step.
Stays(t) ==
    /\ phase'[t] = phase[t] /\ req'[t] = req[t] /\ mem'[t] = mem[t]
    /\ mutex'[DirOf[t]] = mutex[DirOf[t]] /\ DirOf[t] \in online'

\* Calls in flight stay as they are when other calls end.
LEMMA CallersStay ==
    ASSUME Step, UNCHANGED <<ledger, instanceId, minted>>,
           \A t \in Threads : phase'[t] # "idle" => Stays(t)
    PROVE  CallInv'
<1> SUFFICES ASSUME NEW t \in Threads, phase'[t] # "idle" PROVE InCallInv(t)'
  BY Zenon DEF CallInv
<1>1. Stays(t) /\ InCallInv(t)
  BY Zenon DEF Step, LedgerInv, CallInv, Stays
<1> QED
  BY <1>1, Zenon DEF InCallInv, Stays, HasFile, IsXMSSTreeBlacklisted

\* The thread that leaves was the only one of its process inside.
LEMMA LeaveFacts ==
    ASSUME Step, NEW t \in Threads, phase[t] # "idle", Leave(t), UNCHANGED online
    PROVE  \A u \in Threads : phase'[u] # "idle" => u # t /\ Stays(u)
<1> USE ConstantsOK
<1> SUFFICES ASSUME NEW u \in Threads, phase'[u] # "idle" PROVE u # t /\ Stays(u)
  BY Zenon
<1>1. u # t /\ phase'[u] = phase[u] /\ req'[u] = req[u] /\ mem'[u] = mem[u]
  BY Zenon DEF Leave, Step, TypeOK
<1>2. mutex[DirOf[u]] = u /\ mutex[DirOf[t]] = t /\ DirOf[u] \in online
  BY <1>1, ZenonT(60) DEF Step, LedgerInv, CallInv, InCallInv
<1>3. mutex'[DirOf[u]] = mutex[DirOf[u]]
  BY <1>1, <1>2, Zenon DEF Leave, Step, TypeOK
<1> QED
  BY <1>1, <1>2, <1>3, Zenon DEF Stays

\* A claim that fails after signing: the thread forgets it and leaves.
LEMMA DiscardStep == ASSUME Step, NEW t \in Threads, Discard(t) PROVE LedgerInv'
<1>1. UNCHANGED <<ledger, instanceId, minted, sentinel, held, built, online, released>>
  BY Zenon DEF Discard, store
<1>2. \A u \in Threads : phase'[u] # "idle" => Stays(u)
  BY <1>1, LeaveFacts, Zenon DEF Discard
<1>3. IdsInv' /\ HeldInv' /\ OwnerInv' /\ SkNeverDiverges'
  BY <1>1, FilesUnchanged, Zenon
<1>4. SoleSigner' /\ SignerIsCurrent'
  BY <1>1, <1>2, SignersShrink, Zenon DEF Stays
<1>5. CallInv'
  BY <1>1, <1>2, CallersStay, Zenon
<1>6. DurableBeforeRelease' /\ PendingLeafIsNew' /\ UsableLeavesOnly' /\ NoLeafReuse'
  BY <1>1, <1>2, Zenon DEF Step, LedgerInv, Stays, DurableBeforeRelease, PendingLeafIsNew,
                    UsableLeavesOnly, NoLeafReuse
<1> QED
  BY <1>3, <1>4, <1>5, <1>6, Zenon DEF LedgerInv

\* Crash and Retire make every thread of one datadir idle.
LEMMA IdleStep ==
    ASSUME Step, NEW d \in Datadirs, Idle(d), online' \in {online, online \ {d}},
           UNCHANGED <<ledger, instanceId, minted, sentinel, held, built, released>>
    PROVE  LedgerInv'
<1> USE ConstantsOK
<1>1. IdsInv' /\ HeldInv' /\ OwnerInv' /\ SkNeverDiverges'
  BY FilesUnchanged, Zenon
<1>2. \A t \in Threads : phase'[t] # "idle" => Stays(t)
  <2> SUFFICES ASSUME NEW t \in Threads, phase'[t] # "idle" PROVE Stays(t)
    BY Zenon
  <2>1. DirOf[t] # d /\ phase'[t] = phase[t] /\ req'[t] = req[t] /\ mem'[t] = mem[t]
    BY Zenon DEF Idle, Step, TypeOK
  <2>2. mutex'[DirOf[t]] = mutex[DirOf[t]]
    BY <2>1, Zenon DEF Idle, Step, TypeOK
  <2>3. DirOf[t] \in online
    BY <2>1, Zenon DEF Step, LedgerInv, CallInv, InCallInv
  <2> QED
    BY <2>1, <2>2, <2>3, Zenon DEF Stays
<1>3. SoleSigner' /\ SignerIsCurrent'
  BY <1>2, SignersShrink, Zenon DEF Stays
<1>4. CallInv'
  BY <1>2, CallersStay, Zenon
<1>5. DurableBeforeRelease' /\ PendingLeafIsNew' /\ UsableLeavesOnly' /\ NoLeafReuse'
  BY <1>2, Zenon DEF Step, LedgerInv, Stays, DurableBeforeRelease, PendingLeafIsNew,
              UsableLeavesOnly, NoLeafReuse
<1> QED
  BY <1>1, <1>3, <1>4, <1>5, Zenon DEF LedgerInv

\* Two threads inside ClaimAndSign for one tree are the same thread.
LEMMA OneThreadPerTree ==
    ASSUME Step, NEW t \in Threads, NEW u \in Threads,
           phase[t] # "idle", phase[u] # "idle", req[t].root = req[u].root
    PROVE  t = u
<1> USE ConstantsOK
<1> DEFINE r == req[t].root
<1>1. r \in Roots
  BY Zenon DEF Step, TypeOK
<1>2. MaySign(DirOf[t], r) /\ MaySign(DirOf[u], r)
  BY Zenon DEF Step, LedgerInv, CallInv, InCallInv, IsXMSSTreeBlacklisted, MaySign, HasFile
<1>3. DirOf[t] = DirOf[u]
  BY <1>1, <1>2, Zenon DEF Step, LedgerInv, CallInv, InCallInv, IsXMSSTreeBlacklisted, SoleSigner
<1> QED
  BY <1>3, SMTT(60) DEF Step, LedgerInv, CallInv, InCallInv

\* Handing out the signature: its leaf is above every leaf handed out before.
LEMMA ReturnStep == ASSUME Step, NEW t \in Threads, ReturnSignature(t) PROVE LedgerInv'
<1> USE ConstantsOK
<1>1. phase[t] = "saved" /\ UNCHANGED <<ledger, instanceId, minted, sentinel, held, built, online>>
  BY Zenon DEF ReturnSignature, store
<1>2. \A u \in Threads : phase'[u] # "idle" => u # t /\ Stays(u)
  BY <1>1, LeaveFacts, Zenon DEF ReturnSignature
<1>0. PICK x : x = [root |-> req[t].root, leaf |-> mem[t].next - 1, msg |-> req[t].msg]
  BY Zenon
<1>3. released' = released \cup {x} /\ x.root = req[t].root /\ x.leaf = mem[t].next - 1
  BY <1>0, Zenon DEF ReturnSignature
<1>4. PICK d \in Datadirs : /\ HasFile(d, x.root) /\ ledger[d][x.root] = mem[t]
                            /\ mem[t].next >= 1 /\ x.root \notin Blacklisted
  <2>1. InCallInv(t)
    BY <1>1, Zenon DEF Step, LedgerInv, CallInv
  <2>2. DirOf[t] \in Datadirs
    BY Zenon
  <2> QED
    BY <1>1, <1>3, <2>1, <2>2, Zenon DEF InCallInv, IsXMSSTreeBlacklisted
<1>5. mem[t].next \in 0..MaxLeaves
  BY Zenon DEF Step, TypeOK, File
<1>6. x.leaf \in 0..(MaxLeaves - 1) /\ x.leaf < ledger[d][x.root].next
  BY <1>3, <1>4, <1>5
<1>7. \A y \in released : y.root = x.root => y.leaf < x.leaf /\ y.leaf \in Int
  BY <1>1, <1>3 DEF Step, LedgerInv, PendingLeafIsNew, TypeOK, Signature
<1>8. IdsInv' /\ HeldInv' /\ OwnerInv' /\ SkNeverDiverges'
  BY <1>1, FilesUnchanged, Zenon
<1>9. SoleSigner' /\ SignerIsCurrent'
  BY <1>1, <1>2, SignersShrink, Zenon DEF Stays
<1>10. CallInv'
  BY <1>1, <1>2, CallersStay, Zenon
<1>11. DurableBeforeRelease'
  <2>1. DurableBeforeRelease
    BY Zenon DEF Step, LedgerInv
  <2> QED
    BY <1>1, <1>3, <1>4, <1>6, <2>1, Zenon DEF DurableBeforeRelease, HasFile
<1>12. PendingLeafIsNew'
  <2> SUFFICES ASSUME NEW u \in Threads, phase'[u] = "saved", NEW y \in released',
                      y.root = req'[u].root
               PROVE  y.leaf < mem'[u].next - 1
    BY Zenon DEF PendingLeafIsNew
  <2>1. u # t /\ phase[u] = "saved" /\ req'[u] = req[u] /\ mem'[u] = mem[u]
    BY <1>2, Zenon DEF Stays
  <2>2. req[u].root # req[t].root
    BY <1>1, <2>1, OneThreadPerTree, Zenon
  <2>3. y \in released
    BY <1>3, <2>1, <2>2, Zenon
  <2> QED
    BY <2>1, <2>3, Zenon DEF Step, LedgerInv, PendingLeafIsNew
<1>13. UsableLeavesOnly'
  <2>1. UsableLeavesOnly
    BY Zenon DEF Step, LedgerInv
  <2> QED
    BY <1>3, <1>4, <1>6, <2>1, Zenon DEF UsableLeavesOnly
<1>14. NoLeafReuse'
  <2> SUFFICES ASSUME NEW y \in released', NEW z \in released',
                      y.root = z.root, y.leaf = z.leaf
               PROVE  y.msg = z.msg
    BY Zenon DEF NoLeafReuse
  <2>1. CASE y \in released /\ z \in released
    BY <2>1, Zenon DEF Step, LedgerInv, NoLeafReuse
  <2>2. CASE y = x \/ z = x
    BY <2>2, <1>3, <1>6, <1>7
  <2> QED
    BY <1>3, <2>1, <2>2, Zenon
<1> QED
  BY <1>8, <1>9, <1>10, <1>11, <1>12, <1>13, <1>14, Zenon DEF LedgerInv

-----------------------------------------------------------------------------
(* Steps that write a file *)

\* The rename of SaveLocked: the signing datadir's file advances by one leaf.
LEMMA SaveStep == ASSUME Step, NEW t \in Threads, SaveLocked(t) PROVE LedgerInv'
<1> USE ConstantsOK
<1>1. PICK d \in Datadirs, r \in Roots, g \in File :
         d = DirOf[t] /\ r = req[t].root /\ g = mem[t] /\ WriteFile(d, r, g)
  <2>1. DirOf[t] \in Datadirs /\ req[t].root \in Roots /\ mem[t] \in File
    BY Zenon DEF Step, TypeOK
  <2>2. WriteFile(DirOf[t], req[t].root, mem[t])
    BY Zenon DEF SaveLocked, WriteFile
  <2> QED
    BY <2>1, <2>2, Zenon
<1>2. /\ phase[t] = "signed"
      /\ UNCHANGED <<instanceId, minted, sentinel, held, built, online, mutex, req, mem, released>>
  BY Zenon DEF SaveLocked
<1>3. InCallInv(t)
  BY <1>2, Zenon DEF Step, LedgerInv, CallInv
<1>4. d \in online /\ mutex[d] = t /\ HasFile(d, r)
  BY <1>1, <1>3, Zenon DEF InCallInv
<1>5. g.sk = g.next /\ g.next = ledger[d][r].next + 1 /\ ledger[d][r].next \in Nat
  BY <1>1, <1>2, <1>3, <1>4, SMTT(60) DEF InCallInv, HasFile, Step, TypeOK, File
<1>6. g.owner \in 1..minted /\ g.owner \in Nat /\ \A e \in Datadirs : instanceId[e] = g.owner => e = d
  BY <1>1, <1>3, Zenon DEF InCallInv, File
<1>7. \A e \in Datadirs, q \in Roots :
         ledger'[e][q] = IF e = d /\ q = r THEN g ELSE ledger[e][q]
  BY <1>1, FileUpdate DEF Step
<1>8. g # NoFile /\ g.next \in Nat
  BY DEF File
<1>9. \A e \in Datadirs, q \in Roots : HasFile(e, q)' <=> HasFile(e, q)
  BY <1>4, <1>7, <1>8, Zenon DEF HasFile
<1>10. \A u \in Threads : phase'[u] = IF u = t THEN "saved" ELSE phase[u]
  BY Zenon DEF SaveLocked, Step, TypeOK
<1>11. MaySign(d, r)
  BY <1>1, <1>2, <1>4, Zenon DEF MaySign, HasFile
<1>12. \A e \in Datadirs, q \in Roots : MaySign(e, q)' => MaySign(e, q)
  <2> SUFFICES ASSUME NEW e \in Datadirs, NEW q \in Roots, MaySign(e, q)', ~(e = d /\ q = r)
               PROVE  MaySign(e, q)
    BY <1>11, Zenon
  <2>1. ledger'[e][q] = ledger[e][q] /\ instanceId'[e] = instanceId[e] /\ sentinel' = sentinel
    BY <1>2, <1>7, Zenon
  <2>2. \A u \in Threads : req'[u] = req[u] /\ (phase'[u] # "idle" => phase[u] # "idle")
    BY <1>2, <1>10, Zenon
  <2> QED
    BY <2>1, <2>2, Zenon DEF MaySign
<1>13. IdsInv'
  <2>1. IdsInv /\ minted \in Nat
    BY Zenon DEF Step, LedgerInv, TypeOK
  <2>2. \A e \in Datadirs, q \in Roots : HasFile(e, q)' => ledger'[e][q].owner <= minted
    BY <1>6, <1>7, <1>9, <2>1 DEF IdsInv
  <2> QED
    BY <1>2, <2>1, <2>2, Zenon DEF IdsInv
<1>14. CallInv'
  <2> SUFFICES ASSUME NEW u \in Threads, phase'[u] # "idle" PROVE InCallInv(u)'
    BY Zenon DEF CallInv
  <2>1. InCallInv(u)
    BY <1>2, <1>10, Zenon DEF Step, LedgerInv, CallInv
  <2>2. DirOf[u] \in Datadirs /\ req[u].root \in Roots
    BY Zenon DEF Step, TypeOK
  <2>3. CASE u = t
    BY <1>1, <1>2, <1>7, <1>9, <1>10, <2>1, <2>3, Zenon DEF InCallInv
  <2>4. CASE u # t
    <3>1. DirOf[u] # d
      BY <1>4, <2>1, <2>4, Zenon DEF InCallInv
    <3>2. ledger'[DirOf[u]][req[u].root] = ledger[DirOf[u]][req[u].root]
      BY <1>7, <2>2, <3>1, Zenon
    <3> QED
      BY <1>2, <1>9, <1>10, <2>1, <2>2, <2>4, <3>2, Zenon DEF InCallInv
  <2> QED
    BY <2>3, <2>4, Zenon
<1>15. HeldInv'
  BY <1>2, <1>9, Zenon DEF Step, LedgerInv, HeldInv, TypeOK, Snapshot
<1>16. OwnerInv'
  <2>1. OwnerInv
    BY Zenon DEF Step, LedgerInv
  <2>2. ASSUME NEW c \in Datadirs, NEW e \in Datadirs, NEW q \in Roots, HasFile(c, q),
               ledger'[c][q].owner # 0, ledger'[c][q].owner = instanceId[e]
        PROVE  HasFile(e, q)
    BY <1>4, <1>6, <1>7, <2>1, <2>2, Zenon DEF OwnerInv
  <2>3. ASSUME NEW c \in Datadirs, NEW e \in Datadirs, NEW q \in Roots, HasFile(c, q),
               ledger'[c][q].owner = 0, HasFile(e, q)
        PROVE  e = c
    BY <1>6, <1>7, <2>1, <2>3 DEF OwnerInv
  <2> QED
    BY <1>2, <1>9, <2>1, <2>2, <2>3, Zenon DEF OwnerInv
<1>17. SkNeverDiverges'
  BY <1>5, <1>7 DEF Step, LedgerInv, SkNeverDiverges, SkMatches
<1>18. SoleSigner'
  BY <1>2, <1>12, Zenon DEF Step, LedgerInv, SoleSigner, TypeOK
<1>19. SignerIsCurrent'
  <2> SUFFICES ASSUME NEW e \in online, NEW q \in Roots, MaySign(e, q)',
                      NEW c \in Datadirs, HasFile(c, q)'
               PROVE  ledger'[c][q].next <= ledger'[e][q].next
    BY <1>2, Zenon DEF SignerIsCurrent
  <2>0. e \in Datadirs
    BY Zenon DEF Step, TypeOK
  <2>1. MaySign(e, q) /\ HasFile(e, q) /\ HasFile(c, q)
    <3>1. MaySign(e, q) /\ HasFile(c, q)
      BY <1>9, <1>12, <2>0, Zenon
    <3> QED
      BY <3>1, Zenon DEF MaySign, HasFile
  <2>2. ledger[c][q].next <= ledger[e][q].next
    BY <2>1, Zenon DEF Step, LedgerInv, SignerIsCurrent
  <2>3. q = r => e = d
    BY <1>4, <1>11, <2>0, <2>1, Zenon DEF Step, LedgerInv, SoleSigner
  <2>4. ledger[c][q].next \in Nat /\ ledger[e][q].next \in Nat
    BY <2>0, <2>1 DEF Step, TypeOK, File, HasFile
  <2> QED
    BY <1>5, <1>7, <1>8, <2>0, <2>2, <2>3, <2>4, SMTT(60)
<1>20. DurableBeforeRelease'
  <2> SUFFICES ASSUME NEW x \in released
               PROVE  \E e \in Datadirs : HasFile(e, x.root)' /\ x.leaf < ledger'[e][x.root].next
    BY <1>2, Zenon DEF DurableBeforeRelease, HasFile
  <2>1. PICK e \in Datadirs : HasFile(e, x.root) /\ x.leaf < ledger[e][x.root].next
    BY Zenon DEF Step, LedgerInv, DurableBeforeRelease, HasFile
  <2>2. x.root \in Roots /\ x.leaf \in Int /\ ledger[e][x.root].next \in Nat
    BY <2>1 DEF Signature, Step, TypeOK, File, HasFile
  <2>3. x.leaf < ledger'[e][x.root].next
    BY <1>5, <1>7, <1>8, <2>1, <2>2
  <2> QED
    BY <1>9, <2>1, <2>2, <2>3, Zenon
<1>21. PendingLeafIsNew'
  <2> SUFFICES ASSUME NEW u \in Threads, phase'[u] = "saved", NEW x \in released,
                      x.root = req[u].root
               PROVE  x.leaf < mem[u].next - 1
    BY <1>2, Zenon DEF PendingLeafIsNew
  <2>1. CASE u # t
    BY <1>10, <2>1, Zenon DEF Step, LedgerInv, PendingLeafIsNew
  <2>2. CASE u = t
    <3>1. PICK e \in Datadirs : HasFile(e, r) /\ x.leaf < ledger[e][r].next
      BY <1>1, <2>2, Zenon DEF Step, LedgerInv, DurableBeforeRelease, HasFile
    <3>2. ledger[e][r].next <= ledger[d][r].next
      BY <1>4, <1>11, <3>1, Zenon DEF Step, LedgerInv, SignerIsCurrent
    <3>3. x.leaf \in Int /\ ledger[e][r].next \in Nat
      BY <3>1 DEF Signature, Step, TypeOK, File, HasFile
    <3>4. x.leaf < g.next - 1
      BY <1>5, <3>1, <3>2, <3>3
    <3> QED
      BY <1>1, <2>2, <3>4, Zenon
  <2> QED
    BY <2>1, <2>2, Zenon
<1>22. UsableLeavesOnly' /\ NoLeafReuse'
  BY <1>2, Zenon DEF Step, LedgerInv, UsableLeavesOnly, NoLeafReuse
<1> QED
  BY <1>13, <1>14, <1>15, <1>16, <1>17, <1>18, <1>19, <1>20, <1>21, <1>22, Zenon DEF LedgerInv

-----------------------------------------------------------------------------
(* A claim, where the ownership stamp decides who signs *)

\* A claim up to xmss_sign: only a datadir that may sign gets past the checks.
LEMMA ClaimStep ==
    ASSUME Step, NEW t \in Threads, NEW r \in Roots, NEW m \in Msgs, ClaimAndSign(t, r, m)
    PROVE  LedgerInv'
<1> USE ConstantsOK
<1>0. PICK d \in Datadirs, f \in File : d = DirOf[t] /\ f = ledger[d][r] /\ HasFile(d, r)
  <2>1. DirOf[t] \in Datadirs /\ HasFile(DirOf[t], r)
    BY Zenon DEF ClaimAndSign, HasFile
  <2>2. ledger[DirOf[t]][r] \in File
    BY <2>1 DEF HasFile, Step, TypeOK
  <2> QED
    BY <2>1, <2>2, Zenon
<1>1. PICK id \in Ids :
        /\ GetOrCreateInstanceId(d, id)
        /\ \/ ~Foreign(f, id) /\ UNCHANGED sentinel
           \/ /\ Foreign(f, id) /\ <<d, r>> \in sentinel
              /\ sentinel' = sentinel \ {<<d, r>>}
        /\ IF ~IsExhausted(f) /\ SkMatches(f)
           THEN /\ mutex' = [mutex EXCEPT ![d] = t]
                /\ phase' = [phase EXCEPT ![t] = "signed"]
                /\ req' = [req EXCEPT ![t] = [root |-> r, msg |-> m]]
                /\ mem' = [mem EXCEPT ![t] =
                             [next |-> f.next + 1, sk |-> f.sk + 1, owner |-> id]]
           ELSE UNCHANGED threadVars
  BY <1>0, Zenon DEF ClaimAndSign
<1>2. /\ d \in online /\ phase[t] = "idle" /\ mutex[d] = Free /\ ~IsXMSSTreeBlacklisted(r)
      /\ UNCHANGED <<ledger, held, built, online, released>>
  BY <1>0, Zenon DEF ClaimAndSign, CanEnter
<1>3. \A u \in Threads : phase[u] # "idle" => DirOf[u] # d
  BY <1>2 DEF Step, LedgerInv, CallInv, InCallInv
<1>4. \A u \in Threads : u # t =>
         phase'[u] = phase[u] /\ req'[u] = req[u] /\ mem'[u] = mem[u]
  BY <1>1, Zenon DEF threadVars, Step, TypeOK
<1>5. phase'[t] # "idle" =>
         /\ SkMatches(f) /\ ~IsExhausted(f) /\ phase'[t] = "signed" /\ req'[t].root = r /\ mutex'[d] = t
         /\ mem'[t] = [next |-> f.next + 1, sk |-> f.sk + 1, owner |-> id]
  BY <1>0, <1>1, <1>2 DEF threadVars, Step, TypeOK
<1>6. \A e \in Datadirs : e # d => mutex'[e] = mutex[e]
  BY <1>1, Zenon DEF threadVars, Step, TypeOK
<1>7. MaySign(d, r)
  <2>1. id # instanceId[d] => id = minted + 1
    BY <1>1, Zenon DEF GetOrCreateInstanceId
  <2>2. f.owner <= minted /\ f.owner \in Nat /\ minted \in Nat
    BY <1>0, Zenon DEF Step, LedgerInv, IdsInv, TypeOK, File
  <2>3. CASE <<d, r>> \in sentinel
    BY <1>0, <2>3, Zenon DEF MaySign, HasFile
  <2>4. CASE ~Foreign(f, id)
    <3>1. f.owner \in {0, instanceId[d]}
      BY <2>1, <2>2, <2>4 DEF Foreign
    <3> QED
      BY <1>0, <3>1, Zenon DEF MaySign, HasFile
  <2> QED
    BY <1>1, <2>3, <2>4, Zenon
<1>8. \A e \in Datadirs, q \in Roots : MaySign(e, q)' => MaySign(e, q)
  <2> SUFFICES ASSUME NEW e \in Datadirs, NEW q \in Roots, MaySign(e, q)', ~(e = d /\ q = r)
               PROVE  MaySign(e, q)
    BY <1>7, Zenon
  <2>1. HasFile(e, q) /\ ledger'[e][q] = ledger[e][q]
    BY <1>2, Zenon DEF MaySign, HasFile
  <2>2. CASE ledger[e][q].owner \in {0, instanceId'[e]}
    <3>1. ledger[e][q].owner \in Nat /\ ledger[e][q].owner <= minted /\ minted \in Nat
      BY <2>1 DEF Step, LedgerInv, IdsInv, TypeOK, File, HasFile
    <3>2. CASE ledger[e][q].owner = 0
      BY <3>2, <2>1, Zenon DEF MaySign, HasFile
    <3>3. CASE ledger[e][q].owner # 0
      <4>1. ledger[e][q].owner \in 1..minted
        BY <3>1, <3>3
      <4>2. instanceId[e] = ledger[e][q].owner
        BY <1>1, <1>2, <2>2, <3>3, <4>1, NewIdOwnsNothing, Zenon
      <4> QED
        BY <2>1, <4>2, Zenon DEF MaySign, HasFile
    <3> QED
      BY <3>2, <3>3, Zenon
  <2>3. CASE <<e, q>> \in sentinel'
    BY <1>1, <2>1, <2>3, Zenon DEF MaySign, HasFile
  <2>4. CASE \E u \in Threads : DirOf[u] = e /\ phase'[u] # "idle" /\ req'[u].root = q
    BY <1>0, <1>4, <1>5, <2>1, <2>4, Zenon DEF MaySign, HasFile
  <2> QED
    BY <2>1, <2>2, <2>3, <2>4, Zenon DEF MaySign
<1>9. IdsInv'
  <2>1. IdsInv /\ minted \in Nat
    BY Zenon DEF Step, LedgerInv, TypeOK
  <2>2. \A e \in Datadirs, q \in Roots : HasFile(e, q) => ledger[e][q].owner \in Nat
    BY DEF Step, TypeOK, File, HasFile
  <2>3. minted' \in Nat /\ minted <= minted'
    BY <1>1, InstanceIdFacts, Zenon
  <2>4. \A e \in Datadirs, q \in Roots : HasFile(e, q)' => ledger'[e][q].owner <= minted'
    BY <1>2, <2>1, <2>2, <2>3, SMTT(60) DEF IdsInv, HasFile
  <2> QED
    BY <1>1, <2>4, InstanceIdFacts, Zenon DEF IdsInv
<1>10. CallInv'
  <2> SUFFICES ASSUME NEW u \in Threads, phase'[u] # "idle" PROVE InCallInv(u)'
    BY Zenon DEF CallInv
  <2>1. CASE u = t
    <3>1. f.sk = f.next /\ f.next \in Nat
      BY <1>5, <2>1, Zenon DEF SkMatches, File
    <3>2. id \in 1..minted' /\ \A e \in Datadirs : instanceId'[e] = id => e = d
      BY <1>1, <1>2, InstanceIdFacts, Zenon
    <3> QED
      BY <1>0, <1>2, <1>5, <2>1, <3>1, <3>2, SMTT(60) DEF InCallInv, HasFile, IsXMSSTreeBlacklisted
  <2>2. CASE u # t
    <3>1. InCallInv(u) /\ DirOf[u] # d
      BY <1>3, <1>4, <2>2, Zenon DEF Step, LedgerInv, CallInv
    <3>2. mem[u].owner \in 1..minted /\ minted \in Nat
      BY <3>1, Zenon DEF InCallInv, Step, TypeOK
    <3>3. mem[u].owner \in 1..minted'
      <4>1. minted' \in Nat /\ minted <= minted'
        BY <1>1, InstanceIdFacts, ZenonT(60)
      <4> QED
        BY <3>2, <4>1, SMTT(60)
    <3>4. \A e \in Datadirs : instanceId'[e] = mem[u].owner => e = DirOf[u]
      BY <1>1, <1>2, <3>1, <3>2, NewIdOwnsNothing, Zenon DEF InCallInv
    <3>5. mutex'[DirOf[u]] = mutex[DirOf[u]]
      BY <1>6, <3>1, Zenon
    <3> QED
      BY <1>2, <1>4, <2>2, <3>1, <3>3, <3>4, <3>5, ZenonT(60) DEF InCallInv, HasFile
  <2> QED
    BY <2>1, <2>2, Zenon
<1>11. HeldInv' /\ SkNeverDiverges'
  <2>1. HeldInv'
    BY <1>2, Zenon DEF Step, LedgerInv, HeldInv, HasFile
  <2>2. SkNeverDiverges'
    BY <1>2, Zenon DEF Step, LedgerInv, SkNeverDiverges, HasFile, SkMatches
  <2> QED
    BY <2>1, <2>2, Zenon
<1>12. OwnerInv'
  <2>1. ASSUME NEW c \in Datadirs, NEW e \in Datadirs, NEW q \in Roots, HasFile(c, q),
               ledger[c][q].owner # 0, ledger[c][q].owner = instanceId'[e]
        PROVE  HasFile(e, q)
    <3>1. ledger[c][q].owner \in 1..minted
      BY <2>1 DEF Step, LedgerInv, IdsInv, TypeOK, File, HasFile
    <3>2. ledger[c][q].owner = instanceId[e]
      BY <1>1, <1>2, <2>1, <3>1, NewIdOwnsNothing, Zenon
    <3> QED
      BY <2>1, <3>2, Zenon DEF Step, LedgerInv, OwnerInv
  <2>2. sentinel' \subseteq sentinel
    BY <1>1, Zenon
  <2> QED
    BY <1>2, <2>1, <2>2 DEF Step, LedgerInv, OwnerInv, HasFile
<1>13. SoleSigner'
  BY <1>2, <1>8, Zenon DEF Step, LedgerInv, SoleSigner, TypeOK
<1>14. SignerIsCurrent'
  BY <1>2, <1>8, Zenon DEF Step, LedgerInv, SignerIsCurrent, HasFile, TypeOK
<1>15. PendingLeafIsNew'
  BY <1>2, <1>4, <1>5, Zenon DEF Step, LedgerInv, PendingLeafIsNew
<1>16. DurableBeforeRelease' /\ UsableLeavesOnly' /\ NoLeafReuse'
  BY <1>2, Zenon DEF Step, LedgerInv, DurableBeforeRelease, UsableLeavesOnly, NoLeafReuse
<1> QED
  BY <1>9, <1>10, <1>11, <1>12, <1>13, <1>14, <1>15, <1>16, Zenon DEF LedgerInv

-----------------------------------------------------------------------------
(* The other steps, and the theorems *)

\* A new tree: only the set of snapshots grows, by one of an unused root.
LEMMA BuildStep == ASSUME Step, NEW t \in Threads, BuildNewTree(t) PROVE LedgerInv'
<1> USE ConstantsOK
<1> DEFINE d == DirOf[t]
<1>1. PICK r \in Roots \ built :
         /\ built' = built \cup {r}
         /\ held' = [held EXCEPT ![d] = @ \cup {[root |-> r, next |-> 0, sk |-> 0]}]
  BY Zenon DEF BuildNewTree
<1>2. UNCHANGED <<ledger, instanceId, minted, sentinel, online, mutex, phase, req, mem, released>>
  BY Zenon DEF BuildNewTree, threadVars
<1> DEFINE n == [root |-> r, next |-> 0, sk |-> 0]
<1>3. d \in Datadirs
  BY Zenon DEF Step, TypeOK
<1>4. \A e \in Datadirs : \A x : x \in held'[e] <=> x \in held[e] \/ (e = d /\ x = n)
  BY <1>1, <1>3, Zenon DEF Step, TypeOK
<1>5. \A e \in Datadirs : ~HasFile(e, r) /\ \A x \in held[e] : x.root # r
  BY <1>1 DEF Step, LedgerInv, HeldInv
<1>6. HeldInv'
  <2>1. ASSUME NEW e \in Datadirs, NEW x \in held'[e]
        PROVE  /\ x.sk = x.next /\ x.root \in built'
               /\ HasFile(e, x.root)' \/ \A c \in Datadirs : ~HasFile(c, x.root)'
               /\ \A c \in Datadirs : \A y \in held'[c] : y.root = x.root => c = e
    <3>1. CASE x \in held[e]
      <4>1. x.root # r
        BY <1>5, <3>1, Zenon
      <4> QED
        BY <1>1, <1>2, <1>4, <3>1, <4>1, SMTT(60) DEF Step, LedgerInv, HeldInv, HasFile
    <3>2. CASE e = d /\ x = n
      BY <1>1, <1>2, <1>4, <1>5, <3>2, Zenon DEF HasFile
    <3> QED
      BY <1>4, <2>1, <3>1, <3>2, Zenon
  <2>2. \A e \in Datadirs, q \in Roots : HasFile(e, q)' => q \in built'
    BY <1>1, <1>2, Zenon DEF Step, LedgerInv, HeldInv, HasFile
  <2> QED
    BY <2>1, <2>2, Zenon DEF HeldInv
<1>7. IdsInv' /\ OwnerInv' /\ SkNeverDiverges'
  BY <1>2, SMTT(60) DEF Step, LedgerInv, IdsInv, OwnerInv, SkNeverDiverges, HasFile, SkMatches
<1>8. CallInv'
  BY <1>2, ZenonT(60) DEF Step, LedgerInv, CallInv, InCallInv, HasFile
<1>9. SoleSigner' /\ SignerIsCurrent'
  BY <1>2, SignersShrink, Zenon
<1>10. DurableBeforeRelease' /\ PendingLeafIsNew' /\ UsableLeavesOnly' /\ NoLeafReuse'
  BY <1>2, Zenon DEF Step, LedgerInv, DurableBeforeRelease, PendingLeafIsNew, UsableLeavesOnly, NoLeafReuse
<1> QED
  BY <1>6, <1>7, <1>8, <1>9, <1>10, Zenon DEF LedgerInv

\* A copied file carries a stamp that is not the stamp of its new datadir.
LEMMA CopyStep ==
    ASSUME Step, NEW from \in Datadirs, NEW to \in Datadirs, NEW r \in Roots,
           CopyLedger(from, to, r)
    PROVE  LedgerInv'
<1> USE ConstantsOK
<1> DEFINE g == ledger[from][r]
<1>1. /\ HasFile(from, r) /\ g.owner # 0 /\ ~HasFile(to, r) /\ from # to /\ g # NoFile
      /\ UNCHANGED <<instanceId, minted, sentinel, held, built, online,
                     mutex, phase, req, mem, released>>
  BY Zenon DEF CopyLedger, threadVars, HasFile
<1>2. g \in File
  BY <1>1 DEF Step, TypeOK, HasFile
<1>3. \A e \in Datadirs, q \in Roots :
         ledger'[e][q] = IF e = to /\ q = r THEN g ELSE ledger[e][q]
  <2>1. WriteFile(to, r, g) /\ TypeOK
    BY Zenon DEF CopyLedger, WriteFile, Step
  <2> HIDE DEF g
  <2> QED
    BY <1>2, <2>1, FileUpdate
<1>4. \A e \in Datadirs, q \in Roots : HasFile(e, q)' <=> HasFile(e, q) \/ (e = to /\ q = r)
  BY <1>1, <1>3, Zenon DEF HasFile
<1>5. ~MaySign(to, r)'
  <2>1. g.owner # instanceId[to]
    BY <1>1, Zenon DEF Step, LedgerInv, OwnerInv
  <2>2. <<to, r>> \notin sentinel
    BY <1>1, Zenon DEF Step, LedgerInv, OwnerInv
  <2>3. ~\E t \in Threads : DirOf[t] = to /\ phase[t] # "idle" /\ req[t].root = r
    BY <1>1, ZenonT(60) DEF Step, LedgerInv, CallInv, InCallInv
  <2>4. ledger'[to][r] = g
    BY <1>3, Zenon
  <2> QED
    BY <1>1, <2>1, <2>2, <2>3, <2>4, Zenon DEF MaySign
<1>6. \A e \in Datadirs, q \in Roots : MaySign(e, q)' =>
         ~(e = to /\ q = r) /\ MaySign(e, q) /\ ledger'[e][q] = ledger[e][q]
  BY <1>1, <1>3, <1>5 DEF MaySign
<1>7. IdsInv'
  BY <1>1, <1>3, <1>4, SMTT(60) DEF Step, LedgerInv, IdsInv
<1>8. CallInv'
  <2> SUFFICES ASSUME NEW t \in Threads, phase[t] # "idle" PROVE InCallInv(t)'
    BY <1>1, Zenon DEF CallInv
  <2>1. InCallInv(t) /\ DirOf[t] \in Datadirs /\ req[t].root \in Roots
    BY Zenon DEF Step, LedgerInv, CallInv, TypeOK
  <2>2. ~(DirOf[t] = to /\ req[t].root = r)
    BY <1>1, <2>1, Zenon DEF InCallInv
  <2> QED
    BY <1>1, <1>3, <2>1, <2>2, Zenon DEF InCallInv, HasFile
<1>9. HeldInv'
  <2>1. ASSUME NEW e \in Datadirs, NEW x \in held[e]
        PROVE  HasFile(e, x.root)' \/ \A c \in Datadirs : ~HasFile(c, x.root)'
    <3>1. x.root \in Roots
      BY DEF Step, TypeOK, Snapshot
    <3>2. HasFile(e, x.root) \/ \A c \in Datadirs : ~HasFile(c, x.root)
      BY Zenon DEF Step, LedgerInv, HeldInv
    <3> QED
      BY <1>1, <1>4, <3>1, <3>2, Zenon
  <2>2. \A e \in Datadirs, q \in Roots : HasFile(e, q)' => q \in built
    BY <1>1, <1>4, ZenonT(60) DEF Step, LedgerInv, HeldInv
  <2> QED
    BY <1>1, <2>1, <2>2, Zenon DEF Step, LedgerInv, HeldInv
<1>10. OwnerInv'
  <2>1. ASSUME NEW c \in Datadirs, NEW e \in Datadirs, NEW q \in Roots, HasFile(c, q)',
               ledger'[c][q].owner # 0, ledger'[c][q].owner = instanceId[e]
        PROVE  HasFile(e, q)'
    <3>1. PICK b \in Datadirs : HasFile(b, q) /\ ledger[b][q] = ledger'[c][q]
      BY <1>1, <1>3, <1>4, <2>1, SMTT(60)
    <3> QED
      BY <1>4, <2>1, <3>1, Zenon DEF Step, LedgerInv, OwnerInv
  <2>2. ASSUME NEW c \in Datadirs, NEW e \in Datadirs, NEW q \in Roots, HasFile(c, q)',
               ledger'[c][q].owner = 0, HasFile(e, q)'
        PROVE  e = c
    <3>1. ~(c = to /\ q = r) /\ HasFile(c, q) /\ ledger[c][q].owner = 0
      BY <1>1, <1>3, <1>4, <2>2, Zenon
    <3>2. q # r
      BY <1>1, <3>1, Zenon DEF Step, LedgerInv, OwnerInv
    <3> QED
      BY <1>4, <2>2, <3>1, <3>2, Zenon DEF Step, LedgerInv, OwnerInv
  <2>3. \A e \in Datadirs, q \in Roots : <<e, q>> \in sentinel => HasFile(e, q)'
    BY <1>4, Zenon DEF Step, LedgerInv, OwnerInv
  <2> QED
    BY <1>1, <2>1, <2>2, <2>3, Zenon DEF OwnerInv
<1>11. SkNeverDiverges'
  BY <1>1, <1>3, SMTT(60) DEF Step, LedgerInv, SkNeverDiverges, SkMatches, HasFile
<1>12. SoleSigner'
  BY <1>1, <1>6 DEF Step, LedgerInv, SoleSigner, TypeOK
<1>13. SignerIsCurrent'
  <2> SUFFICES ASSUME NEW e \in online, NEW q \in Roots, MaySign(e, q)',
                      NEW c \in Datadirs, HasFile(c, q)'
               PROVE  ledger'[c][q].next <= ledger'[e][q].next
    BY <1>1, Zenon DEF SignerIsCurrent
  <2>1. e \in Datadirs
    BY Zenon DEF Step, TypeOK
  <2>2. PICK b \in Datadirs : HasFile(b, q) /\ ledger[b][q] = ledger'[c][q]
    BY <1>1, <1>3, <1>4
  <2> QED
    BY <1>6, <2>1, <2>2, ZenonT(60) DEF Step, LedgerInv, SignerIsCurrent
<1>14. DurableBeforeRelease'
  <2> SUFFICES ASSUME NEW x \in released
               PROVE  \E e \in Datadirs : HasFile(e, x.root)' /\ x.leaf < ledger'[e][x.root].next
    BY <1>1, Zenon DEF DurableBeforeRelease, HasFile
  <2>1. x.root \in Roots
    BY Zenon DEF Step, TypeOK, Signature
  <2>2. PICK e \in Datadirs : HasFile(e, x.root) /\ x.leaf < ledger[e][x.root].next
    BY Zenon DEF Step, LedgerInv, DurableBeforeRelease, HasFile
  <2> QED
    BY <1>1, <1>3, <1>4, <2>1, <2>2, Zenon
<1>15. PendingLeafIsNew' /\ UsableLeavesOnly' /\ NoLeafReuse'
  BY <1>1, Zenon DEF Step, LedgerInv, PendingLeafIsNew, UsableLeavesOnly, NoLeafReuse
<1> QED
  BY <1>7, <1>8, <1>9, <1>10, <1>11, <1>12, <1>13, <1>14, <1>15, Zenon DEF LedgerInv

\* The force-claim sentinel: a careful operator makes one more datadir a signer.
LEMMA DropStep ==
    ASSUME Step, NEW d \in Datadirs, NEW r \in Roots, DropSentinel(d, r) PROVE LedgerInv'
<1> USE ConstantsOK
<1>1. /\ HasFile(d, r) /\ OthersRetired(d, r) /\ CopyIsCurrent(d, r)
      /\ sentinel' = sentinel \cup {<<d, r>>}
      /\ UNCHANGED <<ledger, instanceId, minted, held, built, online,
                     mutex, phase, req, mem, released>>
  BY Zenon DEF DropSentinel, DropSentinelIf, threadVars, HasFile
<1>2. \A e \in Datadirs, q \in Roots : MaySign(e, q)' => MaySign(e, q) \/ (e = d /\ q = r)
  BY <1>1, Zenon DEF MaySign
<1>3. \A e \in online : MaySign(e, r) => e = d
  BY <1>1, Zenon DEF OthersRetired, MaySign, Step, TypeOK
<1>4. IdsInv' /\ HeldInv' /\ SkNeverDiverges'
  <2>1. IdsInv'
    BY <1>1, Zenon DEF Step, LedgerInv, IdsInv, HasFile
  <2>2. HeldInv'
    BY <1>1, Zenon DEF Step, LedgerInv, HeldInv, HasFile
  <2>3. SkNeverDiverges'
    BY <1>1, Zenon DEF Step, LedgerInv, SkNeverDiverges, HasFile, SkMatches
  <2> QED
    BY <2>1, <2>2, <2>3, Zenon
<1>5. OwnerInv'
  BY <1>1 DEF Step, LedgerInv, OwnerInv, HasFile
<1>6. CallInv'
  BY <1>1, ZenonT(60) DEF Step, LedgerInv, CallInv, InCallInv, HasFile
<1>7. SoleSigner'
  <2> SUFFICES ASSUME NEW c \in online, NEW e \in online, NEW q \in Roots,
                      MaySign(c, q)', MaySign(e, q)'
               PROVE  c = e
    BY <1>1, Zenon DEF SoleSigner
  <2>1. c \in Datadirs /\ e \in Datadirs
    BY Zenon DEF Step, TypeOK
  <2>2. CASE q = r
    BY <1>2, <1>3, <2>1, <2>2, Zenon
  <2>3. CASE q # r
    BY <1>2, <2>1, <2>3, Zenon DEF Step, LedgerInv, SoleSigner
  <2> QED
    BY <2>2, <2>3, Zenon
<1>8. SignerIsCurrent'
  <2>1. SignerIsCurrent /\ online \subseteq Datadirs
    BY Zenon DEF Step, LedgerInv, TypeOK
  <2> QED
    BY <1>1, <1>2, <2>1, Zenon DEF SignerIsCurrent, CopyIsCurrent, HasFile
<1>9. DurableBeforeRelease' /\ PendingLeafIsNew' /\ UsableLeavesOnly' /\ NoLeafReuse'
  BY <1>1, Zenon DEF Step, LedgerInv, DurableBeforeRelease, PendingLeafIsNew, UsableLeavesOnly, NoLeafReuse
<1> QED
  BY <1>4, <1>5, <1>6, <1>7, <1>8, <1>9, Zenon DEF LedgerInv

-----------------------------------------------------------------------------
(* The theorems *)

\* The initial states are well typed.
LEMMA InitType == Init => TypeOK
<1> SUFFICES ASSUME Init PROVE TypeOK
  BY Zenon
<1> USE ConstantsOK
<1>1. PICK origin \in [Roots -> Origin] : InitWith(origin)
  BY Zenon DEF Init
<1>2. \A r \in Roots : origin[r].next \in 0..MaxLeaves /\ origin[r].next \in Nat
  BY DEF Origin
<1>3. ledger \in [Datadirs -> [Roots -> File \cup {NoFile}]]
  <2>1. \A r \in Roots : [next |-> origin[r].next, sk |-> origin[r].next, owner |-> 0] \in File
    BY <1>2, Zenon DEF File
  <2> QED
    BY <1>1, <2>1, Zenon DEF InitWith
<1>4. held \in [Datadirs -> SUBSET Snapshot] /\ built \subseteq Roots
  <2>1. \A r \in Roots :
          [root |-> r, next |-> origin[r].next, sk |-> origin[r].next] \in Snapshot
    BY <1>2, Zenon DEF Snapshot
  <2> QED
    BY <1>1, <2>1, Zenon DEF InitWith
<1> QED
  BY <1>3, <1>4, DefaultsTyped, Zenon DEF Init, TypeOK

\* The invariant holds initially: one holder per tree, nothing signed.
LEMMA InitInv == Init => LedgerInv
<1> SUFFICES ASSUME Init PROVE LedgerInv
  BY Zenon
<1> USE ConstantsOK
<1>1. PICK origin \in [Roots -> Origin] : InitWith(origin)
  BY DEF Init
<1>2. TypeOK
  BY InitType, Zenon
<1>3. \A d \in Datadirs, r \in Roots :
        /\ HasFile(d, r) => /\ origin[r].kind = "v1file" /\ origin[r].dir = d
                            /\ ledger[d][r] = [next |-> origin[r].next,
                                               sk |-> origin[r].next, owner |-> 0]
  BY <1>1, Zenon DEF InitWith, HasFile
<1>4. \A d \in Datadirs : \A s \in held[d] :
        /\ s.root \in Roots /\ s.sk = s.next
        /\ origin[s.root].kind = "pointer" /\ origin[s.root].dir = d
  BY <1>1 DEF InitWith
<1>5. \A r \in Roots : r \in built <=> origin[r].kind # "none"
  BY <1>1, Zenon DEF InitWith
<1>6. \A d, e \in Datadirs, r \in Roots : HasFile(d, r) /\ HasFile(e, r) => d = e
  BY <1>3, Zenon
<1>16. \A d \in Datadirs, r \in Roots :
         HasFile(d, r) => ledger[d][r].owner = 0 /\ ledger[d][r].sk = ledger[d][r].next
  <2> SUFFICES ASSUME NEW d \in Datadirs, NEW r \in Roots, HasFile(d, r)
               PROVE  ledger[d][r].owner = 0 /\ ledger[d][r].sk = ledger[d][r].next
    BY Zenon
  <2>1. ledger[d][r] = [next |-> origin[r].next, sk |-> origin[r].next, owner |-> 0]
    BY <1>3, Zenon
  <2> QED
    BY <2>1
<1>17. minted = 0 /\ (\A d \in Datadirs : instanceId[d] = 0) /\ sentinel = {}
  BY Zenon DEF Init
<1>7. IdsInv
  BY <1>16, <1>17 DEF IdsInv
<1>8. HeldInv
  <2>1. \A d \in Datadirs : \A s \in held[d] :
           /\ s.root \in built
           /\ \A e \in Datadirs : ~HasFile(e, s.root)
           /\ \A e \in Datadirs : \A x \in held[e] : x.root = s.root => e = d
    <3> SUFFICES ASSUME NEW d \in Datadirs, NEW s \in held[d]
                 PROVE  /\ s.root \in built
                        /\ \A e \in Datadirs : ~HasFile(e, s.root)
                        /\ \A e \in Datadirs : \A x \in held[e] : x.root = s.root => e = d
      BY Zenon
    <3>1. s.root \in Roots /\ origin[s.root].kind = "pointer" /\ origin[s.root].dir = d
      BY <1>4, Zenon
    <3>2. s.root \in built
      BY <1>5, <3>1, Zenon
    <3>3. \A e \in Datadirs : ~HasFile(e, s.root)
      BY <1>3, <3>1, Zenon
    <3>4. \A e \in Datadirs : \A x \in held[e] : x.root = s.root => e = d
      BY <1>4, <3>1
    <3> QED
      BY <3>2, <3>3, <3>4, Zenon
  <2>2. \A d \in Datadirs, r \in Roots : HasFile(d, r) => r \in built
    BY <1>3, <1>5, Zenon
  <2> QED
    BY <1>4, <2>1, <2>2, Zenon DEF HeldInv
<1>9. OwnerInv
  BY <1>6, <1>16, <1>17, Zenon DEF OwnerInv
<1>10. SkNeverDiverges
  BY <1>16, Zenon DEF SkNeverDiverges, SkMatches, HasFile
<1>11. \A d \in Datadirs, r \in Roots : MaySign(d, r) => HasFile(d, r)
  BY Zenon DEF MaySign, HasFile
<1>12. SoleSigner
  BY <1>2, <1>6, <1>11, Zenon DEF SoleSigner, TypeOK
<1>13. SignerIsCurrent
  <2> SUFFICES ASSUME NEW d \in online, NEW r \in Roots, MaySign(d, r),
                      NEW e \in Datadirs, HasFile(e, r)
               PROVE  ledger[e][r].next <= ledger[d][r].next
    BY Zenon DEF SignerIsCurrent
  <2>1. e = d
    BY <1>2, <1>6, <1>11, Zenon DEF TypeOK
  <2>2. ledger[e][r].next \in Nat
    BY <1>2 DEF TypeOK, File, HasFile
  <2> QED
    BY <2>1, <2>2
<1>14. CallInv /\ PendingLeafIsNew
  BY Zenon DEF Init, CallInv, PendingLeafIsNew
<1>15. DurableBeforeRelease /\ UsableLeavesOnly /\ NoLeafReuse
  BY Zenon DEF Init, DurableBeforeRelease, UsableLeavesOnly, NoLeafReuse
<1> QED
  BY <1>7, <1>8, <1>9, <1>10, <1>12, <1>13, <1>14, <1>15, Zenon DEF LedgerInv

\* Every step preserves the invariant.
LEMMA InvStep == TypeOK /\ LedgerInv /\ [Next]_vars => LedgerInv'
<1> SUFFICES ASSUME TypeOK, LedgerInv, [Next]_vars PROVE LedgerInv'
  BY Zenon
<1>1. Step
  BY TypeStep, Zenon DEF Step
<1>2. ASSUME NEW d \in Datadirs, Crash(d) PROVE LedgerInv'
  BY <1>1, <1>2, IdleStep, Zenon DEF Crash, store
<1>3. ASSUME NEW d \in Datadirs, Retire(d) PROVE LedgerInv'
  BY <1>1, <1>3, IdleStep, Zenon DEF Retire
<1>4. CASE UNCHANGED vars
  <2>1. UNCHANGED <<ledger, instanceId, minted, sentinel, held, built, online,
                    mutex, phase, req, mem, released>>
    BY <1>4, Zenon DEF vars, store, threadVars
  <2>2. IdsInv' /\ HeldInv' /\ SkNeverDiverges'
    BY <2>1, Zenon DEF LedgerInv, IdsInv, HeldInv, SkNeverDiverges, SkMatches, HasFile
  <2>3. OwnerInv'
    BY <2>1, Zenon DEF LedgerInv, OwnerInv, HasFile
  <2>4. CallInv'
    BY <2>1, Zenon DEF LedgerInv, CallInv, InCallInv, HasFile
  <2>5. SoleSigner' /\ SignerIsCurrent'
    BY <1>1, <2>1, SignersShrink, Zenon
  <2>6. DurableBeforeRelease' /\ PendingLeafIsNew' /\ UsableLeavesOnly' /\ NoLeafReuse'
    BY <2>1, Zenon DEF LedgerInv, DurableBeforeRelease, PendingLeafIsNew, UsableLeavesOnly, NoLeafReuse
  <2> QED
    BY <2>2, <2>3, <2>4, <2>5, <2>6, Zenon DEF LedgerInv
<1>5. ASSUME NEW t \in Threads, ThreadStep(t) PROVE LedgerInv'
  BY <1>1, <1>5, BuildStep, InitLedgerStep, ClaimStep, SaveStep, DiscardStep, ReturnStep, Zenon
     DEF ThreadStep
<1> QED
  BY <1>1, <1>2, <1>3, <1>4, <1>5, CopyStep, DropStep, Zenon DEF Next, Core, FileCopies

\* Type correctness of the ledger state, for every value of the constants.
THEOREM TypeCorrect == Spec => []TypeOK
BY InitType, TypeStep, PTL DEF Spec

\* LedgerInv is an invariant of the ledger code in its environment.
THEOREM Invariance == Spec => []LedgerInv
<1>1. Spec => [](TypeOK /\ LedgerInv)
  BY InitType, InitInv, TypeStep, InvStep, PTL DEF Spec
<1> QED
  BY <1>1, PTL

\* No leaf of any tree signs two messages: for any number of miner and wallet
\* threads and datadirs, with crashes, failed saves, copied ledger files and
\* careful force-claims.
THEOREM LeafSafety == Spec => []NoLeafReuse
<1>1. LedgerInv => NoLeafReuse
  BY Zenon DEF LedgerInv
<1> QED
  BY <1>1, Invariance, PTL

\* The ownership stamp leaves at most one datadir in service able to sign.
THEOREM OwnershipSafety == Spec => []SoleSigner
<1>1. LedgerInv => SoleSigner
  BY Zenon DEF LedgerInv
<1> QED
  BY <1>1, Invariance, PTL

\* Every signature a caller received is recorded in a ledger file.
THEOREM Durability == Spec => []DurableBeforeRelease
<1>1. LedgerInv => DurableBeforeRelease
  BY Zenon DEF LedgerInv
<1> QED
  BY <1>1, Invariance, PTL

\* The SK cross-check of ClaimAndSign never refuses a claim.
THEOREM SkAgreement == Spec => []SkNeverDiverges
<1>1. LedgerInv => SkNeverDiverges
  BY Zenon DEF LedgerInv
<1> QED
  BY <1>1, Invariance, PTL

\* Only usable leaves of trees that are not blacklisted sign.
THEOREM LeafRange == Spec => []UsableLeavesOnly
<1>1. LedgerInv => UsableLeavesOnly
  BY Zenon DEF LedgerInv
<1> QED
  BY <1>1, Invariance, PTL

\* One file write that only advances.
LEMMA WriteAdvances ==
    ASSUME TypeOK, NEW d \in Datadirs, NEW r \in Roots, NEW g \in File, WriteFile(d, r, g),
           ledger[d][r] # NoFile => g.next >= ledger[d][r].next
    PROVE  Advances
<1> SUFFICES ASSUME NEW e \in Datadirs, NEW q \in Roots, ledger[e][q] # NoFile
             PROVE  ledger'[e][q] # NoFile /\ ledger'[e][q].next >= ledger[e][q].next
  BY Zenon DEF Advances
<1>1. ledger'[e][q] = IF e = d /\ q = r THEN g ELSE ledger[e][q]
  BY FileUpdate
<1>2. g # NoFile
  BY ConstantsOK, Zenon
<1>3. ledger[e][q].next \in Nat
  BY ConstantsOK DEF TypeOK, File
<1> QED
  BY <1>1, <1>2, <1>3

\* Every step only adds files and advances leaf counters.
LEMMA AdvanceStep == TypeOK /\ LedgerInv /\ [Next]_vars => Advances
<1> SUFFICES ASSUME TypeOK, LedgerInv, [Next]_vars PROVE Advances
  BY Zenon
<1> USE ConstantsOK
<1>1. CASE UNCHANGED ledger
  <2>1. \A d \in Datadirs, r \in Roots : ledger[d][r] # NoFile => ledger[d][r].next \in Nat
    BY DEF TypeOK, File
  <2> QED
    BY <1>1, <2>1 DEF Advances
<1>2. ASSUME NEW t \in Threads, InitLedger(t) PROVE Advances
  <2>1. PICK s \in held[DirOf[t]], id \in Ids :
           ledger[DirOf[t]][s.root] = NoFile /\ CreateLedger(DirOf[t], s, id)
    BY <1>2, Zenon DEF InitLedger
  <2> DEFINE g == [next |-> s.next, sk |-> s.sk, owner |-> id]
             r == s.root
             d == DirOf[t]
  <2>2. d \in Datadirs /\ r \in Roots /\ g \in File /\ ledger[d][r] = NoFile
    BY <2>1 DEF TypeOK, Snapshot, File, Ids
  <2>3. WriteFile(d, r, g) \/ UNCHANGED ledger
    BY <2>1, Zenon DEF CreateLedger, WriteFile
  <2> HIDE DEF g, r, d
  <2> QED
    BY <1>1, <2>2, <2>3, WriteAdvances, Zenon
<1>3. ASSUME NEW t \in Threads, SaveLocked(t) PROVE Advances
  <2> DEFINE g == mem[t]
             r == req[t].root
             d == DirOf[t]
  <2>1. d \in Datadirs /\ r \in Roots /\ g \in File /\ WriteFile(d, r, g)
    BY <1>3, Zenon DEF TypeOK, SaveLocked, WriteFile
  <2>2. ledger[d][r] # NoFile /\ g.next = ledger[d][r].next + 1
    BY <1>3, Zenon DEF LedgerInv, CallInv, InCallInv, SaveLocked, HasFile
  <2>3. ledger[d][r].next \in Nat
    BY <2>1, <2>2 DEF TypeOK, File
  <2>4. g.next >= ledger[d][r].next
    BY <2>2, <2>3
  <2> HIDE DEF g, r, d
  <2> QED
    BY <2>1, <2>4, WriteAdvances, Zenon
<1>4. ASSUME NEW from \in Datadirs, NEW to \in Datadirs, NEW r \in Roots, CopyLedger(from, to, r)
      PROVE Advances
  <2> DEFINE g == ledger[from][r]
  <2>1. g \in File /\ WriteFile(to, r, g) /\ ledger[to][r] = NoFile
    BY <1>4 DEF CopyLedger, WriteFile, TypeOK
  <2> HIDE DEF g
  <2> QED
    BY <2>1, WriteAdvances, Zenon
<1>5. ASSUME NEW t \in Threads, ThreadStep(t) PROVE Advances
  BY <1>1, <1>2, <1>3, <1>5, Zenon DEF ThreadStep, BuildNewTree, ClaimAndSign, Discard, ReturnSignature, store
<1> QED
  BY <1>1, <1>4, <1>5, Zenon DEF Next, Core, FileCopies, Crash, Retire, DropSentinel, DropSentinelIf,
                          vars, store

\* No ledger file disappears and no leaf counter ever goes back.
THEOREM Monotonicity == Spec => LedgerOnlyAdvances
BY TypeCorrect, Invariance, AdvanceStep, PTL DEF Spec, LedgerOnlyAdvances

\* A step either releases nothing or releases one leaf never used before.
LEMMA ReleaseStep == TypeOK /\ LedgerInv /\ [Next]_vars => [Abstract!Next]_released
<1> SUFFICES ASSUME TypeOK, LedgerInv, [Next]_vars, released' # released
             PROVE  Abstract!Next
  BY Zenon
<1> USE ConstantsOK
<1>1. PICK t \in Threads : ReturnSignature(t)
  <2>1. ASSUME NEW t \in Threads, ThreadStep(t) PROVE ReturnSignature(t)
    BY <2>1, Zenon DEF ThreadStep, BuildNewTree, InitLedger, ClaimAndSign, SaveLocked, Discard
  <2>2. ~(UNCHANGED vars) /\ ~(\E d \in Datadirs : Crash(d) \/ Retire(d))
    BY Zenon DEF vars, Crash, Retire
  <2>3. ~FileCopies /\ ~(\E d \in Datadirs, r \in Roots : DropSentinel(d, r))
    BY Zenon DEF FileCopies, CopyLedger, DropSentinel, DropSentinelIf
  <2> QED
    BY <2>1, <2>2, <2>3, Zenon DEF Next, Core
<1> DEFINE r == req[t].root
           l == mem[t].next - 1
           m == req[t].msg
<1>2. r \in Roots /\ m \in Msgs /\ mem[t] \in File /\ mem[t].next >= 1 /\ phase[t] = "saved"
  BY <1>1, Zenon DEF TypeOK, ReturnSignature, LedgerInv, CallInv, InCallInv
<1>3. l \in 0..(MaxLeaves - 1)
  BY <1>2 DEF File
<1>4. \A x \in released : ~(x.root = r /\ x.leaf = l)
  <2>1. \A x \in released : x.leaf \in Int
    BY Zenon DEF TypeOK, Signature
  <2>2. \A x \in released : x.root = r => x.leaf < l
    BY <1>2, Zenon DEF LedgerInv, PendingLeafIsNew
  <2> QED
    BY <1>3, <2>1, <2>2
<1>5. Abstract!Release(r, l, m)
  BY <1>1, <1>4, Zenon DEF Abstract!Release, ReturnSignature
<1> HIDE DEF l, r, m
<1> QED
  BY <1>2, <1>3, <1>5, Zenon DEF Abstract!Next

\* The ledger implements OneTimeLeaves.
THEOREM Refinement == Spec => ImplementsOneTimeLeaves
<1>1. Init => Abstract!Init
  BY Zenon DEF Init, Abstract!Init
<1> QED
  BY <1>1, TypeCorrect, Invariance, ReleaseStep, PTL
     DEF Spec, ImplementsOneTimeLeaves, Abstract!Spec
=============================================================================
