------------------------- MODULE SpendChecksProofs -------------------------
(***************************************************************************)
(* Theorems about SpendChecks for every set of transactions on which the   *)
(* evaluation of a single input's script is exact: what the script cache,  *)
(* the queue of checks, the dry runs and the reuse check make of the       *)
(* answers of VerifyScriptXMSSCapture.                                     *)
(***************************************************************************)
EXTENDS SpendChecks, TLAPS

Answer(t, i) == VerifyScriptXMSSCapture(t[i], i, FALSE)

(* The script of one input passes exactly when it should, and then reports *)
(* the leaves of the signatures in it.  (What VerifiesExactly says of the  *)
(* answers of the running checks.)                                         *)
ScriptsExact ==
  \A t \in Txs : \A i \in DOMAIN t :
    /\ Answer(t, i).ok \in BOOLEAN
    /\ Answer(t, i).ok <=> ShouldVerify(t, i)
    /\ Answer(t, i).ok => Range(Answer(t, i).uses) = LeavesOf(t, i)

------------------------------------------------------------------------------
(* The inductive invariant. *)

Phases == {"idle", "checks", "connected", "badscripts", "leafreuse"}

(* The shape of the state. *)
ShapeOK ==
  /\ tx \in Txs /\ active \in BOOLEAN /\ cached \in BOOLEAN
  /\ call = [phase |-> call.phase, justCheck |-> call.justCheck, scripts |-> call.scripts,
             parallel |-> call.parallel, pending |-> call.pending, slots |-> call.slots,
             result |-> call.result]
  /\ call.phase \in Phases /\ call.justCheck \in BOOLEAN
  /\ call.scripts \in BOOLEAN /\ call.parallel \in BOOLEAN
  /\ call.pending \subseteq Inputs
  /\ call.slots = [i \in Inputs |-> call.slots[i]]
  /\ call.result \in [Inputs -> {"none", "ok", "bad"}]

(* Only a transaction whose inputs all pass is in the script cache.        *)
CacheOK == cached => \A i \in Inputs : ShouldVerify(tx, i)

(* The leaf database changes only when a block is connected. *)
UntouchedOK == call.phase # "connected" => recorded = before

(* The checks of a block whose scripts are run: there are none because the *)
(* cache was warm and no leaves are wanted, or each is still waiting or    *)
(* has left its own answer.                                                *)
ChecksOK ==
  call.phase = "checks" /\ call.scripts =>
    \/ ~active /\ \A i \in Inputs : ShouldVerify(tx, i)
    \/ \A i \in Inputs \ call.pending :
         /\ call.result[i] = IF Answer(tx, i).ok THEN "ok" ELSE "bad"
         /\ active => call.slots[i] = Answer(tx, i).uses

SpendInv ==
  /\ ShapeOK /\ CacheOK /\ UntouchedOK /\ ChecksOK
  /\ ConnectedVerified /\ LeavesRecorded /\ NoLeafTwice
------------------------------------------------------------------------------
(* Lemmas. *)

(* In the initial state no call runs and nothing is cached. *)
LEMMA SpendInit == Init => SpendInv
<1> SUFFICES ASSUME Init PROVE SpendInv
  OBVIOUS
<1>1. /\ tx \in Txs /\ active \in BOOLEAN /\ cached = FALSE /\ recorded = before
      /\ call = Idle
  BY DEF Init
<1>2. ShapeOK
  <2>1. /\ call.phase = "idle" /\ call.pending = {}
        /\ call.slots = [i \in Inputs |-> <<>>] /\ call.result = [i \in Inputs |-> "none"]
    BY <1>1 DEF Idle
  <2>2. call.justCheck = FALSE /\ call.scripts = TRUE /\ call.parallel = FALSE
    BY <1>1 DEF Idle
  <2>3. call = [phase |-> call.phase, justCheck |-> call.justCheck, scripts |-> call.scripts,
                parallel |-> call.parallel, pending |-> call.pending, slots |-> call.slots,
                result |-> call.result]
    BY <1>1 DEF Idle
  <2>4. call.slots = [i \in Inputs |-> call.slots[i]]
    BY <2>1
  <2> QED
    BY <1>1, <2>1, <2>2, <2>3, <2>4 DEF ShapeOK, Phases
<1>3. call.phase = "idle"
  BY <1>1 DEF Idle
<1> QED
  BY <1>1, <1>2, <1>3
  DEF SpendInv, CacheOK, UntouchedOK, ChecksOK, ConnectedVerified, LeavesRecorded, NoLeafTwice

(* Accepting a transaction to the mempool caches it only after a run of    *)
(* every input with the block's flags.                                     *)
LEMMA AcceptKeeps ==
  ASSUME ScriptsExact, SpendInv, AcceptToMemoryPool
  PROVE  SpendInv'
<1>1. call.phase = "idle" /\ UNCHANGED <<tx, cb, before, active, call, recorded>>
  BY DEF AcceptToMemoryPool
<1>2. tx \in Txs /\ cached \in BOOLEAN
  BY DEF SpendInv, ShapeOK
<1>3. cached' \in BOOLEAN
  BY Zenon DEF AcceptToMemoryPool
<1>4. cached' => cached \/ ScriptsPass(FALSE)
  BY Zenon DEF AcceptToMemoryPool
<1>5. ScriptsPass(FALSE) => \A i \in Inputs : ShouldVerify(tx, i)
  BY <1>2 DEF ScriptsPass, ScriptsExact, Answer, Inputs
<1>6. CacheOK'
  <2>1. cached' => \A i \in Inputs : ShouldVerify(tx, i)
    BY <1>4, <1>5 DEF SpendInv, CacheOK
  <2>2. (\A i \in Inputs : ShouldVerify(tx, i)) => (\A i \in Inputs : ShouldVerify(tx, i))'
    BY <1>1 DEF Inputs
  <2> QED
    BY <2>1, <2>2 DEF CacheOK
<1>7. ShapeOK'
  BY <1>1, <1>3 DEF SpendInv, ShapeOK, Inputs
<1>8. UntouchedOK' /\ ChecksOK' /\ ConnectedVerified' /\ LeavesRecorded' /\ NoLeafTwice'
  BY <1>1 DEF SpendInv, UntouchedOK, ChecksOK, ConnectedVerified, LeavesRecorded, NoLeafTwice
<1> QED
  BY <1>6, <1>7, <1>8 DEF SpendInv

(* A call of ConnectBlock begins with every check waiting, or with none    *)
(* when the cache is warm and no leaves are wanted.                        *)
LEMMA ConnectKeeps ==
  ASSUME ScriptsExact, SpendInv, NEW j \in BOOLEAN, NEW s \in BOOLEAN, NEW p \in BOOLEAN,
         ConnectBlock(j, s, p)
  PROVE  SpendInv'
<1>1. call.phase = "idle" /\ UNCHANGED <<tx, cb, before, active, pool, cached, recorded>>
  BY DEF ConnectBlock
<1>2. Inputs' = Inputs
  BY <1>1 DEF Inputs
<1>3. /\ call'.phase = "checks" /\ call'.result = [i \in Inputs |-> "none"]
      /\ call'.pending = IF s /\ ~CacheHit THEN Inputs ELSE {}
      /\ call'.slots = [i \in Inputs |->
                          IF ~s /\ active THEN ExtractXMSSLeafUse(tx[i]) ELSE <<>>]
      /\ call' = [phase |-> call'.phase, justCheck |-> call'.justCheck,
                  scripts |-> call'.scripts, parallel |-> call'.parallel,
                  pending |-> call'.pending, slots |-> call'.slots, result |-> call'.result]
  BY DEF ConnectBlock
<1>4. call'.justCheck = j /\ call'.scripts = s /\ call'.parallel = p
  BY DEF ConnectBlock
<1>5. ShapeOK'
  <2>1. call'.slots = [i \in Inputs' |-> call'.slots[i]]
    BY <1>2, <1>3
  <2>2. call'.result \in [Inputs' -> {"none", "ok", "bad"}]
    BY <1>2, <1>3
  <2>3. call'.pending \subseteq Inputs'
    BY <1>2, <1>3
  <2> QED
    BY <1>1, <1>3, <1>4, <2>1, <2>2, <2>3 DEF SpendInv, ShapeOK, Phases
<1>6. CacheOK' /\ UntouchedOK'
  BY <1>1, <1>2 DEF SpendInv, CacheOK, UntouchedOK
<1>7. ChecksOK'
  <2>1. SUFFICES ASSUME s
                 PROVE  \/ ~active /\ \A i \in Inputs : ShouldVerify(tx, i)
                        \/ call'.pending = Inputs
    BY <1>1, <1>2, <1>4 DEF ChecksOK
  <2> QED
    BY <1>3, <2>1 DEF CacheHit, SpendInv, CacheOK, ShapeOK
<1> QED
  BY <1>3, <1>5, <1>6, <1>7
  DEF SpendInv, ConnectedVerified, LeavesRecorded, NoLeafTwice
(* A check leaves its answer in its own place and touches no other's. *)
LEMMA RunKeeps ==
  ASSUME ScriptsExact, SpendInv, NEW i \in Inputs, RunCheck(i)
  PROVE  SpendInv'
<1>1. /\ call.phase = "checks" /\ i \in call.pending
      /\ UNCHANGED <<tx, cb, before, active, pool, cached, recorded>>
  BY DEF RunCheck
<1>2. Inputs' = Inputs
  BY <1>1 DEF Inputs
<1> DEFINE slot == IF active THEN Answer(tx, i).uses ELSE call.slots[i]
           res == IF Answer(tx, i).ok THEN "ok" ELSE "bad"
<1>3. call' = [call EXCEPT !.pending = @ \ {i}, !.slots[i] = slot, !.result[i] = res]
  BY DEF RunCheck, Answer
<1>4. res \in {"none", "ok", "bad"}
  OBVIOUS
<1> HIDE DEF slot, res
<1>5. /\ call'.phase = "checks" /\ call'.pending = call.pending \ {i}
      /\ call'.slots = [call.slots EXCEPT ![i] = slot]
      /\ call'.result = [call.result EXCEPT ![i] = res]
      /\ call'.justCheck = call.justCheck /\ call'.scripts = call.scripts
      /\ call'.parallel = call.parallel
      /\ call' = [phase |-> call'.phase, justCheck |-> call'.justCheck,
                  scripts |-> call'.scripts, parallel |-> call'.parallel,
                  pending |-> call'.pending, slots |-> call'.slots, result |-> call'.result]
  BY <1>1, <1>3 DEF SpendInv, ShapeOK
<1>6. ShapeOK'
  <2>1. call'.slots = [k \in Inputs' |-> call'.slots[k]]
    BY <1>2, <1>5 DEF SpendInv, ShapeOK
  <2>2. call'.result \in [Inputs' -> {"none", "ok", "bad"}]
    BY <1>2, <1>4, <1>5 DEF SpendInv, ShapeOK
  <2> QED
    BY <1>1, <1>2, <1>5, <2>1, <2>2 DEF SpendInv, ShapeOK, Phases
<1>7. CacheOK' /\ UntouchedOK'
  BY <1>1, <1>2, <1>5 DEF SpendInv, CacheOK, UntouchedOK
<1>8. ChecksOK'
  <2>1. \A k \in Inputs \ {i} : call'.slots[k] = call.slots[k] /\ call'.result[k] = call.result[k]
    BY <1>5 DEF SpendInv, ShapeOK
  <2>2. call'.slots[i] = slot /\ call'.result[i] = res
    BY <1>5 DEF SpendInv, ShapeOK
  <2>3. Answer(tx, i)' = Answer(tx, i) /\ \A k \in Inputs : Answer(tx, k)' = Answer(tx, k)
    BY <1>1
  <2>4. ASSUME call.scripts,
               \A k \in Inputs \ call.pending :
                 /\ call.result[k] = IF Answer(tx, k).ok THEN "ok" ELSE "bad"
                 /\ active => call.slots[k] = Answer(tx, k).uses,
               NEW k \in Inputs \ call'.pending
        PROVE  /\ call'.result[k] = IF Answer(tx, k).ok THEN "ok" ELSE "bad"
               /\ active => call'.slots[k] = Answer(tx, k).uses
    <3>1. CASE k = i
      BY <2>2, <3>1 DEF slot, res
    <3>2. CASE k # i
      BY <1>5, <2>1, <2>4, <3>2
    <3> QED
      BY <3>1, <3>2
  <2> QED
    BY <1>1, <1>2, <1>5, <2>4 DEF SpendInv, ChecksOK
<1> QED
  BY <1>5, <1>6, <1>7, <1>8
  DEF SpendInv, ConnectedVerified, LeavesRecorded, NoLeafTwice

(* A call that finds no bad script has waited for every check. *)
LEMMA AllPassed ==
  ASSUME ScriptsExact, SpendInv, call.phase = "checks", call.scripts, ChecksOver, ~AnyBad
  PROVE  \A i \in Inputs : /\ ShouldVerify(tx, i)
                           /\ active => Range(call.slots[i]) = LeavesOf(tx, i)
<1>1. call.pending = {} /\ tx \in Txs
  BY DEF ChecksOver, SpendInv, ShapeOK
<1>2. CASE ~active /\ \A i \in Inputs : ShouldVerify(tx, i)
  BY <1>2
<1>3. CASE \A i \in Inputs : /\ call.result[i] = IF Answer(tx, i).ok THEN "ok" ELSE "bad"
                             /\ active => call.slots[i] = Answer(tx, i).uses
  <2> TAKE i \in Inputs
  <2>1. Answer(tx, i).ok
    BY <1>3 DEF AnyBad
  <2>2. ShouldVerify(tx, i) /\ Range(Answer(tx, i).uses) = LeavesOf(tx, i)
    BY <1>1, <2>1 DEF ScriptsExact, Inputs
  <2> QED
    BY <1>3, <2>2
<1> QED
  BY <1>1, <1>2, <1>3 DEF SpendInv, ChecksOK

(* The gathered uses are those of the slots; without reuse they are new,   *)
(* and those of two inputs differ.                                         *)
LEMMA GatheredUses ==
  /\ {g.use : g \in Gathered} = UNION {Range(call.slots[i]) : i \in Inputs}
  /\ active /\ ~Reused =>
       /\ \A i, k \in Inputs : i # k => Range(call.slots[i]) \cap Range(call.slots[k]) = {}
       /\ \A i \in Inputs : Range(call.slots[i]) \cap ({cb} \cup recorded) = {}
<1>1. ASSUME NEW i \in Inputs, NEW u \in Range(call.slots[i])
      PROVE  \E g \in Gathered : g.slot = i /\ g.use = u
  <2>1. PICK n \in DOMAIN call.slots[i] : u = call.slots[i][n]
    BY DEF Range
  <2>2. [slot |-> i, at |-> n, use |-> call.slots[i][n]] \in Gathered
    BY <2>1 DEF Gathered
  <2> QED
    BY <2>1, <2>2
<1>2. ASSUME NEW g \in Gathered
      PROVE  \E i \in Inputs : g.use \in Range(call.slots[i])
  <2>1. PICK i \in Inputs :
          g \in {[slot |-> i, at |-> n, use |-> call.slots[i][n]] : n \in DOMAIN call.slots[i]}
    BY DEF Gathered
  <2>2. PICK n \in DOMAIN call.slots[i] : g.use = call.slots[i][n]
    BY <2>1
  <2> QED
    BY <2>2 DEF Range
<1>3. {g.use : g \in Gathered} = UNION {Range(call.slots[i]) : i \in Inputs}
  BY <1>1, <1>2
<1>4. ASSUME active, ~Reused, NEW i \in Inputs, NEW k \in Inputs, i # k,
             NEW u \in Range(call.slots[i]), u \in Range(call.slots[k])
      PROVE  FALSE
  <2>1. PICK g \in Gathered : g.slot = i /\ g.use = u
    BY <1>1
  <2>2. PICK h \in Gathered : h.slot = k /\ h.use = u
    BY <1>1, <1>4
  <2> QED
    BY <1>4, <2>1, <2>2 DEF Reused
<1>5. ASSUME active, ~Reused, NEW i \in Inputs, NEW u \in Range(call.slots[i])
      PROVE  u # cb /\ u \notin recorded
  <2>1. PICK g \in Gathered : g.slot = i /\ g.use = u
    BY <1>1
  <2> QED
    BY <1>5, <2>1 DEF Reused
<1> QED
  BY <1>3, <1>4, <1>5

(* The rest of ConnectBlock: a block is connected only when every check    *)
(* has passed and no leaf is used twice; a dry run leaves no trace but a   *)
(* cache entry it has earned.                                              *)
LEMMA FinishKeeps ==
  ASSUME ScriptsExact, SpendInv, FinishConnect
  PROVE  SpendInv'
<1>1. /\ call.phase = "checks" /\ ChecksOver
      /\ UNCHANGED <<tx, cb, before, active, pool>>
  BY DEF FinishConnect
<1>2. Inputs' = Inputs /\ Leaves' = Leaves
  BY <1>1 DEF Inputs, Leaves
<1> DEFINE good == ~AnyBad /\ ~Reused
           ph == CASE good -> "connected" [] AnyBad -> "badscripts" [] OTHER -> "leafreuse"
<1>3. /\ call' = IF good /\ call.justCheck THEN Idle ELSE [call EXCEPT !.phase = ph]
      /\ recorded' = IF good /\ ~call.justCheck
                       THEN recorded \cup {cb} \cup {g.use : g \in Gathered} ELSE recorded
  BY DEF FinishConnect
<1>4. cached' \in BOOLEAN /\ (cached' => cached \/ (good /\ call.scripts))
  BY Zenon DEF FinishConnect
<1>5. ph \in Phases /\ (ph = "connected" => good)
  BY DEF Phases
<1> HIDE DEF ph
<1>6. recorded = before
  BY <1>1 DEF SpendInv, UntouchedOK
<1>7. good /\ call.scripts =>
        \A i \in Inputs : /\ ShouldVerify(tx, i)
                          /\ active => Range(call.slots[i]) = LeavesOf(tx, i)
  BY <1>1, AllPassed
<1> HIDE DEF good
<1>8. CacheOK'
  <2>1. cached' => \A i \in Inputs : ShouldVerify(tx, i)
    BY <1>4, <1>7 DEF SpendInv, CacheOK
  <2> QED
    BY <1>1, <1>2, <2>1 DEF CacheOK
<1>9. CASE good /\ call.justCheck
  <2>1. call' = Idle /\ recorded' = recorded
    BY <1>3, <1>9
  <2>2. call'.phase = "idle" /\ call'.pending = {}
        /\ call'.slots = [i \in Inputs |-> <<>>] /\ call'.result = [i \in Inputs |-> "none"]
    BY <2>1 DEF Idle
  <2>3. call'.justCheck = FALSE /\ call'.scripts = TRUE /\ call'.parallel = FALSE
    BY <2>1 DEF Idle
  <2>4. call' = [phase |-> call'.phase, justCheck |-> call'.justCheck,
                 scripts |-> call'.scripts, parallel |-> call'.parallel,
                 pending |-> call'.pending, slots |-> call'.slots, result |-> call'.result]
    BY <2>1 DEF Idle
  <2>5. call'.slots = [i \in Inputs' |-> call'.slots[i]]
        /\ call'.result \in [Inputs' -> {"none", "ok", "bad"}]
    BY <1>2, <2>2
  <2>6. ShapeOK'
    BY <1>1, <1>2, <1>4, <2>2, <2>3, <2>4, <2>5 DEF SpendInv, ShapeOK, Phases
  <2> QED
    BY <1>1, <1>6, <1>8, <2>1, <2>2, <2>6
    DEF SpendInv, UntouchedOK, ChecksOK, ConnectedVerified, LeavesRecorded, NoLeafTwice
<1>10. CASE ~(good /\ call.justCheck)
  <2>1. /\ call'.phase = ph /\ call'.justCheck = call.justCheck
        /\ call'.scripts = call.scripts /\ call'.parallel = call.parallel
        /\ call'.pending = call.pending /\ call'.slots = call.slots
        /\ call'.result = call.result
        /\ call' = [phase |-> call'.phase, justCheck |-> call'.justCheck,
                    scripts |-> call'.scripts, parallel |-> call'.parallel,
                    pending |-> call'.pending, slots |-> call'.slots, result |-> call'.result]
    BY <1>3, <1>10 DEF SpendInv, ShapeOK
  <2>2. ShapeOK'
    BY <1>1, <1>2, <1>4, <1>5, <2>1 DEF SpendInv, ShapeOK
  <2>3. CASE ~good
    <3>1. recorded' = before' /\ call'.phase # "connected" /\ call'.phase # "checks"
      BY <1>1, <1>3, <1>5, <1>6, <2>1, <2>3 DEF ph, good
    <3> QED
      BY <1>8, <2>2, <3>1
      DEF SpendInv, UntouchedOK, ChecksOK, ConnectedVerified, LeavesRecorded, NoLeafTwice
  <2>4. CASE good
    <3>1. call'.phase = "connected"
      BY <2>1, <2>4 DEF ph, good
    <3>2. recorded' = before \cup {cb} \cup UNION {Range(call.slots[i]) : i \in Inputs}
      BY <1>3, <1>6, <1>10, <2>4, GatheredUses
    <3>3. ConnectedVerified'
      BY <1>1, <1>2, <1>7, <2>1, <2>4 DEF ConnectedVerified
    <3>4. LeavesRecorded'
      <4>1. SUFFICES ASSUME call.scripts, active
                     PROVE  recorded' = before \cup {cb} \cup Leaves
        BY <1>1, <1>2, <2>1 DEF LeavesRecorded
      <4> QED
        BY <1>7, <2>4, <3>2, <4>1 DEF Leaves
    <3>5. NoLeafTwice'
      <4>1. SUFFICES ASSUME call.scripts, active
                     PROVE  /\ \A i, j \in Inputs : i # j =>
                                 LeavesOf(tx, i) \cap LeavesOf(tx, j) = {}
                            /\ Leaves \cap ({cb} \cup before) = {}
        BY <1>1, <1>2, <2>1 DEF NoLeafTwice
      <4>2. /\ \A i, j \in Inputs : i # j =>
                 Range(call.slots[i]) \cap Range(call.slots[j]) = {}
            /\ \A i \in Inputs : Range(call.slots[i]) \cap ({cb} \cup recorded) = {}
        BY <2>4, <4>1, GatheredUses DEF good
      <4> QED
        BY <1>6, <1>7, <2>4, <4>1, <4>2 DEF Leaves
    <3> QED
      BY <1>8, <2>2, <3>1, <3>3, <3>4, <3>5 DEF SpendInv, UntouchedOK, ChecksOK
  <2> QED
    BY <2>3, <2>4
<1> QED
  BY <1>9, <1>10
------------------------------------------------------------------------------
(* Theorems. *)

(* SpendInv holds in every reachable state of the script checks, for any   *)
(* number of inputs, any order of the workers, any series of dry runs and  *)
(* either state of the script execution cache.                             *)
THEOREM SpendInvariance ==
  ASSUME ScriptsExact
  PROVE  Spec => []SpendInv
<1>1. SpendInv /\ [Next]_vars => SpendInv'
  <2> SUFFICES ASSUME SpendInv, [Next]_vars PROVE SpendInv'
    OBVIOUS
  <2>1. CASE AcceptToMemoryPool
    BY <2>1, AcceptKeeps
  <2>2. ASSUME NEW j \in BOOLEAN, NEW s \in BOOLEAN, NEW p \in BOOLEAN, ConnectBlock(j, s, p)
        PROVE  SpendInv'
    BY <2>2, ConnectKeeps
  <2>3. ASSUME NEW i \in Inputs, RunCheck(i)
        PROVE  SpendInv'
    BY <2>3, RunKeeps
  <2>4. CASE FinishConnect
    BY <2>4, FinishKeeps
  <2>5. CASE UNCHANGED vars
    BY <2>5 DEF vars, SpendInv, ShapeOK, CacheOK, UntouchedOK, ChecksOK, Inputs, Leaves,
                ConnectedVerified, LeavesRecorded, NoLeafTwice
  <2> QED
    BY <2>1, <2>2, <2>3, <2>4, <2>5 DEF Next
<1> QED
  BY <1>1, SpendInit, PTL DEF Spec

(* ConnectBlock connects a block whose scripts are run only if every input *)
(* passes, whether its check ran in this call or a cache entry of the      *)
(* mempool or of a dry run took its place.                                 *)
THEOREM ConnectedScriptsPass ==
  ASSUME ScriptsExact
  PROVE  Spec => []ConnectedVerified
<1>1. SpendInv => ConnectedVerified
  BY DEF SpendInv
<1> QED
  BY <1>1, SpendInvariance, PTL

(* ConnectBlock writes the leaf of every XMSS signature of a connected     *)
(* block to DB_POUW_LEAF, and no other leaf.                               *)
THEOREM EveryLeafRecorded ==
  ASSUME ScriptsExact
  PROVE  Spec => []LeavesRecorded
<1>1. SpendInv => LeavesRecorded
  BY DEF SpendInv
<1> QED
  BY <1>1, SpendInvariance, PTL

(* ConnectBlock connects no block in which a leaf is used twice: by two    *)
(* inputs, by an input and the block's own proof, or by an input and an    *)
(* earlier block.                                                          *)
THEOREM BlockLeavesDistinct ==
  ASSUME ScriptsExact
  PROVE  Spec => []NoLeafTwice
<1>1. SpendInv => NoLeafTwice
  BY DEF SpendInv
<1> QED
  BY <1>1, SpendInvariance, PTL
=============================================================================
