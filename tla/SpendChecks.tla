---------------------------- MODULE SpendChecks ----------------------------
(***************************************************************************)
(* The script checks of one transaction with XMSS inputs: acceptance to    *)
(* the mempool, which fills the script execution cache, and ConnectBlock,  *)
(* which may find the cache warm, queues one check per input for several   *)
(* worker threads, gathers the leaves the checks report and refuses a      *)
(* block that uses a leaf twice.  ConnectBlock also runs as a dry run      *)
(* (fJustCheck) and without scripts below the assumed-valid block.         *)
(***************************************************************************)
EXTENDS XMSSScript, FiniteSets

CONSTANTS
  Txs,        \* the transactions considered, each a function from inputs to spends
  MiningUses, \* possible mining leaves of the block
  Recorded0   \* possible contents of the leaf database before the block

VARIABLES
  tx,        \* the transaction
  cb,        \* the leaf of the block's own proof
  before,    \* the leaf database before the block (history)
  active,    \* height >= nXMSSSpendLeafReuseActivation
  pool,      \* the mempool's answer
  cached,    \* the transaction is in g_scriptExecutionCache (block flags)
  call,      \* the running ConnectBlock
  recorded   \* DB_POUW_LEAF

vars == <<tx, cb, before, active, pool, cached, call, recorded>>

------------------------------------------------------------------------------
(* Spends.  "sigs" lists the signatures in the order the script checks     *)
(* them, each with the sizes of its pieces; "under" lies below them.       *)
(* "numbers" are the pushes made by an opcode for a small number, where    *)
(* the one who spends uses these (byOpcode), as the wallet's PushAll does. *)

LowerSigs(sigs) == IF Len(sigs) = 2 THEN Cut(sigs[2].sig, sigs[2].sizes) ELSE <<>>

Spend(lock, under, sigs, byOpcode) ==
  LET pushes == under \o LowerSigs(sigs) \o Cut(sigs[1].sig, sigs[1].sizes)
                \o CASE lock.kind = "P2XMSSHASH" -> <<PubKey(lock.key)>>
                     [] lock.kind = "P2SH" -> <<Redeem(lock.key)>>
                     [] OTHER -> <<>>
  IN [lock |-> lock, under |-> under, sigs |-> sigs, pushes |-> pushes,
      numbers |-> {n \in DOMAIN pushes : byOpcode /\ SmallNumber(pushes[n])}]

Inputs == DOMAIN tx

UseOf(sig) == [key |-> sig.key, leaf |-> sig.leaf]

(* What the script of input i asks for: every key it names has signed this *)
(* input, and each check meets its own signature and nothing else.         *)
ShouldVerify(t, i) ==
  LET s == t[i] IN
  /\ Pushable(s.pushes) /\ s.lock.kind # "SHORTKEY"
  /\ s.sigs[1].sig.key = s.lock.key
  /\ \A j \in DOMAIN s.sigs : s.sigs[j].sig.input = i
  /\ TakesExactly(s.under \o LowerSigs(s.sigs), s.sigs[1].sizes)
  /\ Len(s.sigs) = 2 => /\ s.sigs[2].sig.key = s.lock.second
                        /\ TakesExactly(s.under, s.sigs[2].sizes)

(* The leaves the transaction really reveals. *)
LeavesOf(t, i) == {UseOf(t[i].sigs[j].sig) : j \in DOMAIN t[i].sigs}
Leaves == UNION {LeavesOf(tx, i) : i \in Inputs}

(* The two scripts the wallet makes addresses for. *)
WalletScript(lock) == lock.kind \in {"P2XMSS", "P2XMSSHASH"}

(* The wallet signs the input with the key the output names. *)
MadeByWallet(i) ==
  LET sig == tx[i].sigs[1].sig IN
  /\ WalletScript(tx[i].lock) /\ sig.key = tx[i].lock.key /\ sig.input = i
  /\ tx[i].pushes = SignStep(tx[i].lock, sig)

------------------------------------------------------------------------------
(* Policy: IsStandardTx and AreInputsStandard on the input scripts.        *)

PushedSize(item) ==
  Size(item) + (IF Size(item) < 76 THEN 1 ELSE IF Size(item) < 256 THEN 2 ELSE 3)

ScriptSigSize(s) ==
  FoldLeft(LAMBDA n, x : n + PushedSize(x), 0, s.pushes) - Cardinality(s.numbers)

MaxStandardXMSS == 3000
MaxStandard == 1650

StandardInput(s) ==
  /\ ScriptSigSize(s) <= MaxStandardXMSS
  /\ s.lock.kind \notin {"TWOKEYS", "SHORTKEY"}

(* CheckInputScripts without a queue and without capture. *)
ScriptsPass(policy) ==
  \A i \in Inputs : VerifyScriptXMSSCapture(tx[i], i, policy).ok

------------------------------------------------------------------------------

Idle == [phase |-> "idle", justCheck |-> FALSE, scripts |-> TRUE, parallel |-> FALSE,
         pending |-> {}, slots |-> [i \in Inputs |-> <<>>],
         result |-> [i \in Inputs |-> "none"]]

Init ==
  /\ tx \in Txs /\ cb \in MiningUses /\ before \in Recorded0
  /\ active \in BOOLEAN
  /\ recorded = before
  /\ pool = "unseen" /\ cached = FALSE
  /\ call = Idle

(* MemPoolAccept: policy, the policy run, then the run with the flags of   *)
(* the next block that enters the script execution cache.                  *)
AcceptToMemoryPool ==
  /\ pool = "unseen" /\ call.phase = "idle"
  /\ LET ok == /\ \A i \in Inputs : StandardInput(tx[i])
               /\ ScriptsPass(TRUE)
               /\ cached \/ ScriptsPass(FALSE)
     IN /\ pool' = IF ok THEN "in" ELSE "refused"
        /\ cached' = (cached \/ ok)
  /\ UNCHANGED <<tx, cb, before, active, call, recorded>>

\* Mutant: the cache is consulted whether or not leaves are captured.
CacheHitAlways == cached

(* CheckInputScripts consults the cache only when no leaves are captured.  *)
CacheHit == cached /\ ~active

(* ConnectBlock up to control.Wait(): queue the checks, or read the leaves *)
(* off the scripts when scripts are not run.                               *)
ConnectBlock(justCheck, scripts, parallel) ==
  /\ call.phase = "idle"
  /\ call' = [phase |-> "checks", justCheck |-> justCheck, scripts |-> scripts,
              parallel |-> parallel,
              pending |-> IF scripts /\ ~CacheHit THEN Inputs ELSE {},
              slots |-> [i \in Inputs |->
                           IF ~scripts /\ active THEN ExtractXMSSLeafUse(tx[i]) ELSE <<>>],
              result |-> [i \in Inputs |-> "none"]]
  /\ UNCHANGED <<tx, cb, before, active, pool, cached, recorded>>

(* CScriptCheck::operator(), on a worker in any order or inline in order;  *)
(* each input has a slot of its own for the leaves.                        *)
RunCheck(i) ==
  /\ call.phase = "checks" /\ i \in call.pending
  /\ ~call.parallel => i = Min(call.pending)
  /\ LET r == VerifyScriptXMSSCapture(tx[i], i, FALSE)
     IN call' = [call EXCEPT !.pending = @ \ {i},
                             !.slots[i] = IF active THEN r.uses ELSE @,
                             !.result[i] = IF r.ok THEN "ok" ELSE "bad"]
  /\ UNCHANGED <<tx, cb, before, active, pool, cached, recorded>>

AnyBad == \E i \in Inputs : call.result[i] = "bad"

\* Mutant: the queue is not waited for.
NoWait == TRUE

(* Inline checks stop at the first failure; a queue is waited for. *)
ChecksOver == call.pending = {} \/ (~call.parallel /\ AnyBad)

(* vSpendLeafUses, gathered slot by slot: the uses, each with its place. *)
Gathered ==
  UNION {{[slot |-> i, at |-> j, use |-> call.slots[i][j]] : j \in DOMAIN call.slots[i]} :
         i \in Inputs}

\* Mutant: only earlier blocks are looked at.
ReusedInDBOnly == active /\ \E g \in Gathered : g.use \in recorded

(* The reuse check: against this block's proof, within the block, and      *)
(* against the leaf database.                                              *)
Reused ==
  /\ active
  /\ \E g \in Gathered :
       \/ g.use = cb
       \/ \E h \in Gathered : h # g /\ h.use = g.use
       \/ g.use \in recorded

(* The rest of ConnectBlock. A dry run writes no leaves, but its script    *)
(* results are cached when they were obtained inline without capture.      *)
FinishConnect ==
  /\ call.phase = "checks" /\ ChecksOver
  /\ LET good == ~AnyBad /\ ~Reused IN
     /\ call' = IF good /\ call.justCheck THEN Idle
                ELSE [call EXCEPT !.phase = CASE good -> "connected"
                                              [] AnyBad -> "badscripts"
                                              [] OTHER -> "leafreuse"]
     /\ recorded' = IF good /\ ~call.justCheck
                      THEN recorded \cup {cb} \cup {g.use : g \in Gathered} ELSE recorded
     /\ cached' = (cached \/ (/\ good /\ call.justCheck /\ call.scripts
                              /\ ~active /\ ~call.parallel))
  /\ UNCHANGED <<tx, cb, before, active, pool>>

Next ==
  \/ AcceptToMemoryPool
  \/ \E j, s, p \in BOOLEAN : ConnectBlock(j, s, p)
  \/ \E i \in Inputs : RunCheck(i)
  \/ FinishConnect

Spec == Init /\ [][Next]_vars

------------------------------------------------------------------------------
(* Properties. *)

(* The script checks' state keeps its shape. *)
TypeOK ==
  /\ Inputs = 1..Len(tx) /\ cb \in MiningUses /\ before \in Recorded0
  /\ active \in BOOLEAN /\ cached \in BOOLEAN
  /\ pool \in {"unseen", "in", "refused"}
  /\ call.phase \in {"idle", "checks", "connected", "badscripts", "leafreuse"}
  /\ call.pending \subseteq Inputs
  /\ call.result \in [Inputs -> {"none", "ok", "bad"}]
  /\ \A u \in recorded : u.leaf \in Nat

(* OP_XMSS_CHECKSIG accepts exactly the spends it is meant to: every key   *)
(* has signed, each signature is whole however it was cut, and nothing     *)
(* beneath it is taken for one more piece.  Two checks in one script pass  *)
(* only when the signature checked first fills all MaxChunks pieces.  A    *)
(* check that passes hands back the leaves of the signatures it has seen.  *)
VerifiesExactly ==
  \A i \in Inputs :
    /\ call.result[i] # "none" => (call.result[i] = "ok") = ShouldVerify(tx, i)
    /\ active /\ call.result[i] = "ok" => Range(call.slots[i]) = LeavesOf(tx, i)

(* A block whose scripts are run is connected only if every input passes,  *)
(* whether its check ran in this call or was found in the script execution *)
(* cache.                                                                  *)
ConnectedVerified ==
  call.phase = "connected" /\ call.scripts => \A i \in Inputs : ShouldVerify(tx, i)

(* Connecting a block whose scripts are run records the leaf of every XMSS *)
(* signature in it and no other leaf, also when the mempool has cached the *)
(* transaction, and also for scripts that match no template.               *)
LeavesRecorded ==
  call.phase = "connected" /\ call.scripts /\ active =>
    recorded = before \cup {cb} \cup Leaves

(* In a connected block whose scripts are run no leaf is used twice: not   *)
(* by two of its inputs, not by an input and the block's own proof, and    *)
(* not by an input and an earlier block.                                   *)
NoLeafTwice ==
  call.phase = "connected" /\ call.scripts /\ active =>
    /\ \A i, j \in Inputs : i # j => LeavesOf(tx, i) \cap LeavesOf(tx, j) = {}
    /\ Leaves \cap ({cb} \cup before) = {}

(* A node that skips the scripts of a block records the same leaves for it *)
(* as one that runs them, when the spends are of the wallet's two scripts  *)
(* and passed the mempool's policy, but for the inputs with a chunk that   *)
(* is pushed by a number opcode: of these ExtractXMSSLeafUse sees nothing. *)
SkippedScriptsAgree ==
  call.phase = "connected" /\ ~call.scripts /\ active
    /\ (\A i \in Inputs : WalletScript(tx[i].lock) /\ StandardInput(tx[i]))
    /\ ScriptsPass(TRUE) =>
    recorded = before \cup {cb}
                 \cup UNION {LeavesOf(tx, i) : i \in {n \in Inputs : tx[n].numbers = {}}}

(* Does not hold: the same without the exception.  MINIMALDATA requires a  *)
(* chunk of one byte from 1 to 16 to be pushed by an opcode.               *)
SkippedStandardAgree ==
  call.phase = "connected" /\ ~call.scripts /\ active
    /\ (\A i \in Inputs : WalletScript(tx[i].lock) /\ StandardInput(tx[i]))
    /\ ScriptsPass(TRUE) =>
    recorded = before \cup {cb} \cup Leaves

(* What SignStep makes passes the policy of the mempool and the checks of  *)
(* ConnectBlock, for both templates.                                       *)
WalletSpendsPass ==
  (\A i \in Inputs : MadeByWallet(i)) => pool # "refused" /\ call.phase # "badscripts"

(* Does not hold: the static extraction is said to miss only spends that   *)
(* match no template, but it also differs for a template spend with an     *)
(* item below the signature.                                               *)
SkippedTemplatesAgree ==
  call.phase = "connected" /\ ~call.scripts /\ active
    /\ (\A i \in Inputs : Template(tx[i].lock) /\ ShouldVerify(tx, i)) =>
    recorded = before \cup {cb} \cup Leaves

(* Does not hold: the usual limit on the size of an input script is said   *)
(* to be enforced again for every input that is not of an XMSS template.   *)
OtherInputsKeepTheLimit ==
  pool = "in" => \A i \in Inputs : Template(tx[i].lock) \/ ScriptSigSize(tx[i]) <= MaxStandard
=============================================================================
