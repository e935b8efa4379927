---------------------------- MODULE XMSSScript ----------------------------
(***************************************************************************)
(* Script evaluation of XMSS spends: how a signature is cut into pushes,   *)
(* how OP_XMSS_CHECKSIG takes the pushes off the stack and joins them, and *)
(* which leaves an evaluation reports.  Only operators; SpendChecks runs   *)
(* them.                                                                   *)
(*                                                                         *)
(* A stack item is a run of bytes of something: bytes lo..hi-1 of a        *)
(* signature (which names its key, its leaf and the input it signs), a     *)
(* public key, a hash, a redeem script, or filler.  Sizes are real.        *)
(***************************************************************************)
EXTENDS Integers, Sequences, SequencesExt, FiniteSetsExt

CONSTANTS
  SigBytes,     \* length of a signature (2500 for XMSS-SHA2_10_256)
  ChunkSize,    \* XMSS_SIG_CHUNK_SIZE
  MaxElement,   \* MAX_SCRIPT_ELEMENT_SIZE, the 520 of the collecting loop
  MaxSigBytes   \* XMSS_MAX_SIG_BYTES

ASSUME ScriptSizes ==
  /\ SigBytes \in Nat \ {0} /\ ChunkSize \in 1..MaxElement
  /\ MaxElement \in Nat /\ MaxSigBytes \in Nat \ {0}

PubKeySize == 64

(* XMSS_MAX_CHUNKS *)
MaxChunks == (MaxSigBytes + ChunkSize - 1) \div ChunkSize

------------------------------------------------------------------------------
(* Items. *)

Item(what, key, leaf, input, lo, hi) ==
  [what |-> what, key |-> key, leaf |-> leaf, input |-> input, lo |-> lo, hi |-> hi]

Size(item) == item.hi - item.lo

Piece(sig, lo, hi) == Item("sig", sig.key, sig.leaf, sig.input, lo, hi)
PubKey(k) == Item("pubkey", k, 0, 0, 0, PubKeySize)
ShortKey(k) == Item("shortkey", k, 0, 0, 0, 33)
Hash160(item) ==
  LET tag == CASE item.what = "pubkey" -> "keyhash"
               [] item.what = "redeem" -> "redeemhash"
               [] OTHER -> "hash"
  IN Item(tag, item.key, item.leaf, item.input, 0, 20)
Redeem(k) == Item("redeem", k, 0, 0, 0, PubKeySize + 2)
Filler(n) == Item("filler", "none", 0, 0, 0, n)
vchTrue == Item("true", "none", 0, 0, 0, 1)
vchFalse == Item("empty", "none", 0, 0, 0, 0)

CastToBool(item) == Size(item) > 0

(* A single byte from 1 to 16, or the one for -1: there is an opcode for   *)
(* it.  The first four bytes of a signature are its leaf number; the       *)
(* others are not cut into single bytes.                                   *)
SmallNumber(item) ==
  /\ item.what = "sig" /\ Size(item) = 1 /\ item.lo < 4
  /\ (item.leaf \div 256 ^ (3 - item.lo)) % 256 \in (1..16) \cup {129}

------------------------------------------------------------------------------
(* Output scripts: the two wallet templates, a pay-to-script-hash of the   *)
(* first, one that goes on after the first, a script that checks two keys  *)
(* in turn, and one whose key does not have the length of an XMSS key.     *)

Push(item) == [op |-> "push", item |-> item]
Op(op) == [op |-> op, item |-> vchFalse]

ScriptOf(lock) ==
  CASE lock.kind = "P2XMSS" -> <<Push(PubKey(lock.key)), Op("XMSS_CHECKSIG")>>
    [] lock.kind = "TAILED" ->
         <<Push(PubKey(lock.key)), Op("XMSS_CHECKSIG"), Op("DUP")>>
    [] lock.kind = "P2XMSSHASH" ->
         <<Op("DUP"), Op("HASH160"), Push(Hash160(PubKey(lock.key))),
           Op("EQUALVERIFY"), Op("XMSS_CHECKSIG")>>
    [] lock.kind = "P2SH" ->
         <<Op("HASH160"), Push(Hash160(Redeem(lock.key))), Op("EQUAL")>>
    [] lock.kind = "TWOKEYS" ->
         <<Push(PubKey(lock.key)), Op("XMSS_CHECKSIGVERIFY"),
           Push(PubKey(lock.second)), Op("XMSS_CHECKSIG")>>
    [] lock.kind = "SHORTKEY" -> <<Push(ShortKey(lock.key)), Op("XMSS_CHECKSIG")>>

(* What Solver takes for an XMSS output: the first template is known by    *)
(* its beginning, the second must end where the template ends.             *)
Template(lock) == lock.kind \in {"P2XMSS", "TAILED", "P2XMSSHASH"}

------------------------------------------------------------------------------
(* SignStep: the signature in chunks of ChunkSize, oldest first, then the  *)
(* public key when the output script holds only its hash.                  *)

ChunksOf(sig) ==
  [n \in 1..((SigBytes + ChunkSize - 1) \div ChunkSize) |->
     Piece(sig, (n - 1) * ChunkSize, Min({n * ChunkSize, SigBytes}))]

SignStep(lock, sig) ==
  ChunksOf(sig) \o (IF lock.kind = "P2XMSSHASH" THEN <<PubKey(lock.key)>> ELSE <<>>)

------------------------------------------------------------------------------
(* OP_XMSS_CHECKSIG and OP_XMSS_CHECKSIGVERIFY.                            *)

FromTop(stack, d) == stack[Len(stack) - d + 1]
Popped(stack, n) == SubSeq(stack, 1, Len(stack) - n)

Collectable(item) == Size(item) \in 1..MaxElement

(* Bytes of the first n items below the public key. *)
BytesBelow(stack, n) ==
  FoldLeft(LAMBDA s, d : s + Size(FromTop(stack, d + 1)), 0, [d \in 1..n |-> d])

\* Mutant: a chunk shorter than ChunkSize ends the signature.
ChunksBelowFullOnly(stack) ==
  Max({n \in 0..Min({Len(stack) - 1, MaxChunks}) :
         \A d \in 1..n : Size(FromTop(stack, d + 1)) = ChunkSize})

(* nchunks: the items below the public key up to the first that cannot be  *)
(* a chunk, at most MaxChunks, and none after the length limit is reached. *)
ChunksBelow(stack) ==
  Max({n \in 0..Min({Len(stack) - 1, MaxChunks}) :
         \A d \in 1..n : /\ Collectable(FromTop(stack, d + 1))
                         /\ BytesBelow(stack, d - 1) < MaxSigBytes})

(* How many items are dropped when the key has the wrong length. *)
DroppedWithKey(stack) ==
  1 + Max({n \in 0..Min({Len(stack) - 1, MaxChunks}) :
             \A d \in 1..n : Collectable(FromTop(stack, d + 1))})

(* The n items below the public key, oldest first. *)
JoinedBelow(stack, n) == [j \in 1..n |-> FromTop(stack, n - j + 2)]

(* The bytes are one whole signature by this key, for this input. *)
CheckXMSSSignature(joined, pk, input) ==
  /\ pk.what = "pubkey" /\ joined # <<>>
  /\ \A j \in DOMAIN joined :
       /\ joined[j].what = "sig" /\ joined[j].key = pk.key
       /\ joined[j].input = input /\ joined[j].leaf = joined[1].leaf
       /\ joined[j].lo = IF j = 1 THEN 0 ELSE joined[j - 1].hi
  /\ Last(joined).hi = SigBytes

Failed(r) == [r EXCEPT !.ok = FALSE]

(* A check that is not satisfied, after n items have been popped. *)
Refuse(r, verify, n) ==
  [r EXCEPT !.ok = ~verify, !.stack = Append(Popped(@, n), vchFalse)]

(* The leaf is read from the first four bytes of the joined signature. *)
Accept(r, verify, n) ==
  LET st == Popped(r.stack, n + 1) IN
  [r EXCEPT !.stack = IF verify THEN st ELSE Append(st, vchTrue),
            !.uses = Append(@, [key |-> Last(r.stack).key,
                                leaf |-> JoinedBelow(r.stack, n)[1].leaf])]

XmssCheckSig(r, verify, input) ==
  LET n == ChunksBelow(r.stack) IN
  CASE Len(r.stack) < 2 -> Failed(r)
    [] Len(r.stack) >= 2 /\ Size(Last(r.stack)) # PubKeySize ->
         Refuse(r, verify, DroppedWithKey(r.stack))
    [] OTHER ->
         IF n > 0 /\ CheckXMSSSignature(JoinedBelow(r.stack, n), Last(r.stack), input)
           THEN Accept(r, verify, n)
           ELSE Refuse(r, verify, n + 1)

------------------------------------------------------------------------------
(* EvalScript on the opcodes the output scripts use.                       *)

TopTwoEqual(stack) == FromTop(stack, 1) = FromTop(stack, 2)

Step(r, o, input) ==
  LET need == CASE o.op \in {"DUP", "HASH160"} -> 1
                [] o.op \in {"EQUAL", "EQUALVERIFY"} -> 2
                [] OTHER -> 0
  IN
  CASE ~r.ok -> r
    [] r.ok /\ Len(r.stack) < need -> Failed(r)
    [] o.op = "push" /\ r.ok ->
         IF Size(o.item) > MaxElement THEN Failed(r)
         ELSE [r EXCEPT !.stack = Append(@, o.item)]
    [] o.op = "DUP" /\ r.ok /\ Len(r.stack) >= need ->
         [r EXCEPT !.stack = Append(@, Last(@))]
    [] o.op = "HASH160" /\ r.ok /\ Len(r.stack) >= need ->
         [r EXCEPT !.stack = Append(Popped(@, 1), Hash160(Last(@)))]
    [] o.op = "EQUAL" /\ r.ok /\ Len(r.stack) >= need ->
         [r EXCEPT !.stack = Append(Popped(@, 2), IF TopTwoEqual(@) THEN vchTrue ELSE vchFalse)]
    [] o.op = "EQUALVERIFY" /\ r.ok /\ Len(r.stack) >= need ->
         [r EXCEPT !.ok = TopTwoEqual(r.stack), !.stack = Popped(@, 2)]
    [] o.op = "XMSS_CHECKSIG" /\ r.ok -> XmssCheckSig(r, FALSE, input)
    [] o.op = "XMSS_CHECKSIGVERIFY" /\ r.ok -> XmssCheckSig(r, TRUE, input)

EvalScript(stack, script, input) ==
  FoldLeft(LAMBDA r, o : Step(r, o, input),
           [ok |-> TRUE, stack |-> stack, uses |-> <<>>], script)

Truthy(r) == r.ok /\ r.stack # <<>> /\ CastToBool(Last(r.stack))

(* Under MINIMALDATA a small number must be pushed by its opcode. *)
MinimalPushes(spend) ==
  \A n \in DOMAIN spend.pushes : SmallNumber(spend.pushes[n]) => n \in spend.numbers

(* VerifyScriptXMSSCapture for one input: the pushes, the output script on *)
(* the stack they leave, and a redeem script on a copy of it.  The flags   *)
(* of the policy add MINIMALDATA and CLEANSTACK.                           *)
VerifyScriptXMSSCapture(spend, input, policy) ==
  LET pushed == EvalScript(<<>>, [j \in DOMAIN spend.pushes |-> Push(spend.pushes[j])], input)
      pubkey == EvalScript(pushed.stack, ScriptOf(spend.lock), input)
      inner == Last(pushed.stack)
      redeem == EvalScript(Popped(pushed.stack, 1),
                           ScriptOf([kind |-> "P2XMSS", key |-> inner.key]), input)
      p2sh == pushed.ok /\ Truthy(pubkey) /\ spend.lock.kind = "P2SH"
      last == IF p2sh THEN redeem ELSE pubkey
  IN [ok |-> /\ pushed.ok /\ Truthy(pubkey) /\ Truthy(last)
             /\ policy => MinimalPushes(spend) /\ Len(last.stack) = 1,
      uses |-> IF ~pushed.ok THEN pushed.uses
               ELSE pushed.uses \o pubkey.uses \o (IF p2sh THEN redeem.uses ELSE <<>>)]

------------------------------------------------------------------------------
(* ExtractXMSSLeafUse, for blocks whose scripts are not run: the pushes of *)
(* a template spend, joined from the first, without evaluating anything.   *)
(* An opcode that pushes a number is not a plain push, and ends it.        *)
(* The result is a sequence of at most one use; bytes that do not begin a  *)
(* signature read as a leaf number nobody signed with.                     *)

NoSuchLeaf == 9999

SizesBefore(items, n) == FoldLeft(LAMBDA s, x : s + Size(x), 0, SubSeq(items, 1, n))

\* Mutant: only the first template is known.
ExtractP2XMSSOnly(spend) ==
  IF spend.lock.kind # "P2XMSS" THEN <<>>
  ELSE <<[key |-> spend.lock.key, leaf |-> spend.pushes[1].leaf]>>

ExtractXMSSLeafUse(spend) ==
  LET hashed == spend.lock.kind = "P2XMSSHASH"
      chunks == IF hashed THEN Front(spend.pushes) ELSE spend.pushes
      pk == IF hashed THEN Last(spend.pushes) ELSE PubKey(spend.lock.key)
      joined == {n \in DOMAIN chunks : SizesBefore(chunks, n - 1) < MaxSigBytes}
      first == chunks[1]
  IN IF /\ Template(spend.lock) /\ spend.numbers = {}
        /\ spend.pushes # <<>> /\ Size(pk) = PubKeySize
        /\ \A n \in joined : Collectable(chunks[n])
        /\ SizesBefore(chunks, Len(chunks)) >= 4
     THEN << [key |-> pk.key,
              leaf |-> IF /\ first.what = "sig" /\ first.lo = 0
                          /\ Size(first) < 4 =>
                               chunks[2].what = "sig" /\ chunks[2].lo = first.hi
                       THEN first.leaf ELSE NoSuchLeaf] >>
     ELSE <<>>

------------------------------------------------------------------------------
(* What OP_XMSS_CHECKSIG is meant to accept, without a stack: a whole      *)
(* signature in at most MaxChunks pieces, and nothing under it that could  *)
(* be taken for one more piece.                                            *)

(* A signature pushed in pieces of the given sizes. *)
Cut(sig, sizes) ==
  LET at(n) == FoldLeft(LAMBDA s, x : s + x, 0, SubSeq(sizes, 1, n))
  IN [n \in DOMAIN sizes |-> Piece(sig, at(n - 1), at(n))]

Pushable(items) == \A n \in DOMAIN items : Size(items[n]) <= MaxElement

TakesExactly(under, sizes) ==
  /\ Len(sizes) <= MaxChunks
  /\ \/ Len(sizes) = MaxChunks
     \/ under = <<>>
     \/ ~Collectable(Last(under))
=============================================================================
