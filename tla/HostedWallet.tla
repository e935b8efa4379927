---------------------------- MODULE HostedWallet ----------------------------
(***************************************************************************)
(* The hosted wallet (explorer/server.py) on top of one node wallet that   *)
(* all users share: the addresses it assigns, the miners that rotate       *)
(* through them, and /api/wallet/send, which drains a user's addresses one *)
(* RPC at a time while other requests run.  A call to the node may fail,   *)
(* and its answer may be lost after the node has done the work.            *)
(*                                                                         *)
(* Addresses are numbers in the order the node hands them out.  One call   *)
(* of sendfromxmssaddress is atomic (the node holds the wallet's lock);    *)
(* getxmssaddressinfo and listunspent on one address are one step, since   *)
(* an address that retires between them is skipped either way.             *)
(***************************************************************************)
EXTENDS Integers, Sequences, FiniteSets, FiniteSetsExt

CONSTANTS
  Users,
  Requests,     \* identifiers of concurrent send requests
  Amounts,      \* amounts a user asks to send
  Reward,       \* value of a mined coin
  Deposits,     \* values of deposits
  Fee,          \* fee of one transaction
  MaxAddresses, \* bound on addresses assigned by sign-up and mining
  MaxCoins,     \* bound on coins mined and deposited
  MaxFaults     \* bound on rotations that fail, answers lost and miners restarted

ASSUME HostedConstants ==
  /\ Amounts \subseteq Nat \ {0} /\ Deposits \subseteq Nat \ {0}
  /\ Reward \in Nat \ {0} /\ Fee \in Nat
  /\ MaxAddresses \in Nat /\ MaxCoins \in Nat /\ MaxFaults \in Nat
  /\ IsFiniteSet(Requests) /\ "none" \notin Users

VARIABLES
  current,   \* users.xmss_address
  owned,     \* mining_addresses of a user, oldest first
  nextAddr,  \* the next address the node hands out
  coins,     \* unspent coins of the node's wallet
  ncoins,    \* coins mined and deposited so far (bound, and coin identifier)
  retired,   \* addresses whose key has signed
  miner,     \* a user's miner loop: its ADDRESS, and whether it has a block to rotate for
  request,   \* locals of wallet_send
  txs,       \* transactions made by sendfromxmssaddress (history)
  excused    \* events after which a promise is off (history)

vars == <<current, owned, nextAddr, coins, ncoins, retired, miner, request, txs, excused>>

NoRequest == [pc |-> "idle", user |-> "none", amount |-> 0, seen |-> 0, todo |-> <<>>,
              remaining |-> 0, cap |-> 0, sent |-> 0, done |-> {}]

(* WALLET_ADDRESS in snti.env: the address at the time of installation. *)
InstallAddress(u) == Head(owned[u])

(* A call to the server or the node may still fail. *)
MayFail == Cardinality(excused) < MaxFaults

HasAccount(u) == owned[u] # <<>>
CoinsAt(a) == {c \in coins : c.addr = a}

------------------------------------------------------------------------------
Init ==
  /\ current = [u \in Users |-> 0] /\ owned = [u \in Users |-> <<>>]
  /\ miner = [u \in Users |-> [addr |-> 0, found |-> FALSE]]
  /\ nextAddr = 1
  /\ coins = {} /\ ncoins = 0 /\ retired = {}
  /\ request = [r \in Requests |-> NoRequest]
  /\ txs = {}
  /\ excused = {}

(* getnewxmssaddress, and the rows that make the address the user's current one. *)
AssignAddress(u) ==
  /\ nextAddr' = nextAddr + 1
  /\ owned' = [owned EXCEPT ![u] = Append(@, nextAddr)]
  /\ current' = [current EXCEPT ![u] = nextAddr]

(* wallet_signup; the user then installs a miner for the address. *)
Signup(u) ==
  /\ ~HasAccount(u) /\ nextAddr <= MaxAddresses
  /\ AssignAddress(u)
  /\ miner' = [miner EXCEPT ![u].addr = nextAddr]
  /\ UNCHANGED <<coins, ncoins, retired, request, txs, excused>>

NewCoin(a, v, state) ==
  [id |-> ncoins + 1, addr |-> a, value |-> v, state |-> state, reward |-> state = "immature"]

(* A payment to an address of the user, first unconfirmed. *)
Deposit(u, a, v) ==
  /\ ncoins < MaxCoins /\ ncoins' = ncoins + 1
  /\ coins' = coins \cup {NewCoin(a, v, "unconfirmed")}
  /\ UNCHANGED <<current, owned, nextAddr, retired, miner, request, txs, excused>>

(* A payment confirms, or a mined coin matures. *)
Ripen(c) ==
  /\ c.state \in {"unconfirmed", "immature"}
  /\ coins' = (coins \ {c}) \cup {[c EXCEPT !.state = "ready"]}
  /\ UNCHANGED <<current, owned, nextAddr, ncoins, retired, miner, request, txs, excused>>

(* The miner loop: generatetoaddress finds a block ... *)
Mine(u) ==
  /\ HasAccount(u) /\ ~miner[u].found
  /\ ncoins < MaxCoins /\ ncoins' = ncoins + 1
  /\ coins' = coins \cup {NewCoin(miner[u].addr, Reward, "immature")}
  /\ miner' = [miner EXCEPT ![u].found = TRUE]
  /\ UNCHANGED <<current, owned, nextAddr, retired, request, txs, excused>>

(* ... and _rotate_address takes what next_mining_address assigns. *)
Rotate(u) ==
  /\ miner[u].found /\ nextAddr <= MaxAddresses
  /\ AssignAddress(u)
  /\ miner' = [miner EXCEPT ![u] = [addr |-> nextAddr, found |-> FALSE]]
  /\ UNCHANGED <<coins, ncoins, retired, request, txs, excused>>

(* No address reaches the loop, which keeps the one it has: the server or  *)
(* the node is down, or the answer is lost after the assignment.           *)
RotateFails(u) ==
  /\ MayFail /\ miner[u].found
  /\ \/ nextAddr <= MaxAddresses /\ AssignAddress(u)
     \/ UNCHANGED <<current, owned, nextAddr>>
  /\ miner' = [miner EXCEPT ![u].found = FALSE]
  /\ excused' = excused \cup {<<"rotation_failed", u>>}
  /\ UNCHANGED <<coins, ncoins, retired, request, txs>>

(* systemd or cron starts the loop again, which reads snti.env. *)
RestartMiner(u) ==
  /\ MayFail /\ HasAccount(u)
  /\ miner[u].found \/ miner[u].addr # InstallAddress(u)
  /\ miner' = [miner EXCEPT ![u] = [addr |-> InstallAddress(u), found |-> FALSE]]
  /\ excused' = excused \cup {<<"restarted", u>>}
  /\ UNCHANGED <<current, owned, nextAddr, coins, ncoins, retired, request, txs>>

------------------------------------------------------------------------------
(* sendfromxmssaddress in the node. *)

(* GetBalance(...).m_mine_trusted: confirmed and mature coins, and change. *)
TrustedBalance == MapThenSumSet(LAMBDA c : c.value, {c \in coins : c.state \in {"ready", "change"}})

\* Mutant: coins are taken from the whole wallet, as sendtoxmssaddress does.
CandidatesInWallet(a) == {c \in coins : c.state \in {"immature", "ready"}}

(* Coins it considers: confirmed ones, mature or not. *)
Candidates(a) == {c \in CoinsAt(a) : c.state \in {"immature", "ready"}}

(* The smallest coin that covers amount and fee, else the largest. *)
Chosen(a, amount) ==
  LET covering == {c \in Candidates(a) : c.value >= amount + Fee}
      least == Min({c.value : c \in covering})
      most == Max({c.value : c \in Candidates(a)})
  IN IF covering # {} THEN CHOOSE c \in covering : c.value = least
     ELSE CHOOSE c \in Candidates(a) : c.value = most

\* Mutant: a retired key signs again.
CanSendRetired(a, amount, subtract) ==
  /\ TrustedBalance >= amount
  /\ Candidates(a) # {}
  /\ Chosen(a, amount).value >= amount + (IF subtract THEN 0 ELSE Fee)
  /\ subtract => amount > Fee

(* The chosen coin covers the amount, and the key may still sign. *)
CanSend(a, amount, subtract) ==
  /\ TrustedBalance >= amount
  /\ Candidates(a) # {} /\ a \notin retired
  /\ Chosen(a, amount).value >= amount + (IF subtract THEN 0 ELSE Fee)
  /\ subtract => amount > Fee

(* The transaction: the coin is spent, the key retired, and what is left   *)
(* goes to a fresh address of the node's wallet.                           *)
SendFrom(r, a, amount, subtract) ==
  LET c == Chosen(a, amount)
      change == c.value - amount - (IF subtract THEN 0 ELSE Fee)
  IN /\ nextAddr' = nextAddr + 1
     /\ coins' = (coins \ {c}) \cup
          (IF change = 0 THEN {}
           ELSE {[id |-> MaxCoins + nextAddr, addr |-> nextAddr, value |-> change,
                  state |-> "change", reward |-> FALSE]})
     /\ retired' = retired \cup {c.addr}
     /\ txs' = txs \cup {[req |-> r, coin |-> c.id, addr |-> c.addr, amount |-> amount]}

------------------------------------------------------------------------------
(* wallet_send. *)

(* The user and the current address are read ... *)
StartSend(r, u, amount) ==
  /\ request[r].pc = "idle" /\ HasAccount(u)
  /\ request' = [request EXCEPT ![r] = [NoRequest EXCEPT
       !.pc = "addresses", !.user = u, !.amount = amount, !.remaining = amount,
       !.seen = current[u]]]
  /\ UNCHANGED <<current, owned, nextAddr, coins, ncoins, retired, miner, txs, excused>>

(* ... then, on another connection, the list of addresses. *)
ReadAddresses(r) ==
  /\ request[r].pc = "addresses"
  /\ request' = [request EXCEPT ![r].pc = "loop", ![r].todo = owned[request[r].user]]
  /\ UNCHANGED <<current, owned, nextAddr, coins, ncoins, retired, miner, txs, excused>>

(* listunspent, without retired addresses and immature coins. *)
Spendable(a) ==
  IF a \in retired THEN {} ELSE {c \in CoinsAt(a) : c.state # "immature"}

(* The top of the loop: skip the address, or find what it can contribute.  *)
Look(r) ==
  LET q == request[r]
      a == Head(q.todo)
      skip == Spendable(a) = {}
      cap == Max({c.value : c \in Spendable(a)})
  IN /\ q.pc = "loop" /\ q.todo # <<>> /\ q.remaining > 0
     /\ \/ /\ skip \/ MayFail
           /\ request' = [request EXCEPT ![r].todo = Tail(@)]
        \/ /\ ~skip
           /\ request' = [request EXCEPT ![r].pc = "send", ![r].cap = cap]
     /\ UNCHANGED <<current, owned, nextAddr, coins, ncoins, retired, miner, txs, excused>>

SubtractFee(q) == q.cap <= q.remaining

\* Mutant: an address is always drained.
SendAmountCap(q) == q.cap

SendAmount(q) == IF SubtractFee(q) THEN q.cap ELSE q.remaining

(* The next turn of the loop after an answer that is an error. *)
Skipped(q) == [q EXCEPT !.pc = "loop", !.todo = Tail(@), !.cap = 0]

(* ... and after a transaction identifier. *)
Counted(q) ==
  [Skipped(q) EXCEPT !.sent = @ + SendAmount(q), !.remaining = @ - SendAmount(q),
                     !.done = @ \cup {Head(q.todo)}]

(* The call that sends, answered. *)
SendAnswered(r) ==
  LET q == request[r] IN
  /\ q.pc = "send"
  /\ CanSend(Head(q.todo), SendAmount(q), SubtractFee(q))
  /\ SendFrom(r, Head(q.todo), SendAmount(q), SubtractFee(q))
  /\ request' = [request EXCEPT ![r] = Counted(q)]
  /\ UNCHANGED <<current, owned, ncoins, miner, excused>>

(* ... carried out, but the answer does not come within the time limit. *)
SendAnswerLost(r) ==
  LET q == request[r] IN
  /\ MayFail /\ q.pc = "send"
  /\ CanSend(Head(q.todo), SendAmount(q), SubtractFee(q))
  /\ SendFrom(r, Head(q.todo), SendAmount(q), SubtractFee(q))
  /\ request' = [request EXCEPT ![r] = Skipped(q)]
  /\ excused' = excused \cup {<<"answer_lost", r>>}
  /\ UNCHANGED <<current, owned, ncoins, miner>>

(* ... refused by the node before it signs, or not delivered. *)
SendRefused(r) ==
  LET q == request[r] IN
  /\ q.pc = "send"
  /\ MayFail \/ ~CanSend(Head(q.todo), SendAmount(q), SubtractFee(q))
  /\ request' = [request EXCEPT ![r] = Skipped(q)]
  /\ UNCHANGED <<current, owned, nextAddr, coins, ncoins, retired, miner, txs, excused>>

LoopOver(q) == q.pc = "loop" /\ (q.todo = <<>> \/ q.remaining <= 0)

Ended(q) == [q EXCEPT !.pc = "done", !.todo = <<>>]

(* The end of a request that sent something from the address it took for   *)
(* the current one: a new one is assigned.                                 *)
FinishRotating(r) ==
  LET q == request[r] IN
  /\ LoopOver(q) /\ q.done # {} /\ q.seen \in retired
  /\ AssignAddress(q.user)
  /\ request' = [request EXCEPT ![r] = Ended(q)]
  /\ UNCHANGED <<coins, ncoins, retired, miner, txs, excused>>

\* Mutant: the current address is looked at only when the amount was covered.
FinishUncovered(r) ==
  LET q == request[r] IN
  /\ LoopOver(q)
  /\ q.done = {} \/ q.seen \notin retired \/ q.remaining > 0
  /\ request' = [request EXCEPT ![r] = Ended(q)]
  /\ UNCHANGED <<current, owned, nextAddr, coins, ncoins, retired, miner, txs, excused>>

(* The end without a new address. *)
Finish(r) ==
  LET q == request[r] IN
  /\ LoopOver(q)
  /\ q.done = {} \/ q.seen \notin retired \/ MayFail
  /\ request' = [request EXCEPT ![r] = Ended(q)]
  /\ excused' = IF q.done # {} /\ q.seen \in retired
                  THEN excused \cup {<<"no_new_address", q.user>>} ELSE excused
  /\ UNCHANGED <<current, owned, nextAddr, coins, ncoins, retired, miner, txs>>

Next ==
  \/ \E u \in Users : \E a \in Range(owned[u]), v \in Deposits : Deposit(u, a, v)
  \/ \E c \in coins : Ripen(c)
  \/ \E u \in Users : Signup(u) \/ Mine(u) \/ Rotate(u) \/ RotateFails(u) \/ RestartMiner(u)
  \/ \E r \in Requests, u \in Users, a \in Amounts : StartSend(r, u, a)
  \/ \E r \in Requests : ReadAddresses(r) \/ Look(r) \/ SendAnswered(r) \/ SendAnswerLost(r)
                         \/ SendRefused(r) \/ FinishRotating(r) \/ Finish(r)

Spec == Init /\ [][Next]_vars

------------------------------------------------------------------------------
Active(q) == q.pc \notin {"idle", "done"}
RequestsOf(u) == {r \in Requests : request[r].user = u}
TxsOf(r) == {t \in txs : t.req = r}
Total(T) == MapThenSumSet(LAMBDA t : t.amount, T)
Paid(r) == Total(TxsOf(r))
Lost(r) == <<"answer_lost", r>> \in excused

(* The server's tables, the miners and the requests keep their shape, and  *)
(* the current address of a user is one of mining_addresses.               *)
TypeOK ==
  /\ current \in [Users -> 0..nextAddr - 1]
  /\ \A u \in Users : /\ HasAccount(u) => current[u] \in Range(owned[u])
                      /\ miner[u].addr \in Range(owned[u]) \cup {0}
  /\ retired \subseteq 1..nextAddr - 1
  /\ \A c \in coins : /\ c.addr \in 1..nextAddr - 1 /\ c.value > 0
                      /\ c.state \in {"unconfirmed", "immature", "ready", "change"}
  /\ \A r \in Requests :
       /\ request[r].pc \in {"idle", "addresses", "loop", "send", "done"}
       /\ request[r].user \in Users \cup {"none"}

(* A request reports the amounts it has sent: those of its transactions    *)
(* add up to amount_sent, and with what remains to what was asked, however *)
(* its calls interleave with those of other requests; after a lost answer  *)
(* it has sent more than it reports.  A fee paid on top of the amount and  *)
(* the change are not part of either.                                      *)
ReportsWhatItPaid ==
  \A r \in Requests :
    LET q == request[r] IN
    /\ q.sent + q.remaining = q.amount /\ q.remaining >= 0
    /\ q.done \subseteq {t.addr : t \in TxsOf(r)}
    /\ IF Lost(r) THEN Paid(r) > q.sent ELSE Paid(r) = q.sent

(* sendfromxmssaddress "scopes selection to UTXOs actually sitting at a    *)
(* specific address": all users' coins are in one wallet, yet a request    *)
(* spends no coin of another user, and no address is assigned twice.       *)
OwnCoinsOnly ==
  /\ \A t \in txs : t.addr \in Range(owned[request[t.req].user])
  /\ \A u, v \in Users : u # v => Range(owned[u]) \cap Range(owned[v]) = {}

(* An address seen as a tree of one leaf, and a spent coin as its message. *)
Addresses == 1..MaxAddresses + MaxCoins + Cardinality(Requests)
Abstract == INSTANCE OneTimeLeaves WITH
  Roots <- Addresses, Msgs <- 1..MaxCoins, MaxLeaves <- 1,
  released <- {[root |-> t.addr, leaf |-> 0, msg |-> t.coin] : t \in txs}

(* The hosted wallet implements the specification of one-time leaves that  *)
(* the tree ledger implements: however requests interleave and answers get *)
(* lost, each step spends nothing or one coin, with a key that has never   *)
(* signed.                                                                 *)
ImplementsOneTimeLeaves == Abstract!Spec

(* "If the send happened to drain the account's CURRENT display address,   *)
(* rotate it": once the user's requests are over, the current address can  *)
(* still spend, unless the rotation itself failed, the answer of the       *)
(* draining call was lost, or the address became the current one after     *)
(* the draining request had read which one was.                            *)
DrainedAddressReplaced ==
  \A u \in Users :
    current[u] \in retired =>
      \/ <<"no_new_address", u>> \in excused
      \/ \E r \in RequestsOf(u) :
           \/ Active(request[r]) \/ Lost(r)
           \/ current[u] \in request[r].done /\ current[u] # request[r].seen

(* The miner loop rotates after every block: no two rewards of a user wait *)
(* at one address unless a rotation failed or the miner was restarted.     *)
RewardsSpread ==
  \A u \in Users : \A c, d \in coins :
    /\ c.reward /\ d.reward /\ c.addr = d.addr /\ c.addr \in Range(owned[u])
    => c = d \/ excused \cap {<<"rotation_failed", u>>, <<"restarted", u>>} # {}

(* Does not hold: next_mining_address is to ensure that "every address     *)
(* this user ever mines to holds exactly the one UTXO its one-time key can *)
(* safely spend", so that no reward is left at an address whose key has    *)
(* signed.                                                                 *)
RewardsSpendable == \A c \in coins : c.reward => c.addr \notin retired

(* Does not hold when an answer is lost: a request pays at most the amount *)
(* asked for.                                                              *)
NeverOverpays == \A r \in Requests : Paid(r) <= request[r].amount

(* Does not hold: what is left of a spent coin stays with its user.        *)
ChangeIsOwned ==
  \A c \in coins : \E u \in Users : c.addr \in Range(owned[u])

(* Does not hold: the current address can spend once the user's requests   *)
(* are over.                                                               *)
CurrentCanSpend ==
  \A u \in Users : (\A r \in RequestsOf(u) : ~Active(request[r])) => current[u] \notin retired
=============================================================================
