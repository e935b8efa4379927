------------------------- MODULE HostedWalletProofs -------------------------
(***************************************************************************)
(* Theorems about HostedWallet for every number of users, requests, coins  *)
(* and addresses: no request spends another user's coin, a request reports *)
(* what it has paid, a drained current address is replaced, and the hosted *)
(* wallet implements OneTimeLeaves.                                        *)
(***************************************************************************)
EXTENDS HostedWallet, FiniteSetTheorems, WellFoundedInduction, TLAPS

-----------------------------------------------------------------------------
(* Least and largest elements *)

\* A set of natural numbers has a least element.
LEMMA LeastNatural ==
    ASSUME NEW S \in SUBSET Nat, S # {}
    PROVE  \E x \in S : \A y \in S : x <= y
<1>1. \E x \in S : \A y \in S : ~(<<y, x>> \in OpToRel(<, Nat))
  BY WFMin, NatLessThanWellFounded, Zenon
<1>2. PICK x \in S : \A y \in S : ~(<<y, x>> \in OpToRel(<, Nat))
  BY <1>1, Zenon
<1>3. \A y \in S : ~(y < x)
  BY <1>2, Zenon DEF OpToRel
<1> QED
  BY <1>3

\* A finite set of natural numbers has a largest element: otherwise take one
\* of least cardinality that has none and remove an element.
LEMMA LargestNatural ==
    ASSUME NEW S \in SUBSET Nat, S # {}, IsFiniteSet(S)
    PROVE  \E x \in S : \A y \in S : x >= y
<1> DEFINE HasMax(T) == \E x \in T : \A y \in T : x >= y
           Bad == {n \in Nat : \E T \in SUBSET Nat : /\ T # {} /\ IsFiniteSet(T)
                                                     /\ Cardinality(T) = n /\ ~HasMax(T)}
<1>1. SUFFICES ASSUME Bad # {} PROVE FALSE
  <2>1. Cardinality(S) \in Nat
    BY FS_CardinalityType, Zenon
  <2> QED
    BY <1>1, <2>1, Zenon
<1>2. PICK n \in Bad : \A k \in Bad : n <= k
  BY <1>1, LeastNatural, Zenon
<1>3. PICK T \in SUBSET Nat : T # {} /\ IsFiniteSet(T) /\ Cardinality(T) = n /\ ~HasMax(T)
  BY <1>2, Zenon
<1>4. PICK z \in T : TRUE
  BY <1>3, Zenon
<1> DEFINE U == T \ {z}
<1>5. IsFiniteSet(U) /\ Cardinality(U) = n - 1 /\ Cardinality(U) \in Nat /\ U \in SUBSET Nat
  <2>1. IsFiniteSet(U) /\ Cardinality(U) = n - 1
    BY <1>3, <1>4, FS_RemoveElement, Zenon
  <2> QED
    BY <2>1, FS_CardinalityType, Zenon
<1>6. CASE U = {}
  BY <1>3, <1>4, <1>6
<1>7. CASE U # {}
  <2>1. n - 1 \notin Bad
    BY <1>2, <1>5
  <2>2. PICK x \in U : \A y \in U : x >= y
    BY <1>5, <1>7, <2>1, Zenon
  <2>3. HasMax(T)
    <3>1. x \in Nat /\ z \in Nat /\ T = U \cup {z} /\ x \in T /\ \A y \in U : y \in Nat
      BY <1>4, <2>2, Zenon
    <3>2. CASE z >= x
      BY <1>4, <2>2, <3>1, <3>2
    <3>3. CASE x >= z
      BY <2>2, <3>1, <3>3, Zenon
    <3> QED
      BY <3>1, <3>2, <3>3
  <2> QED
    BY <1>3, <2>3, Zenon
<1> QED
  BY <1>6, <1>7, Zenon

\* So Min and Max are elements.
LEMMA MinMax ==
    ASSUME NEW S \in SUBSET Nat, S # {}, IsFiniteSet(S)
    PROVE  /\ Min(S) \in S /\ \A y \in S : Min(S) <= y
           /\ Max(S) \in S /\ \A y \in S : Max(S) >= y
BY LeastNatural, LargestNatural, Zenon DEF Min, Max
-----------------------------------------------------------------------------
(* The inductive invariant *)

Coin == [id: Nat, addr: Nat, value: Nat, state: {"unconfirmed", "immature", "ready", "change"},
         reward: BOOLEAN]
Request == [pc: {"idle", "addresses", "loop", "send", "done"}, user: Users \cup {"none"},
            amount: Nat, seen: Nat, todo: Seq(Nat), remaining: Nat, cap: Nat, sent: Nat,
            done: SUBSET Nat]
Tx == [req: Requests, coin: Nat, addr: Nat, amount: Nat]

Typed ==
    /\ current \in [Users -> Nat] /\ owned \in [Users -> Seq(Nat)]
    /\ nextAddr \in Nat \ {0} /\ ncoins \in 0..MaxCoins
    /\ miner \in [Users -> [addr: Nat, found: BOOLEAN]]
    /\ coins \subseteq Coin /\ IsFiniteSet(coins)
    /\ request \in [Requests -> Request]
    /\ txs \subseteq Tx

\* Every address in use is one the node has handed out, to one user at most;
\* a user with an account has a current address and a miner for one of theirs.
AddressInv ==
    /\ \A u \in Users : Range(owned[u]) \subseteq 1..(nextAddr - 1)
    /\ \A u, v \in Users : u # v => Range(owned[u]) \cap Range(owned[v]) = {}
    /\ \A u \in Users : IF HasAccount(u)
                        THEN current[u] \in Range(owned[u]) /\ miner[u].addr \in Range(owned[u])
                        ELSE current[u] = 0 /\ ~miner[u].found
    /\ retired \subseteq 1..(nextAddr - 1)
    /\ \A c \in coins : c.addr \in 1..(nextAddr - 1)

\* A request that has begun works for a user, on addresses of that user.
RequestInv ==
    \A r \in Requests :
      LET q == request[r] IN
      /\ q.pc # "idle" => q.user \in Users /\ Range(owned[q.user]) # {}
      /\ Range(q.todo) \subseteq (IF q.pc = "idle" THEN {} ELSE Range(owned[q.user]))
      /\ q.pc = "send" => q.todo # <<>>
      /\ q.pc = "idle" => q.user = "none"
      /\ q.sent + q.remaining = q.amount

\* Coins that can be spent have identifiers of their own, which no transaction
\* has, and a transaction leaves its address retired.
TxInv ==
    /\ \A c \in coins : c.state # "change" =>
         /\ c.id \in 1..ncoins
         /\ \A t \in txs : t.coin # c.id
         /\ \A d \in coins : d.state # "change" /\ d.id = c.id => d = c
    /\ \A t \in txs : /\ t.coin \in 1..ncoins /\ t.addr \in retired
                      /\ request[t.req].pc # "idle"
                      /\ t.addr \in Range(owned[request[t.req].user])

\* The node hands out an address for an assignment within the bound, for the
\* change of a spent coin and at the end of a request.
Spent == {t.coin : t \in txs}
Over == {r \in Requests : request[r].pc = "done"}
CountInv == nextAddr - 1 <= MaxAddresses + Cardinality(Spent) + Cardinality(Over)

\* A request that has drained the current address either goes on or took
\* another one for it.
DrainInv ==
    \A u \in Users :
      current[u] \in retired =>
        \/ <<"no_new_address", u>> \in excused
        \/ \E r \in RequestsOf(u) :
             \/ Lost(r)
             \/ /\ current[u] \in request[r].done
                /\ Active(request[r]) \/ current[u] # request[r].seen

HostedInv == AddressInv /\ RequestInv /\ TxInv /\ CountInv /\ DrainInv
-----------------------------------------------------------------------------
(* Addresses, coins and requests *)

LEMMA AppendRange ==
    ASSUME NEW s \in Seq(Nat), NEW a \in Nat
    PROVE  /\ Append(s, a) \in Seq(Nat) /\ Append(s, a) # <<>>
           /\ Range(Append(s, a)) = Range(s) \cup {a}
<1>1. /\ Append(s, a) \in Seq(Nat) /\ Len(Append(s, a)) = Len(s) + 1
      /\ Append(s, a)[Len(s) + 1] = a /\ \A i \in 1..Len(s) : Append(s, a)[i] = s[i]
  OBVIOUS
<1>2. DOMAIN s = 1..Len(s) /\ DOMAIN Append(s, a) = 1..(Len(s) + 1) /\ Len(s) \in Nat
  BY <1>1
<1>3. Range(Append(s, a)) = Range(s) \cup {a}
  BY <1>1, <1>2 DEF Range
<1>4. Append(s, a) # <<>>
  BY <1>1, <1>2
<1> QED
  BY <1>1, <1>3, <1>4, Zenon

LEMMA HeadTailRange ==
    ASSUME NEW s \in Seq(Nat), s # <<>>
    PROVE  Head(s) \in Range(s) /\ Tail(s) \in Seq(Nat) /\ Range(Tail(s)) \subseteq Range(s)
<1>1. Len(s) \in Nat \ {0} /\ DOMAIN s = 1..Len(s) /\ Head(s) = s[1]
  OBVIOUS
<1>2. /\ Tail(s) \in Seq(Nat) /\ Len(Tail(s)) = Len(s) - 1
      /\ \A i \in 1..(Len(s) - 1) : Tail(s)[i] = s[i + 1]
  BY <1>1
<1>3. DOMAIN Tail(s) = 1..(Len(s) - 1)
  BY <1>1, <1>2
<1>4. Range(Tail(s)) \subseteq Range(s)
  BY <1>1, <1>2, <1>3 DEF Range
<1> QED
  BY <1>1, <1>2, <1>4 DEF Range

LEMMA EmptyRange == Range(<<>>) = {}
BY DEF Range

\* The values of some coins are a finite set of natural numbers.
LEMMA CoinValues ==
    ASSUME Typed, NEW C \in SUBSET coins, C # {}
    PROVE  /\ {c.value : c \in C} \in SUBSET Nat /\ {c.value : c \in C} # {}
           /\ IsFiniteSet({c.value : c \in C})
<1> DEFINE V == {c.value : c \in C}
           f == [c \in C |-> c.value]
<1>1. V \in SUBSET Nat /\ V # {}
  BY DEF Typed, Coin
<1>2. IsFiniteSet(C)
  BY FS_Subset, Zenon DEF Typed
<1>3. f \in Surjection(C, V)
  BY Zenon DEF Surjection
<1>4. IsFiniteSet(V)
  BY <1>2, <1>3, FS_Surjection, Zenon
<1> QED
  BY <1>1, <1>4, Zenon

\* sendfromxmssaddress takes a coin at the address it was asked to spend from.
LEMMA ChosenCandidate ==
    ASSUME Typed, NEW a, NEW amount, Candidates(a) # {}
    PROVE  Chosen(a, amount) \in Candidates(a)
<1> DEFINE covering == {c \in Candidates(a) : c.value >= amount + Fee}
           vc == {c.value : c \in covering}
           va == {c.value : c \in Candidates(a)}
<1>1. Candidates(a) \in SUBSET coins /\ covering \in SUBSET coins
  BY Zenon DEF Candidates, CoinsAt
<1>2. CASE covering # {}
  <2>1. Min(vc) \in vc
    BY <1>1, <1>2, CoinValues, MinMax, Zenon
  <2>2. \E c \in covering : c.value = Min(vc)
    BY <2>1, Zenon
  <2>3. Chosen(a, amount) = CHOOSE c \in covering : c.value = Min(vc)
    BY <1>2, Zenon DEF Chosen
  <2> QED
    BY <2>2, <2>3, Zenon
<1>3. CASE covering = {}
  <2>1. Max(va) \in va
    BY <1>1, CoinValues, MinMax, Zenon
  <2>2. \E c \in Candidates(a) : c.value = Max(va)
    BY <2>1, Zenon
  <2>3. Chosen(a, amount) = CHOOSE c \in Candidates(a) : c.value = Max(va)
    BY <1>3, Zenon DEF Chosen
  <2> QED
    BY <2>2, <2>3, Zenon
<1> QED
  BY <1>2, <1>3, Zenon

\* Only request r changes, to q.
Sets(r, q) ==
    /\ request' \in [Requests -> Request]
    /\ \A s \in Requests : request'[s] = IF s = r THEN q ELSE request[s]

LEMMA SetsIfUpdated ==
    ASSUME Typed, NEW r \in Requests, NEW q \in Request, request' = [request EXCEPT ![r] = q]
    PROVE  Sets(r, q)
BY Zenon DEF Typed, Sets

\* What a new address for u changes.
LEMMA AssignMoves ==
    ASSUME Typed, NEW u \in Users, AssignAddress(u)
    PROVE  /\ owned' \in [Users -> Seq(Nat)] /\ current' \in [Users -> Nat]
           /\ nextAddr' = nextAddr + 1
           /\ \A v \in Users : Range(owned'[v]) = IF v = u THEN Range(owned[v]) \cup {nextAddr}
                                                  ELSE Range(owned[v])
           /\ \A v \in Users : HasAccount(v)' <=> v = u \/ HasAccount(v)
           /\ \A v \in Users : current'[v] = IF v = u THEN nextAddr ELSE current[v]
<1>1. /\ owned \in [Users -> Seq(Nat)] /\ owned[u] \in Seq(Nat) /\ nextAddr \in Nat
      /\ current \in [Users -> Nat]
  BY Zenon DEF Typed
<1> DEFINE s == Append(owned[u], nextAddr)
<1>2. s \in Seq(Nat) /\ s # <<>> /\ Range(s) = Range(owned[u]) \cup {nextAddr}
  BY <1>1, AppendRange, Zenon
<1>3. owned' = [owned EXCEPT ![u] = s]
  BY Zenon DEF AssignAddress
<1> HIDE DEF s
<1>4. owned' \in [Users -> Seq(Nat)] /\ \A v \in Users : owned'[v] = IF v = u THEN s ELSE owned[v]
  BY <1>1, <1>2, <1>3, Zenon
<1>5. /\ current' \in [Users -> Nat] /\ nextAddr' = nextAddr + 1
      /\ \A v \in Users : current'[v] = IF v = u THEN nextAddr ELSE current[v]
  BY <1>1, Zenon DEF AssignAddress
<1>6. \A v \in Users : HasAccount(v)' <=> v = u \/ HasAccount(v)
  BY <1>2, <1>4, Zenon DEF HasAccount
<1>7. \A v \in Users : Range(owned'[v]) = IF v = u THEN Range(owned[v]) \cup {nextAddr}
                                          ELSE Range(owned[v])
  BY <1>2, <1>4, Zenon
<1> QED
  BY <1>4, <1>5, <1>6, <1>7, Zenon
-----------------------------------------------------------------------------
(* Types *)

LEMMA NewCoinTyped ==
    ASSUME Typed, NEW a \in Nat, NEW v \in Nat, NEW st \in {"unconfirmed", "immature"},
           ncoins' = ncoins + 1, coins' = coins \cup {NewCoin(a, v, st)}, ncoins < MaxCoins
    PROVE  coins' \subseteq Coin /\ IsFiniteSet(coins') /\ ncoins' \in 0..MaxCoins
<1>1. ncoins + 1 \in Nat /\ ncoins' \in 0..MaxCoins
  BY HostedConstants DEF Typed
<1>2. (st = "immature") \in BOOLEAN
  BY Zenon
<1>3. NewCoin(a, v, st) \in Coin
  BY <1>1, <1>2, Zenon DEF NewCoin, Coin
<1> QED
  BY <1>1, <1>3, FS_AddElement, Zenon DEF Typed

LEMMA RipenTyped ==
    ASSUME Typed, NEW c \in coins, Ripen(c)
    PROVE  /\ coins' \subseteq Coin /\ IsFiniteSet(coins')
           /\ \E d \in Coin : /\ coins' = (coins \ {c}) \cup {d}
                              /\ d.id = c.id /\ d.addr = c.addr /\ d.state = "ready"
<1> DEFINE d == [c EXCEPT !.state = "ready"]
<1>1. c \in Coin
  BY Zenon DEF Typed
<1>2. d \in Coin /\ d.id = c.id /\ d.addr = c.addr /\ d.state = "ready"
  BY <1>1, Zenon DEF Coin
<1>3. coins' = (coins \ {c}) \cup {d}
  BY Zenon DEF Ripen
<1> HIDE DEF d
<1>4. IsFiniteSet(coins \ {c})
  BY FS_RemoveElement, Zenon DEF Typed
<1>5. IsFiniteSet(coins')
  BY <1>3, <1>4, FS_AddElement, Zenon
<1> QED
  BY <1>2, <1>3, <1>5, Zenon DEF Typed

\* A request's amount for one address is at most what remains.
LEMMA SendAmountBound ==
    ASSUME NEW q \in Request
    PROVE  SendAmount(q) \in Nat /\ SendAmount(q) <= q.remaining
BY DEF Request, SendAmount, SubtractFee

LEMMA SkippedFields ==
    ASSUME NEW q \in Request, q.todo # <<>>
    PROVE  /\ Skipped(q) \in Request
           /\ Skipped(q).pc = "loop" /\ Skipped(q).todo = Tail(q.todo)
           /\ Skipped(q).user = q.user /\ Skipped(q).seen = q.seen /\ Skipped(q).done = q.done
           /\ Skipped(q).sent = q.sent /\ Skipped(q).remaining = q.remaining
           /\ Skipped(q).amount = q.amount
<1>1. q.todo \in Seq(Nat) /\ Tail(q.todo) \in Seq(Nat)
  BY HeadTailRange, Zenon DEF Request
<1> QED
  BY <1>1, Zenon DEF Request, Skipped

LEMMA CountedFields ==
    ASSUME NEW q \in Request, q.todo # <<>>
    PROVE  /\ Counted(q) \in Request
           /\ Counted(q).pc = "loop" /\ Counted(q).todo = Tail(q.todo)
           /\ Counted(q).user = q.user /\ Counted(q).seen = q.seen
           /\ Counted(q).done = q.done \cup {Head(q.todo)}
           /\ Counted(q).sent = q.sent + SendAmount(q)
           /\ Counted(q).remaining = q.remaining - SendAmount(q)
           /\ Counted(q).amount = q.amount
<1> DEFINE s == Skipped(q)
           n == SendAmount(q)
<1>1. /\ s \in Request /\ s.pc = "loop" /\ s.todo = Tail(q.todo)
      /\ s.user = q.user /\ s.seen = q.seen /\ s.done = q.done
      /\ s.sent = q.sent /\ s.remaining = q.remaining /\ s.amount = q.amount
  BY SkippedFields, Zenon
<1>2. Head(q.todo) \in Nat
  BY DEF Request
<1>3. n \in Nat /\ n <= q.remaining /\ q.remaining \in Nat /\ q.sent \in Nat
  BY SendAmountBound, Zenon DEF Request
<1>4. q.sent + n \in Nat /\ q.remaining - n \in Nat
  BY <1>3
<1>5. Counted(q) = [s EXCEPT !.sent = s.sent + n, !.remaining = s.remaining - n,
                             !.done = s.done \cup {Head(q.todo)}]
  BY Zenon DEF Counted
<1>6. s.done \cup {Head(q.todo)} \in SUBSET Nat
  BY <1>1, <1>2, Zenon DEF Request
<1> HIDE DEF s, n
<1>7. s.sent + n \in Nat /\ s.remaining - n \in Nat
  BY <1>1, <1>4, Zenon
<1> DEFINE x == s.sent + n
           y == s.remaining - n
           z == s.done \cup {Head(q.todo)}
<1>8. /\ Counted(q) = [s EXCEPT !.sent = x, !.remaining = y, !.done = z]
      /\ x \in Nat /\ y \in Nat /\ z \in SUBSET Nat
  BY <1>5, <1>6, <1>7, Zenon
<1>9. x = q.sent + SendAmount(q) /\ y = q.remaining - SendAmount(q)
      /\ z = q.done \cup {Head(q.todo)}
  BY <1>1, Zenon DEF n
<1> HIDE DEF x, y, z
<1>10. /\ Counted(q) \in Request
       /\ Counted(q).sent = x /\ Counted(q).remaining = y /\ Counted(q).done = z
       /\ Counted(q).pc = s.pc /\ Counted(q).todo = s.todo /\ Counted(q).user = s.user
       /\ Counted(q).seen = s.seen /\ Counted(q).amount = s.amount
  BY <1>1, <1>8, ZenonT(60) DEF Request
<1> QED
  BY <1>1, <1>9, <1>10, Zenon

LEMMA EndedFields ==
    ASSUME NEW q \in Request
    PROVE  /\ Ended(q) \in Request
           /\ Ended(q).pc = "done" /\ Ended(q).todo = <<>>
           /\ Ended(q).user = q.user /\ Ended(q).seen = q.seen /\ Ended(q).done = q.done
           /\ Ended(q).sent = q.sent /\ Ended(q).remaining = q.remaining
           /\ Ended(q).amount = q.amount
<1> DEFINE e == <<>>
<1>1. e \in Seq(Nat) /\ Ended(q) = [q EXCEPT !.pc = "done", !.todo = e]
  BY DEF Ended
<1>2. e = <<>>
  BY Zenon
<1> HIDE DEF e
<1> QED
  BY <1>1, <1>2, Zenon DEF Request

LEMMA NoRequestTyped ==
    /\ NoRequest \in Request /\ NoRequest.pc = "idle" /\ NoRequest.todo = <<>>
    /\ NoRequest.done = {} /\ NoRequest.sent = 0 /\ NoRequest.remaining = 0
    /\ NoRequest.amount = 0
BY DEF NoRequest, Request
\* One call of sendfromxmssaddress for request r: a coin at an address of the
\* user, which has not signed yet, goes, and the change is at a new address.
Sends(r, c) ==
    LET a == Head(request[r].todo)
    IN  /\ c \in coins /\ c.addr = a /\ c.state \in {"immature", "ready"}
        /\ a \in Range(owned[request[r].user]) /\ a \notin retired
        /\ nextAddr' = nextAddr + 1 /\ retired' = retired \cup {a}
        /\ coins' \subseteq Coin /\ IsFiniteSet(coins')
        /\ \A d \in coins' : \/ d \in coins /\ d # c
                             \/ d.addr = nextAddr /\ d.state = "change" /\ d.value > 0
        /\ \E t \in Tx : /\ t.req = r /\ t.coin = c.id /\ t.addr = a
                         /\ t.amount = SendAmount(request[r]) /\ txs' = txs \cup {t}

LEMMA SendMoves ==
    ASSUME Typed, HostedInv, NEW r \in Requests, request[r].pc = "send",
           CanSend(Head(request[r].todo), SendAmount(request[r]), SubtractFee(request[r])),
           SendFrom(r, Head(request[r].todo), SendAmount(request[r]), SubtractFee(request[r]))
    PROVE  \E c \in coins : Sends(r, c)
<1> DEFINE q == request[r]
           a == Head(q.todo)
           n == SendAmount(q)
           fee == IF SubtractFee(q) THEN 0 ELSE Fee
           c == Chosen(a, n)
           change == c.value - n - fee
           k == [id |-> MaxCoins + nextAddr, addr |-> nextAddr, value |-> change,
                 state |-> "change", reward |-> FALSE]
           t == [req |-> r, coin |-> c.id, addr |-> c.addr, amount |-> n]
<1>1. q \in Request /\ q.todo # <<>> /\ q.user \in Users /\ Range(q.todo) \subseteq Range(owned[q.user])
  BY Zenon DEF Typed, HostedInv, RequestInv
<1>2. a \in Range(owned[q.user])
  <2>1. q.todo \in Seq(Nat)
    BY <1>1, Zenon DEF Request
  <2> QED
    BY <1>1, <2>1, HeadTailRange, Zenon
<1>3. a \notin retired /\ c \in Candidates(a) /\ c.value >= n + fee
  BY ChosenCandidate, Zenon DEF CanSend
<1>4. n \in Nat /\ fee \in Nat
  BY <1>1, SendAmountBound, HostedConstants, Zenon
<1>5. c \in coins /\ c \in Coin /\ c.addr = a /\ c.state \in {"immature", "ready"}
  BY <1>3, Zenon DEF Candidates, CoinsAt, Typed
<1>6. c.value \in Nat /\ c.id \in Nat /\ c.addr \in Nat
  BY <1>5, Zenon DEF Coin
<1>7. /\ nextAddr' = nextAddr + 1 /\ retired' = retired \cup {a}
      /\ coins' = (coins \ {c}) \cup (IF change = 0 THEN {} ELSE {k})
      /\ txs' = txs \cup {t}
  BY <1>5, Zenon DEF SendFrom
<1> HIDE DEF q, n, fee, c
<1>8. change \in Nat
  BY <1>3, <1>4, <1>6
<1>9. k \in Coin /\ k.addr = nextAddr /\ k.state = "change" /\ k.value = change
  <2>1. nextAddr \in Nat /\ MaxCoins + nextAddr \in Nat
    BY HostedConstants DEF Typed
  <2> HIDE DEF change
  <2>2. FALSE \in BOOLEAN
    BY Zenon
  <2> QED
    BY <1>8, <2>1, <2>2, Zenon DEF Coin
<1>10. t \in Tx /\ t.req = r /\ t.coin = c.id /\ t.addr = a /\ t.amount = SendAmount(request[r])
  BY <1>4, <1>5, <1>6, Zenon DEF Tx, n, q
<1> HIDE DEF k, t, change
<1>11. coins' \subseteq Coin
  BY <1>7, <1>9, Zenon DEF Typed
<1>12. IsFiniteSet(coins')
  <2>1. IsFiniteSet(coins \ {c}) /\ IsFiniteSet((coins \ {c}) \cup {k})
    BY FS_RemoveElement, FS_AddElement, Zenon DEF Typed
  <2>2. coins' = coins \ {c} \/ coins' = (coins \ {c}) \cup {k}
    BY <1>7, Zenon
  <2> QED
    BY <2>1, <2>2, Zenon
<1>13. \A d \in coins' : \/ d \in coins /\ d # c
                         \/ d.addr = nextAddr /\ d.state = "change" /\ d.value > 0
  <2>1. change # 0 => change > 0
    BY <1>8
  <2> QED
    BY <1>7, <1>9, <2>1, Zenon
<1>14. a = Head(request[r].todo) /\ a \in Range(owned[request[r].user])
  BY <1>2, Zenon DEF q
<1> HIDE DEF a
<1> QED
  BY <1>3, <1>5, <1>7, <1>10, <1>11, <1>12, <1>13, <1>14, Zenon DEF Sends
\* A request goes on with the locals q.
Follows(r, q) ==
    /\ q \in Request /\ q.pc # "idle" /\ request[r].pc \notin {"idle", "done"}
    /\ q.user = request[r].user /\ q.user \in Users /\ q.seen = request[r].seen
    /\ Range(q.todo) \subseteq Range(owned[q.user]) /\ (q.pc = "send" => q.todo # <<>>)
    /\ q.sent + q.remaining = q.amount

LEMMA ReadMoves ==
    ASSUME Typed, HostedInv, NEW r \in Requests, ReadAddresses(r)
    PROVE  \E q : /\ Sets(r, q) /\ Follows(r, q) /\ q.pc = "loop" /\ q.done = request[r].done
                  /\ q.sent = request[r].sent
<1> DEFINE o == request[r]
           s == owned[o.user]
           q == [o EXCEPT !.pc = "loop", !.todo = s]
<1>1. o \in Request /\ o.pc = "addresses" /\ o.user \in Users /\ o.sent + o.remaining = o.amount
  BY Zenon DEF Typed, HostedInv, RequestInv, ReadAddresses
<1>2. s \in Seq(Nat)
  BY <1>1, Zenon DEF Typed
<1>3. request' = [request EXCEPT ![r] = q]
  BY Zenon DEF ReadAddresses, Typed
<1>4. Range(s) = Range(owned[o.user])
  BY Zenon
<1> HIDE DEF o, s
<1>5. /\ q \in Request /\ q.pc = "loop" /\ q.todo = s /\ q.user = o.user /\ q.seen = o.seen
      /\ q.sent = o.sent /\ q.remaining = o.remaining /\ q.amount = o.amount /\ q.done = o.done
  BY <1>1, <1>2, Zenon DEF Request
<1> HIDE DEF q
<1>6. Sets(r, q)
  BY <1>3, <1>5, SetsIfUpdated, Zenon
<1> QED
  BY <1>1, <1>4, <1>5, <1>6, Zenon DEF Follows, o

LEMMA LookMoves ==
    ASSUME Typed, HostedInv, NEW r \in Requests, Look(r)
    PROVE  \E q : /\ Sets(r, q) /\ Follows(r, q) /\ q.pc \in {"loop", "send"}
                  /\ q.done = request[r].done /\ q.sent = request[r].sent
                  /\ q.pc = "send" => q.remaining > 0 /\ \E c \in coins : q.cap = c.value
<1> DEFINE o == request[r]
           a == Head(o.todo)
           S == Spendable(a)
           cap == Max({c.value : c \in S})
           skip == [o EXCEPT !.todo = Tail(o.todo)]
           take == [o EXCEPT !.pc = "send", !.cap = cap]
<1>1. /\ o \in Request /\ o.pc = "loop" /\ o.user \in Users /\ o.sent + o.remaining = o.amount
      /\ Range(o.todo) \subseteq Range(owned[o.user]) /\ o.todo # <<>> /\ o.remaining > 0
  BY Zenon DEF Typed, HostedInv, RequestInv, Look
<1>2. \/ request' = [request EXCEPT ![r] = skip]
      \/ S # {} /\ request' = [request EXCEPT ![r] = take]
  BY Zenon DEF Look, Typed
<1>3. o.todo \in Seq(Nat)
  BY <1>1, Zenon DEF Request
<1>4. Tail(o.todo) \in Seq(Nat) /\ Range(Tail(o.todo)) \subseteq Range(o.todo)
  BY <1>1, <1>3, HeadTailRange, Zenon
<1>5. S # {} => cap \in Nat /\ \E c \in coins : cap = c.value
  <2>1. S \in SUBSET coins
    BY Zenon DEF Spendable, CoinsAt
  <2>2. S # {} => cap \in Nat /\ cap \in {c.value : c \in S}
    BY <2>1, CoinValues, MinMax, Zenon
  <2> QED
    BY <2>1, <2>2, Zenon
<1> HIDE DEF o, cap, S
<1>6. CASE request' = [request EXCEPT ![r] = skip]
  <2>1. /\ skip \in Request /\ skip.pc = "loop" /\ skip.todo = Tail(o.todo)
        /\ skip.user = o.user /\ skip.seen = o.seen /\ skip.done = o.done
        /\ skip.sent = o.sent /\ skip.remaining = o.remaining /\ skip.amount = o.amount
    BY <1>1, <1>4, Zenon DEF Request
  <2> HIDE DEF skip
  <2>2. Sets(r, skip)
    BY <1>6, <2>1, SetsIfUpdated, Zenon
  <2> QED
    BY <1>1, <1>4, <2>1, <2>2, Zenon DEF Follows, o
<1>7. CASE S # {} /\ request' = [request EXCEPT ![r] = take]
  <2>1. /\ take \in Request /\ take.pc = "send" /\ take.todo = o.todo
        /\ take.user = o.user /\ take.seen = o.seen /\ take.done = o.done
        /\ take.sent = o.sent /\ take.remaining = o.remaining /\ take.amount = o.amount
        /\ take.cap = cap
    BY <1>1, <1>5, <1>7, Zenon DEF Request
  <2> HIDE DEF take
  <2>2. Sets(r, take)
    BY <1>7, <2>1, SetsIfUpdated, Zenon
  <2> QED
    BY <1>1, <1>5, <1>7, <2>1, <2>2, Zenon DEF Follows, o
<1> QED
  BY <1>2, <1>6, <1>7, Zenon

LEMMA SkipMoves ==
    ASSUME Typed, HostedInv, NEW r \in Requests, request[r].pc = "send",
           request' = [request EXCEPT ![r] = Skipped(request[r])]
    PROVE  \E q : /\ Sets(r, q) /\ Follows(r, q) /\ q.pc = "loop" /\ q.done = request[r].done
                  /\ q.sent = request[r].sent
<1> DEFINE o == request[r]
           q == Skipped(o)
<1>1. /\ o \in Request /\ o.pc = "send" /\ o.user \in Users /\ o.sent + o.remaining = o.amount
      /\ Range(o.todo) \subseteq Range(owned[o.user]) /\ o.todo # <<>> /\ o.todo \in Seq(Nat)
  BY Zenon DEF Typed, HostedInv, RequestInv, Request
<1>2. Range(Tail(o.todo)) \subseteq Range(o.todo)
  BY <1>1, HeadTailRange, Zenon
<1>3. /\ q \in Request /\ q.pc = "loop" /\ q.todo = Tail(o.todo)
      /\ q.user = o.user /\ q.seen = o.seen /\ q.done = o.done
      /\ q.sent = o.sent /\ q.remaining = o.remaining /\ q.amount = o.amount
  BY <1>1, SkippedFields, Zenon
<1>4. Sets(r, q)
  BY <1>3, SetsIfUpdated, Zenon
<1> HIDE DEF q
<1> QED
  BY <1>1, <1>2, <1>3, <1>4, Zenon DEF Follows

LEMMA CountMoves ==
    ASSUME Typed, HostedInv, NEW r \in Requests, request[r].pc = "send",
           request' = [request EXCEPT ![r] = Counted(request[r])]
    PROVE  \E q : /\ Sets(r, q) /\ Follows(r, q) /\ q.pc = "loop"
                  /\ q.done = request[r].done \cup {Head(request[r].todo)}
                  /\ q.sent = request[r].sent + SendAmount(request[r])
<1> DEFINE o == request[r]
           q == Counted(o)
           n == SendAmount(o)
<1>1. /\ o \in Request /\ o.pc = "send" /\ o.user \in Users /\ o.sent + o.remaining = o.amount
      /\ Range(o.todo) \subseteq Range(owned[o.user]) /\ o.todo # <<>> /\ o.todo \in Seq(Nat)
      /\ o.sent \in Nat /\ o.remaining \in Nat /\ n \in Nat
  BY SendAmountBound, Zenon DEF Typed, HostedInv, RequestInv, Request
<1>2. Range(Tail(o.todo)) \subseteq Range(o.todo)
  BY <1>1, HeadTailRange, Zenon
<1>3. /\ q \in Request /\ q.pc = "loop" /\ q.todo = Tail(o.todo)
      /\ q.user = o.user /\ q.seen = o.seen /\ q.done = o.done \cup {Head(o.todo)}
      /\ q.sent = o.sent + n /\ q.remaining = o.remaining - n /\ q.amount = o.amount
  BY <1>1, CountedFields, Zenon
<1>4. Sets(r, q)
  BY <1>3, SetsIfUpdated, Zenon
<1> HIDE DEF q, n
<1>5. q.sent + q.remaining = q.amount
  BY <1>1, <1>3
<1> QED
  BY <1>1, <1>2, <1>3, <1>4, <1>5, Zenon DEF Follows, n

LEMMA EndMoves ==
    ASSUME Typed, HostedInv, NEW r \in Requests, LoopOver(request[r]),
           request' = [request EXCEPT ![r] = Ended(request[r])]
    PROVE  \E q : /\ Sets(r, q) /\ Follows(r, q) /\ q.pc = "done" /\ q.done = request[r].done
                  /\ q.sent = request[r].sent
<1> DEFINE o == request[r]
           q == Ended(o)
<1>1. o \in Request /\ o.pc = "loop" /\ o.user \in Users /\ o.sent + o.remaining = o.amount
  BY Zenon DEF Typed, HostedInv, RequestInv, LoopOver
<1>2. /\ q \in Request /\ q.pc = "done" /\ q.todo = <<>>
      /\ q.user = o.user /\ q.seen = o.seen /\ q.done = o.done
      /\ q.sent = o.sent /\ q.remaining = o.remaining /\ q.amount = o.amount
  BY <1>1, EndedFields, Zenon
<1>3. Sets(r, q)
  BY <1>2, SetsIfUpdated, Zenon
<1> HIDE DEF q
<1> QED
  BY <1>1, <1>2, <1>3, EmptyRange, Zenon DEF Follows
LEMMA StartMoves ==
    ASSUME Typed, HostedInv, NEW r \in Requests, NEW u \in Users, NEW n \in Amounts,
           StartSend(r, u, n)
    PROVE  \E q : /\ Sets(r, q) /\ q \in Request /\ q.pc = "addresses" /\ q.user = u
                  /\ q.todo = <<>> /\ q.done = {} /\ q.sent + q.remaining = q.amount
                  /\ q.sent = 0
<1> DEFINE c == current[u]
           q == [NoRequest EXCEPT !.pc = "addresses", !.user = u, !.amount = n,
                                  !.remaining = n, !.seen = c]
<1>1. c \in Nat /\ n \in Nat
  BY HostedConstants, Zenon DEF Typed
<1>2. request' = [request EXCEPT ![r] = q]
  BY Zenon DEF StartSend
<1> HIDE DEF c
<1>3. /\ q \in Request /\ q.pc = "addresses" /\ q.user = u /\ q.todo = NoRequest.todo
      /\ q.done = NoRequest.done /\ q.sent = NoRequest.sent /\ q.remaining = n /\ q.amount = n
  BY <1>1, NoRequestTyped, Zenon DEF Request
<1> HIDE DEF q
<1>4. Sets(r, q)
  BY <1>2, <1>3, SetsIfUpdated, Zenon
<1> QED
  BY <1>1, <1>3, <1>4, NoRequestTyped

-----------------------------------------------------------------------------
(* Steps that leave addresses and requests alone *)

LEMMA CoinArrives ==
    ASSUME Typed, HostedInv, NEW a \in 1..(nextAddr - 1), NEW w \in Nat,
           NEW st \in {"unconfirmed", "immature"},
           ncoins < MaxCoins, ncoins' = ncoins + 1, coins' = coins \cup {NewCoin(a, w, st)},
           miner' \in [Users -> [addr: Nat, found: BOOLEAN]],
           \A v \in Users : /\ miner'[v].addr = miner[v].addr
                            /\ miner'[v].found => miner[v].found \/ HasAccount(v),
           UNCHANGED <<current, owned, nextAddr, retired, request, txs, excused>>
    PROVE  Typed' /\ HostedInv'
<1> DEFINE n == NewCoin(a, w, st)
<1>1. /\ n.id = ncoins + 1 /\ n.addr = a /\ n.state = st
      /\ ncoins \in Nat /\ ncoins' \in Nat /\ nextAddr \in Nat
  BY HostedConstants DEF NewCoin, Typed
<1>2. coins' \subseteq Coin /\ IsFiniteSet(coins') /\ ncoins' \in 0..MaxCoins
  <2>1. a \in Nat
    BY <1>1
  <2> QED
    BY <2>1, NewCoinTyped, Zenon
<1>3. Typed'
  BY <1>2, Zenon DEF Typed
<1> HIDE DEF n
<1>4. coins' = coins \cup {n}
  BY Zenon DEF n
<1>5. \A v \in Users : HasAccount(v)' <=> HasAccount(v)
  BY Zenon DEF HasAccount
<1>6. AddressInv'
  BY <1>1, <1>4, <1>5, Zenon DEF HostedInv, AddressInv
<1>7. RequestInv' /\ CountInv'
  BY Zenon DEF HostedInv, RequestInv, CountInv, Spent, Over
<1>8. DrainInv'
  BY Zenon DEF HostedInv, DrainInv, RequestsOf, Lost
<1>9. TxInv'
  <2>1. \A k \in 1..ncoins : k \in 1..ncoins' /\ k # n.id
    BY <1>1
  <2>2. n.id \in 1..ncoins'
    BY <1>1
  <2>3. TxInv
    BY Zenon DEF HostedInv
  <2>4. \A t \in txs : t.coin # n.id
    BY <2>1, <2>3, Zenon DEF TxInv
  <2>5. \A c \in coins : c.state # "change" => c.id # n.id
    BY <2>1, <2>3, Zenon DEF TxInv
  <2>6. \A t \in txs' : t.coin \in 1..ncoins' /\ t.addr \in retired' /\ request'[t.req].pc # "idle"
                        /\ t.addr \in Range(owned'[request'[t.req].user])
    BY <2>1, <2>3, Zenon DEF TxInv
  <2>7. \A c \in coins' : c.state # "change" =>
         /\ c.id \in 1..ncoins'
         /\ \A t \in txs' : t.coin # c.id
         /\ \A d \in coins' : d.state # "change" /\ d.id = c.id => d = c
    BY <1>4, <2>1, <2>2, <2>3, <2>4, <2>5, Zenon DEF TxInv
  <2> QED
    BY <2>6, <2>7, Zenon DEF TxInv
<1> QED
  BY <1>3, <1>6, <1>7, <1>8, <1>9, Zenon DEF HostedInv

LEMMA CoinRipens ==
    ASSUME Typed, HostedInv, NEW c \in coins, Ripen(c)
    PROVE  Typed' /\ HostedInv'
<1>1. UNCHANGED <<current, owned, nextAddr, ncoins, retired, miner, request, txs, excused>>
  BY Zenon DEF Ripen
<1>2. PICK d \in Coin : coins' = (coins \ {c}) \cup {d} /\ d.id = c.id /\ d.addr = c.addr
  BY RipenTyped, Zenon
<1>3. c.state # "change"
  BY Zenon DEF Ripen
<1>4. Typed'
  BY <1>1, RipenTyped, Zenon DEF Typed
<1>5. \A v \in Users : HasAccount(v)' <=> HasAccount(v)
  BY <1>1, Zenon DEF HasAccount
<1>6. AddressInv'
  BY <1>1, <1>2, <1>5, Zenon DEF HostedInv, AddressInv
<1>7. RequestInv' /\ CountInv'
  BY <1>1, Zenon DEF HostedInv, RequestInv, CountInv, Spent, Over
<1>8. DrainInv'
  BY <1>1, Zenon DEF HostedInv, DrainInv, RequestsOf, Lost
<1>9. TxInv'
  BY <1>1, <1>2, <1>3 DEF HostedInv, TxInv
<1> QED
  BY <1>4, <1>6, <1>7, <1>8, <1>9, Zenon DEF HostedInv
-----------------------------------------------------------------------------
(* Steps of a request *)

\* The coins that are spent.
LEMMA SpentCount ==
    ASSUME Typed, HostedInv
    PROVE  IsFiniteSet(Spent) /\ Cardinality(Spent) \in Nat /\ Cardinality(Spent) <= MaxCoins
<1>1. ncoins \in Nat /\ ncoins <= MaxCoins /\ MaxCoins \in Nat
  BY HostedConstants DEF Typed
<1>2. IsFiniteSet(1..ncoins) /\ Cardinality(1..ncoins) = IF 1 > ncoins THEN 0 ELSE ncoins - 1 + 1
  BY <1>1, FS_Interval
<1>3. Spent \in SUBSET (1..ncoins)
  BY Zenon DEF HostedInv, TxInv, Spent
<1>4. IsFiniteSet(Spent) /\ Cardinality(Spent) <= Cardinality(1..ncoins)
  BY <1>2, <1>3, FS_Subset, Zenon
<1>5. Cardinality(Spent) \in Nat
  BY <1>4, FS_CardinalityType, Zenon
<1> QED
  BY <1>1, <1>2, <1>4, <1>5

LEMMA SumGrows ==
    ASSUME NEW x \in Nat, NEW y \in Nat, NEW z, NEW o, z = x + 1, o = y
    PROVE  z \in Nat /\ o \in Nat /\ z + o >= x + y + 1
OBVIOUS

\* k addresses more, and at least as many coins spent or requests over.
LEMMA CountGrows ==
    ASSUME Typed, HostedInv, NEW k \in Nat, nextAddr' = nextAddr + k,
           NEW c \in Nat, NEW d \in Nat, c = Cardinality(Spent'), d = Cardinality(Over'),
           c + d >= Cardinality(Spent) + Cardinality(Over) + k
    PROVE  CountInv'
<1> DEFINE a == Cardinality(Spent)
           b == Cardinality(Over)
<1>1. a \in Nat /\ MaxAddresses \in Nat /\ nextAddr \in Nat
  BY SpentCount, HostedConstants, Zenon DEF Typed
<1>2. IsFiniteSet(Over)
  BY HostedConstants, FS_Subset, Zenon DEF Over
<1>3. b \in Nat
  BY <1>2, FS_CardinalityType, Zenon
<1>4. nextAddr - 1 <= MaxAddresses + a + b /\ c + d >= a + b + k
  BY Zenon DEF HostedInv, CountInv
<1>5. CountInv' <=> nextAddr + k - 1 <= MaxAddresses + c + d
  BY <1>1 DEF CountInv
<1> HIDE DEF a, b
<1> QED
  BY <1>1, <1>3, <1>4, <1>5

\* The requests that are over, after a step of request r.
LEMMA OverMoves ==
    ASSUME Typed, NEW r \in Requests, NEW q, Sets(r, q), request[r].pc # "done"
    PROVE  /\ IsFiniteSet(Over) /\ Cardinality(Over) \in Nat
           /\ Cardinality(Over') = IF q.pc = "done" THEN Cardinality(Over) + 1 ELSE Cardinality(Over)
<1>1. IsFiniteSet(Over)
  BY HostedConstants, FS_Subset, Zenon DEF Over
<1>2. Cardinality(Over) \in Nat
  BY <1>1, FS_CardinalityType, Zenon
<1>3. r \notin Over
  BY Zenon DEF Over
<1>4. CASE q.pc = "done"
  <2>1. Over' = Over \cup {r}
    BY <1>4, Zenon DEF Over, Sets
  <2>2. Cardinality(Over \cup {r}) = Cardinality(Over) + 1
    BY <1>1, <1>3, FS_AddElement, Zenon
  <2> QED
    BY <1>1, <1>2, <1>4, <2>1, <2>2, Zenon
<1>5. CASE q.pc # "done"
  <2>1. Over' = Over
    BY <1>3, <1>5, Zenon DEF Over, Sets
  <2> QED
    BY <1>1, <1>2, <1>5, <2>1, Zenon
<1> QED
  BY <1>4, <1>5, Zenon

\* The other requests keep their addresses, and this one has its own.
LEMMA RequestGoesOn ==
    ASSUME Typed, HostedInv, NEW r \in Requests, NEW q, Sets(r, q), Follows(r, q),
           \A v \in Users : Range(owned[v]) \subseteq Range(owned'[v])
    PROVE  RequestInv'
<1>1. ASSUME NEW s \in Requests
      PROVE  LET p == request'[s] IN
             /\ p.pc # "idle" => p.user \in Users /\ Range(owned'[p.user]) # {}
             /\ Range(p.todo) \subseteq (IF p.pc = "idle" THEN {} ELSE Range(owned'[p.user]))
             /\ p.pc = "send" => p.todo # <<>>
             /\ p.pc = "idle" => p.user = "none"
             /\ p.sent + p.remaining = p.amount
  <2>1. CASE s = r
    <3>1. request'[s] = q /\ Range(owned[q.user]) # {}
      BY <2>1, Zenon DEF Sets, Follows, HostedInv, RequestInv
    <3> QED
      BY <3>1, Zenon DEF Follows
  <2>2. CASE s # r
    BY <2>2, ZenonT(60) DEF Sets, HostedInv, RequestInv
  <2> QED
    BY <2>1, <2>2, Zenon
<1> QED
  BY <1>1, Zenon DEF RequestInv

\* A new address for a user: in sign-up, rotation and at the end of a request.
LEMMA AddressAssigned ==
    ASSUME Typed, HostedInv, NEW u \in Users, AssignAddress(u),
           UNCHANGED <<coins, ncoins, retired, txs>>, excused \subseteq excused',
           miner' \in [Users -> [addr: Nat, found: BOOLEAN]],
           \A v \in Users : IF HasAccount(v)' THEN miner'[v].addr \in Range(owned'[v])
                                              ELSE ~miner'[v].found,
           request' \in [Requests -> Request], RequestInv', CountInv',
           \A r \in Requests : /\ request[r].pc # "idle" => request'[r].pc # "idle"
                               /\ request'[r].user = request[r].user
                               /\ request[r].user # u => request'[r] = request[r]
    PROVE  Typed' /\ HostedInv'
<1>1. /\ owned' \in [Users -> Seq(Nat)] /\ current' \in [Users -> Nat] /\ nextAddr' = nextAddr + 1
      /\ \A v \in Users : Range(owned'[v]) = IF v = u THEN Range(owned[v]) \cup {nextAddr}
                                             ELSE Range(owned[v])
      /\ \A v \in Users : HasAccount(v)' <=> v = u \/ HasAccount(v)
      /\ \A v \in Users : current'[v] = IF v = u THEN nextAddr ELSE current[v]
  BY AssignMoves, Zenon
<1>2. nextAddr \in Nat \ {0} /\ nextAddr' \in Nat \ {0}
  BY <1>1 DEF Typed
<1>3. Typed'
  BY <1>1, <1>2, Zenon DEF Typed
<1>4. nextAddr \notin 1..(nextAddr - 1) /\ 1..(nextAddr' - 1) = (1..(nextAddr - 1)) \cup {nextAddr}
  BY <1>1, <1>2
<1>5. AddressInv'
  <2> DEFINE R(v) == Range(owned[v])
             S(v) == Range(owned'[v])
             N == 1..(nextAddr - 1)
             M == 1..(nextAddr' - 1)
  <2>1. /\ \A v \in Users : S(v) = IF v = u THEN R(v) \cup {nextAddr} ELSE R(v)
        /\ nextAddr \notin N /\ M = N \cup {nextAddr}
    BY <1>1, <1>4, Zenon
  <2>2. /\ \A v \in Users : R(v) \subseteq N
        /\ \A v, w \in Users : v # w => R(v) \cap R(w) = {}
        /\ \A v \in Users : IF HasAccount(v) THEN current[v] \in R(v) ELSE current[v] = 0
        /\ retired \subseteq N /\ \A c \in coins : c.addr \in N
    BY Zenon DEF HostedInv, AddressInv
  <2>3. \A v \in Users : IF HasAccount(v)' THEN miner'[v].addr \in S(v) ELSE ~miner'[v].found
    BY Zenon
  <2> HIDE DEF R, S, N, M
  <2>4. \A v \in Users : S(v) \subseteq M
    BY <2>1, <2>2, Zenon
  <2>5. \A v, w \in Users : v # w => S(v) \cap S(w) = {}
    BY <2>1, <2>2
  <2>6. \A v \in Users : IF HasAccount(v)' THEN current'[v] \in S(v) ELSE current'[v] = 0
    <3> TAKE v \in Users
    <3>1. CASE v = u
      BY <1>1, <2>1, <3>1, Zenon
    <3>2. CASE v # u
      <4>1. S(v) = R(v) /\ current'[v] = current[v] /\ (HasAccount(v)' <=> HasAccount(v))
        BY <1>1, <2>1, <3>2, Zenon
      <4> QED
        BY <2>2, <4>1, Zenon
    <3> QED
      BY <3>1, <3>2, Zenon
  <2>7. retired' \subseteq M /\ \A c \in coins' : c.addr \in M
    BY <2>1, <2>2, Zenon
  <2> QED
    BY <2>3, <2>4, <2>5, <2>6, <2>7, ZenonT(60) DEF AddressInv, S, M
<1>6. TxInv'
  <2>1. TxInv
    BY Zenon DEF HostedInv
  <2>2. \A t \in txs : t.req \in Requests
    BY Zenon DEF Typed, Tx
  <2>3. \A t \in txs : request[t.req].user \in Users
    BY <2>1, <2>2, Zenon DEF HostedInv, RequestInv, TxInv
  <2>4. \A t \in txs : request'[t.req].pc # "idle" /\ t.addr \in Range(owned'[request'[t.req].user])
    <3> TAKE t \in txs
    <3> DEFINE v == request[t.req].user
    <3>1. request[t.req].pc # "idle" /\ t.addr \in Range(owned[v])
      BY <2>1, Zenon DEF TxInv
    <3>2. t.req \in Requests /\ v \in Users /\ request'[t.req].user = v
      BY <2>2, <2>3, Zenon
    <3>3. Range(owned'[v]) = Range(owned[v]) \/ Range(owned'[v]) = Range(owned[v]) \cup {nextAddr}
      BY <1>1, <3>2, Zenon
    <3> QED
      BY <3>1, <3>2, <3>3, Zenon
  <2> QED
    BY <2>1, <2>4, Zenon DEF TxInv
<1>7. DrainInv'
  <2>1. current'[u] \notin retired
    BY <1>1, <1>4 DEF HostedInv, AddressInv
  <2>2. \A v \in Users \ {u} : \A r \in RequestsOf(v) : r \in RequestsOf(v)' /\ request'[r] = request[r]
    BY Zenon DEF RequestsOf
  <2>3. ASSUME NEW v \in Users, current'[v] \in retired'
        PROVE  \/ <<"no_new_address", v>> \in excused'
               \/ \E r \in RequestsOf(v)' :
                    \/ Lost(r)'
                    \/ /\ current'[v] \in request'[r].done
                       /\ Active(request'[r]) \/ current'[v] # request'[r].seen
    <3>1. v # u /\ current'[v] = current[v] /\ current[v] \in retired
      BY <1>1, <2>1, <2>3, Zenon
    <3>2. CASE <<"no_new_address", v>> \in excused
      BY <3>2, Zenon
    <3>3. ASSUME NEW r \in RequestsOf(v),
                 \/ Lost(r)
                 \/ /\ current[v] \in request[r].done
                    /\ Active(request[r]) \/ current[v] # request[r].seen
          PROVE  /\ r \in RequestsOf(v)'
                 /\ \/ Lost(r)'
                    \/ /\ current'[v] \in request'[r].done
                       /\ Active(request'[r]) \/ current'[v] # request'[r].seen
      <4>1. r \in RequestsOf(v)' /\ request'[r] = request[r]
        BY <2>2, <3>1, Zenon
      <4>2. Lost(r) => Lost(r)'
        BY Zenon DEF Lost
      <4> QED
        BY <3>1, <3>3, <4>1, <4>2, Zenon
    <3> QED
      BY <3>1, <3>2, <3>3, Zenon DEF HostedInv, DrainInv
  <2> QED
    BY <2>3, Zenon DEF DrainInv
<1> QED
  BY <1>3, <1>5, <1>6, <1>7, Zenon DEF HostedInv
\* A request takes a step that sends nothing.
LEMMA RequestQuiet ==
    ASSUME Typed, HostedInv, NEW r \in Requests, NEW q, Sets(r, q), Follows(r, q),
           q.done = request[r].done, excused \subseteq excused',
           q.pc = "done" => \/ q.done = {} \/ q.seen \notin retired
                            \/ <<"no_new_address", q.user>> \in excused',
           UNCHANGED <<current, owned, nextAddr, coins, ncoins, retired, miner, txs>>
    PROVE  Typed' /\ HostedInv'
<1>1. Typed'
  BY Zenon DEF Typed, Sets
<1>2. AddressInv'
  <2>1. \A v \in Users : HasAccount(v)' <=> HasAccount(v)
    BY Zenon DEF HasAccount
  <2> QED
    BY <2>1, Zenon DEF HostedInv, AddressInv
<1>3. RequestInv'
  BY RequestGoesOn, Zenon
<1>4. TxInv'
  <2>1. \A t \in txs : t.req \in Requests
    BY Zenon DEF Typed, Tx
  <2>2. \A s \in Requests : /\ request'[s].user = request[s].user
                            /\ request[s].pc # "idle" => request'[s].pc # "idle"
    BY Zenon DEF Sets, Follows
  <2> QED
    BY <2>1, <2>2, Zenon DEF HostedInv, TxInv
<1>5. CountInv'
  <2>1. Spent' = Spent /\ request[r].pc # "done"
    BY Zenon DEF Spent, Follows
  <2>2. /\ Cardinality(Over) \in Nat
        /\ Cardinality(Over') = Cardinality(Over) + 1 \/ Cardinality(Over') = Cardinality(Over)
    BY <2>1, OverMoves, Zenon
  <2>3. Cardinality(Spent) \in Nat /\ nextAddr \in Nat
    BY SpentCount, Zenon DEF Typed
  <2> DEFINE a == Cardinality(Spent)
             b == Cardinality(Over)
             d == Cardinality(Over')
  <2>4. d \in Nat /\ a + d >= a + b + 0 /\ nextAddr' = nextAddr + 0
    <3>1. nextAddr' = nextAddr + 0
      <4>1. nextAddr' = nextAddr
        BY Zenon
      <4> QED
        BY <2>3, <4>1
    <3>2. a \in Nat /\ b \in Nat /\ (d = b + 1 \/ d = b)
      BY <2>2, <2>3, Zenon
    <3> HIDE DEF a, b, d
    <3> QED
      BY <3>1, <3>2
  <2> QED
    BY <2>1, <2>3, <2>4, CountGrows, Zenon
<1>6. DrainInv'
  <2>1. ASSUME NEW u \in Users, current'[u] \in retired'
        PROVE  \/ <<"no_new_address", u>> \in excused'
               \/ \E s \in RequestsOf(u)' :
                    \/ Lost(s)'
                    \/ /\ current'[u] \in request'[s].done
                       /\ Active(request'[s]) \/ current'[u] # request'[s].seen
    <3>1. CASE <<"no_new_address", u>> \in excused
      BY <3>1, Zenon
    <3>2. ASSUME NEW s \in RequestsOf(u),
                 \/ Lost(s)
                 \/ /\ current[u] \in request[s].done
                    /\ Active(request[s]) \/ current[u] # request[s].seen
          PROVE  \/ <<"no_new_address", u>> \in excused'
                 \/ /\ s \in RequestsOf(u)'
                    /\ \/ Lost(s)'
                       \/ /\ current'[u] \in request'[s].done
                          /\ Active(request'[s]) \/ current'[u] # request'[s].seen
      <4>1. s \in Requests /\ request[s].user = u
        BY Zenon DEF RequestsOf
      <4>2. s \in RequestsOf(u)'
        BY <4>1, Zenon DEF RequestsOf, Sets, Follows
      <4>3. CASE Lost(s)
        BY <4>2, <4>3, Zenon DEF Lost
      <4>4. CASE s # r
        <5>1. request'[s] = request[s]
          BY <4>1, <4>4, Zenon DEF Sets
        <5> QED
          BY <3>2, <4>2, <4>3, <5>1, Zenon
      <4>5. CASE s = r /\ ~Lost(s)
        <5>1. request'[s] = q /\ q.user = u /\ current[u] \in q.done /\ q.seen = request[s].seen
          BY <3>2, <4>1, <4>5, Zenon DEF Sets, Follows
        <5>2. CASE current[u] # request[s].seen
          BY <4>2, <5>1, <5>2, Zenon
        <5>3. CASE q.pc # "done"
          BY <4>2, <5>1, <5>3, Zenon DEF Active, Follows
        <5>4. CASE current[u] = request[s].seen /\ q.pc = "done"
          BY <2>1, <5>1, <5>4, Zenon
        <5> QED
          BY <5>2, <5>3, <5>4, Zenon
      <4> QED
        BY <4>3, <4>4, <4>5, Zenon
    <3> QED
      BY <2>1, <3>1, <3>2, Zenon DEF HostedInv, DrainInv
  <2> QED
    BY <2>1, Zenon DEF DrainInv
<1> QED
  BY <1>1, <1>2, <1>3, <1>4, <1>5, <1>6, ZenonT(60) DEF HostedInv
\* A request sends: the coin was nobody else's, the key new, and the address
\* it drains is known to the request, unless the answer is lost.
LEMMA RequestSends ==
    ASSUME Typed, HostedInv, NEW r \in Requests, NEW q, NEW c, Sets(r, q), Follows(r, q),
           Sends(r, c), q.pc = "loop", request[r].pc = "send",
           UNCHANGED <<current, owned, ncoins, miner>>, excused \subseteq excused',
           request[r].done \subseteq q.done,
           Head(request[r].todo) \in q.done \/ Lost(r)'
    PROVE  Typed' /\ HostedInv'
<1> DEFINE a == Head(request[r].todo)
           w == request[r].user
<1>1. /\ c \in coins /\ c.addr = a /\ c.state # "change" /\ a \in Range(owned[w]) /\ a \notin retired
      /\ nextAddr' = nextAddr + 1 /\ retired' = retired \cup {a}
      /\ coins' \subseteq Coin /\ IsFiniteSet(coins') /\ w \in Users
      /\ \A d \in coins' : (d \in coins /\ d # c) \/ (d.addr = nextAddr /\ d.state = "change")
  BY Zenon DEF Sends, Follows
<1>2. PICK t \in Tx : t.req = r /\ t.coin = c.id /\ t.addr = a /\ txs' = txs \cup {t}
  BY Zenon DEF Sends
<1>3. nextAddr \in Nat \ {0} /\ nextAddr' \in Nat \ {0}
  BY <1>1 DEF Typed
<1>4. Typed'
  BY <1>1, <1>2, <1>3, Zenon DEF Typed, Sets
<1>5. AddressInv /\ TxInv
  BY Zenon DEF HostedInv
<1> HIDE DEF a
<1>6. AddressInv'
  <2> DEFINE N == 1..(nextAddr - 1)
             M == 1..(nextAddr' - 1)
  <2>1. M = N \cup {nextAddr}
    BY <1>1, <1>3
  <2>2. a \in N
    BY <1>1, <1>5, ZenonT(60) DEF AddressInv
  <2>3. /\ \A v \in Users : Range(owned[v]) \subseteq N
        /\ retired \subseteq N /\ \A d \in coins : d.addr \in N
    BY <1>5, Zenon DEF AddressInv
  <2> HIDE DEF N, M
  <2>4. /\ \A v \in Users : Range(owned'[v]) \subseteq M
        /\ retired' \subseteq M /\ \A d \in coins' : d.addr \in M
    BY <1>1, <2>1, <2>2, <2>3, ZenonT(60)
  <2>5. \A v \in Users : HasAccount(v)' <=> HasAccount(v)
    BY Zenon DEF HasAccount
  <2>6. /\ \A u, v \in Users : u # v => Range(owned'[u]) \cap Range(owned'[v]) = {}
        /\ \A v \in Users : IF HasAccount(v)' 
             THEN current'[v] \in Range(owned'[v]) /\ miner'[v].addr \in Range(owned'[v])
             ELSE current'[v] = 0 /\ ~miner'[v].found
    BY <1>5, <2>5, ZenonT(60) DEF AddressInv
  <2> QED
    BY <2>4, <2>6, Zenon DEF AddressInv, M
<1>7. RequestInv'
  BY RequestGoesOn, Zenon
<1>8. TxInv'
  <2>1. \A x \in txs : x.req \in Requests
    BY Zenon DEF Typed, Tx
  <2>2. \A s \in Requests : /\ request'[s].user = request[s].user
                            /\ request[s].pc # "idle" => request'[s].pc # "idle"
    BY Zenon DEF Sets, Follows
  <2>3. \A x \in txs' : /\ x.coin \in 1..ncoins' /\ x.addr \in retired'
                        /\ request'[x.req].pc # "idle"
                        /\ x.addr \in Range(owned'[request'[x.req].user])
    BY <1>1, <1>2, <1>5, <2>1, <2>2, ZenonT(60) DEF TxInv
  <2>4. \A d \in coins' : d.state # "change" => d \in coins /\ d # c
    BY <1>1, ZenonT(60)
  <2>5. \A d \in coins' : d.state # "change" =>
         /\ d.id \in 1..ncoins'
         /\ \A x \in txs' : x.coin # d.id
         /\ \A e \in coins' : e.state # "change" /\ e.id = d.id => e = d
    BY <1>1, <1>2, <1>5, <2>4, ZenonT(60) DEF TxInv
  <2> QED
    BY <2>3, <2>5, Zenon DEF TxInv
<1>9. CountInv'
  <2>1. Spent' = Spent \cup {c.id} /\ c.id \notin Spent
    <3>1. c.id \notin Spent
      BY <1>1, <1>5, Zenon DEF TxInv, Spent
    <3>2. Spent' = Spent \cup {c.id}
      BY <1>2, Zenon DEF Spent
    <3> QED
      BY <3>1, <3>2, Zenon
  <2>2. /\ IsFiniteSet(Spent) /\ Cardinality(Spent) \in Nat
        /\ Cardinality(Spent \cup {c.id}) = Cardinality(Spent) + 1
    BY <2>1, SpentCount, FS_AddElement, ZenonT(60)
  <2>3. Cardinality(Over) \in Nat /\ Cardinality(Over') = Cardinality(Over)
    BY OverMoves, ZenonT(60)
  <2> DEFINE x == Cardinality(Spent)
             y == Cardinality(Over)
             z == Cardinality(Spent')
             o == Cardinality(Over')
  <2>4. x \in Nat /\ y \in Nat /\ z = x + 1 /\ o = y
    BY <2>1, <2>2, <2>3, Zenon
  <2>5. z \in Nat /\ o \in Nat /\ z + o >= x + y + 1
    <3> HIDE DEF x, y, z, o
    <3> QED
      BY <2>4, SumGrows, Zenon
  <2> QED
    BY <1>1, <2>5, CountGrows, Zenon
<1>10. DrainInv'
  <2>1. ASSUME NEW u \in Users, current'[u] \in retired'
        PROVE  \/ <<"no_new_address", u>> \in excused'
               \/ \E s \in RequestsOf(u)' :
                    \/ Lost(s)'
                    \/ /\ current'[u] \in request'[s].done
                       /\ Active(request'[s]) \/ current'[u] # request'[s].seen
    <3>1. request'[r] = q /\ Active(q) /\ q.user = w
      BY ZenonT(60) DEF Active, Sets, Follows
    <3>2. CASE current[u] = a
      <4>1. current[u] \in Range(owned[u])
        <5>1. a # 0
          BY <1>1, <1>5, SMTT(60) DEF AddressInv
        <5> QED
          BY <1>5, <3>2, <5>1, Zenon DEF AddressInv
      <4>2. u = w
        BY <1>1, <1>5, <3>2, <4>1, Zenon DEF AddressInv
      <4>3. r \in RequestsOf(u)'
        BY <3>1, <4>2, Zenon DEF RequestsOf
      <4> QED
        BY <3>1, <3>2, <4>3, Zenon DEF a
    <3>3. CASE <<"no_new_address", u>> \in excused
      BY <3>3, Zenon
    <3>4. ASSUME NEW s \in RequestsOf(u),
                 \/ Lost(s)
                 \/ /\ current[u] \in request[s].done
                    /\ Active(request[s]) \/ current[u] # request[s].seen
          PROVE  /\ s \in RequestsOf(u)'
                 /\ \/ Lost(s)'
                    \/ /\ current'[u] \in request'[s].done
                       /\ Active(request'[s]) \/ current'[u] # request'[s].seen
      <4>1. s \in Requests /\ s \in RequestsOf(u)'
        BY Zenon DEF RequestsOf, Sets, Follows
      <4>2. CASE Lost(s)
        BY <4>1, <4>2, Zenon DEF Lost
      <4>3. CASE s # r
        <5>1. request'[s] = request[s]
          BY <4>1, <4>3, Zenon DEF Sets
        <5> QED
          BY <3>4, <4>1, <4>2, <5>1, Zenon
      <4>4. CASE s = r /\ ~Lost(s)
        BY <3>1, <3>4, <4>1, <4>4, Zenon
      <4> QED
        BY <4>2, <4>3, <4>4, Zenon
    <3>5. CASE current[u] \in retired
      BY <3>3, <3>4, <3>5, Zenon DEF HostedInv, DrainInv
    <3> QED
      BY <1>1, <2>1, <3>2, <3>5, Zenon
  <2> QED
    BY <2>1, Zenon DEF DrainInv
<1> QED
  BY <1>4, <1>6, <1>7, <1>8, <1>9, <1>10, Zenon DEF HostedInv
LEMMA RequestStarts ==
    ASSUME Typed, HostedInv, NEW r \in Requests, NEW u \in Users, NEW n \in Amounts,
           StartSend(r, u, n)
    PROVE  Typed' /\ HostedInv'
<1>1. PICK q : /\ Sets(r, q) /\ q \in Request /\ q.pc = "addresses" /\ q.user = u
               /\ q.todo = <<>> /\ q.done = {} /\ q.sent + q.remaining = q.amount
               /\ q.sent = 0
  BY StartMoves, Zenon
<1>2. /\ request[r].pc = "idle"
      /\ UNCHANGED <<current, owned, nextAddr, coins, ncoins, retired, miner, txs, excused>>
  BY Zenon DEF StartSend
<1>3. Typed'
  BY <1>1, <1>2, Zenon DEF Typed, Sets
<1>4. AddressInv'
  <2>1. \A v \in Users : HasAccount(v)' <=> HasAccount(v)
    BY <1>2, Zenon DEF HasAccount
  <2> QED
    BY <1>2, <2>1, Zenon DEF HostedInv, AddressInv
<1>5. RequestInv'
  <2>1. ASSUME NEW s \in Requests
        PROVE  LET p == request'[s] IN
               /\ p.pc # "idle" => p.user \in Users /\ Range(owned'[p.user]) # {}
               /\ Range(p.todo) \subseteq (IF p.pc = "idle" THEN {} ELSE Range(owned'[p.user]))
               /\ p.pc = "send" => p.todo # <<>>
               /\ p.pc = "idle" => p.user = "none"
               /\ p.sent + p.remaining = p.amount
    <3>1. CASE s = r
      <4>1. HasAccount(u)
        BY Zenon DEF StartSend
      <4>2. Range(owned'[u]) # {}
        BY <1>2, <4>1, Zenon DEF HostedInv, AddressInv
      <4> QED
        BY <1>1, <3>1, <4>2, EmptyRange, Zenon DEF Sets
    <3>2. CASE s # r
      BY <1>1, <1>2, <3>2, ZenonT(60) DEF Sets, HostedInv, RequestInv
    <3> QED
      BY <3>1, <3>2, Zenon
  <2> QED
    BY <2>1, Zenon DEF RequestInv
<1>6. TxInv'
  <2>1. \A t \in txs : t.req \in Requests
    BY Zenon DEF Typed, Tx
  <2>2. \A s \in Requests : request[s].pc # "idle" => request'[s] = request[s]
    BY <1>1, <1>2, Zenon DEF Sets
  <2> QED
    BY <1>2, <2>1, <2>2, Zenon DEF HostedInv, TxInv
<1>7. CountInv'
  <2>1. Spent' = Spent
    BY <1>2, Zenon DEF Spent
  <2>2. Over' = Over
    BY <1>1, <1>2, Zenon DEF Over, Sets
  <2> QED
    BY <1>2, <2>1, <2>2, Zenon DEF HostedInv, CountInv
<1>8. DrainInv'
  <2>1. \A v \in Users : \A s \in RequestsOf(v) : s \in RequestsOf(v)' /\ request'[s] = request[s]
    <3>1. \A v \in Users : \A s \in RequestsOf(v) : s \in Requests /\ request[s].pc # "idle"
      BY HostedConstants, Zenon DEF RequestsOf, HostedInv, RequestInv
    <3> QED
      BY <1>1, <1>2, <3>1, Zenon DEF RequestsOf, Sets
  <2> QED
    BY <1>2, <2>1, SMTT(60) DEF HostedInv, DrainInv, Lost
<1> QED
  BY <1>3, <1>4, <1>5, <1>6, <1>7, <1>8, Zenon DEF HostedInv

-----------------------------------------------------------------------------
(* Steps of users and miners *)

\* An assignment within the bound, while no request changes.
LEMMA AssignedToUser ==
    ASSUME Typed, HostedInv, NEW u \in Users, AssignAddress(u), nextAddr <= MaxAddresses,
           UNCHANGED <<coins, ncoins, retired, request, txs>>, excused \subseteq excused',
           miner' \in [Users -> [addr: Nat, found: BOOLEAN]],
           \A v \in Users : IF HasAccount(v)' THEN miner'[v].addr \in Range(owned'[v])
                                              ELSE ~miner'[v].found
    PROVE  Typed' /\ HostedInv'
<1>1. RequestInv'
  <2>1. \A v \in Users : Range(owned[v]) \subseteq Range(owned'[v])
    BY AssignMoves, Zenon
  <2> QED
    BY <2>1, Zenon DEF HostedInv, RequestInv
<1>2. CountInv'
  <2> DEFINE x == Cardinality(Spent)
             y == Cardinality(Over)
  <2>1. Spent' = Spent /\ Over' = Over
    BY Zenon DEF Spent, Over
  <2>2. IsFiniteSet(Over)
    BY HostedConstants, FS_Subset, Zenon DEF Over
  <2>3. x \in Nat /\ y \in Nat /\ nextAddr \in Nat /\ MaxAddresses \in Nat
    BY <2>2, SpentCount, FS_CardinalityType, HostedConstants, Zenon DEF Typed
  <2>4. nextAddr' = nextAddr + 1
    BY Zenon DEF AssignAddress
  <2>5. CountInv' <=> nextAddr + 1 - 1 <= MaxAddresses + x + y
    BY <2>1, <2>3, <2>4 DEF CountInv
  <2> HIDE DEF x, y
  <2> QED
    BY <2>3, <2>5
<1>3. request' \in [Requests -> Request]
  BY Zenon DEF Typed
<1> QED
  BY <1>1, <1>2, <1>3, AddressAssigned, ZenonT(60)

LEMMA SignupStep ==
    ASSUME Typed, HostedInv, NEW u \in Users, Signup(u)
    PROVE  Typed' /\ HostedInv'
<1>1. /\ AssignAddress(u) /\ nextAddr <= MaxAddresses
      /\ UNCHANGED <<coins, ncoins, retired, request, txs, excused>>
      /\ miner' = [miner EXCEPT ![u].addr = nextAddr]
  BY Zenon DEF Signup
<1>2. /\ miner' \in [Users -> [addr: Nat, found: BOOLEAN]]
      /\ \A v \in Users : /\ miner'[v].addr = IF v = u THEN nextAddr ELSE miner[v].addr
                          /\ miner'[v].found = miner[v].found
  BY <1>1, Zenon DEF Typed
<1>3. \A v \in Users : IF HasAccount(v)' THEN miner'[v].addr \in Range(owned'[v])
                                         ELSE ~miner'[v].found
  <2>1. /\ \A v \in Users : Range(owned'[v]) = IF v = u THEN Range(owned[v]) \cup {nextAddr}
                                               ELSE Range(owned[v])
        /\ \A v \in Users : HasAccount(v)' <=> v = u \/ HasAccount(v)
    BY <1>1, AssignMoves, Zenon
  <2>2. \A v \in Users : IF HasAccount(v) THEN miner[v].addr \in Range(owned[v]) ELSE ~miner[v].found
    BY Zenon DEF HostedInv, AddressInv
  <2> TAKE v \in Users
  <2>3. CASE v = u
    BY <1>2, <2>1, <2>3, ZenonT(60)
  <2>4. CASE v # u
    <3>1. /\ miner'[v].addr = miner[v].addr /\ miner'[v].found = miner[v].found
          /\ Range(owned'[v]) = Range(owned[v]) /\ (HasAccount(v)' <=> HasAccount(v))
      BY <1>2, <2>1, <2>4, Zenon
    <3> QED
      BY <2>2, <3>1, Zenon
  <2> QED
    BY <2>3, <2>4, Zenon
<1> QED
  BY <1>1, <1>2, <1>3, AssignedToUser, Zenon

LEMMA RotateStep ==
    ASSUME Typed, HostedInv, NEW u \in Users, Rotate(u)
    PROVE  Typed' /\ HostedInv'
<1>1. /\ AssignAddress(u) /\ nextAddr <= MaxAddresses
      /\ UNCHANGED <<coins, ncoins, retired, request, txs, excused>>
      /\ miner' = [miner EXCEPT ![u] = [addr |-> nextAddr, found |-> FALSE]]
  BY Zenon DEF Rotate
<1>2. /\ miner' \in [Users -> [addr: Nat, found: BOOLEAN]]
      /\ \A v \in Users : /\ miner'[v].addr = IF v = u THEN nextAddr ELSE miner[v].addr
                          /\ v # u => miner'[v].found = miner[v].found
  BY <1>1, Zenon DEF Typed
<1>3. \A v \in Users : IF HasAccount(v)' THEN miner'[v].addr \in Range(owned'[v])
                                         ELSE ~miner'[v].found
  <2>1. /\ \A v \in Users : Range(owned'[v]) = IF v = u THEN Range(owned[v]) \cup {nextAddr}
                                               ELSE Range(owned[v])
        /\ \A v \in Users : HasAccount(v)' <=> v = u \/ HasAccount(v)
    BY <1>1, AssignMoves, Zenon
  <2>2. \A v \in Users : IF HasAccount(v) THEN miner[v].addr \in Range(owned[v]) ELSE ~miner[v].found
    BY DEF HostedInv, AddressInv
  <2> TAKE v \in Users
  <2>3. CASE v = u
    BY <1>2, <2>1, <2>3, Zenon
  <2>4. CASE v # u
    <3>1. /\ miner'[v].addr = miner[v].addr /\ miner'[v].found = miner[v].found
          /\ Range(owned'[v]) = Range(owned[v]) /\ (HasAccount(v)' <=> HasAccount(v))
      BY <1>2, <2>1, <2>4, Zenon
    <3> QED
      BY <2>2, <3>1
  <2> QED
    BY <2>3, <2>4
<1> QED
  BY <1>1, <1>2, <1>3, AssignedToUser, Zenon

\* Nothing but the miners changes.
LEMMA MinerMoves ==
    ASSUME Typed, HostedInv, miner' \in [Users -> [addr: Nat, found: BOOLEAN]],
           \A v \in Users : IF HasAccount(v) THEN miner'[v].addr \in Range(owned[v])
                                             ELSE ~miner'[v].found,
           UNCHANGED <<current, owned, nextAddr, coins, ncoins, retired, request, txs>>,
           excused \subseteq excused'
    PROVE  Typed' /\ HostedInv'
<1>1. Typed'
  BY Zenon DEF Typed
<1>2. AddressInv'
  <2>1. \A v \in Users : HasAccount(v)' <=> HasAccount(v)
    BY Zenon DEF HasAccount
  <2>2. \A v \in Users : IF HasAccount(v) THEN current[v] \in Range(owned[v]) ELSE current[v] = 0
    BY Zenon DEF HostedInv, AddressInv
  <2>3. \A v \in Users : IF HasAccount(v)'
          THEN current'[v] \in Range(owned'[v]) /\ miner'[v].addr \in Range(owned'[v])
          ELSE current'[v] = 0 /\ ~miner'[v].found
    BY <2>1, <2>2, Zenon
  <2> QED
    BY <2>3, Zenon DEF HostedInv, AddressInv
<1>3. RequestInv' /\ TxInv' /\ CountInv'
  BY Zenon DEF HostedInv, RequestInv, TxInv, CountInv, Spent, Over
<1>4. DrainInv'
  <2>1. \A v \in Users : RequestsOf(v)' = RequestsOf(v)
    BY Zenon DEF RequestsOf
  <2>2. \A r : Lost(r) => Lost(r)'
    BY Zenon DEF Lost
  <2> QED
    BY <2>1, <2>2, Zenon DEF HostedInv, DrainInv
<1> QED
  BY <1>1, <1>2, <1>3, <1>4, Zenon DEF HostedInv
LEMMA RotateFailsStep ==
    ASSUME Typed, HostedInv, NEW u \in Users, RotateFails(u)
    PROVE  Typed' /\ HostedInv'
<1>1. /\ UNCHANGED <<coins, ncoins, retired, request, txs>> /\ excused \subseteq excused'
      /\ miner' = [miner EXCEPT ![u].found = FALSE]
  BY Zenon DEF RotateFails
<1>2. /\ miner' \in [Users -> [addr: Nat, found: BOOLEAN]]
      /\ \A v \in Users : /\ miner'[v].addr = miner[v].addr
                          /\ v # u => miner'[v].found = miner[v].found
  BY <1>1, Zenon DEF Typed
<1>3. \A v \in Users : miner'[v].found => miner[v].found
  <2>1. ~miner'[u].found
    BY <1>1, Zenon DEF Typed
  <2> QED
    BY <1>2, <2>1, Zenon
<1>4. \A v \in Users : IF HasAccount(v) THEN miner[v].addr \in Range(owned[v]) ELSE ~miner[v].found
  BY DEF HostedInv, AddressInv
<1>5. CASE nextAddr <= MaxAddresses /\ AssignAddress(u)
  <2>1. /\ \A v \in Users : Range(owned'[v]) = IF v = u THEN Range(owned[v]) \cup {nextAddr}
                                               ELSE Range(owned[v])
        /\ \A v \in Users : HasAccount(v)' <=> v = u \/ HasAccount(v)
    BY <1>5, AssignMoves, Zenon
  <2>2. HasAccount(u)
    BY <1>4, Zenon DEF RotateFails
  <2>3. \A v \in Users : IF HasAccount(v)' THEN miner'[v].addr \in Range(owned'[v])
                                           ELSE ~miner'[v].found
    BY <1>2, <1>3, <1>4, <2>1, <2>2, Zenon
  <2> QED
    BY <1>1, <1>2, <1>5, <2>3, AssignedToUser, Zenon
<1>6. CASE UNCHANGED <<current, owned, nextAddr>>
  <2>1. \A v \in Users : IF HasAccount(v) THEN miner'[v].addr \in Range(owned[v]) ELSE ~miner'[v].found
    BY <1>2, <1>3, <1>4, Zenon
  <2> QED
    BY <1>1, <1>2, <1>6, <2>1, MinerMoves, Zenon
<1> QED
  BY <1>5, <1>6, Zenon DEF RotateFails

LEMMA RestartStep ==
    ASSUME Typed, HostedInv, NEW u \in Users, RestartMiner(u)
    PROVE  Typed' /\ HostedInv'
<1> DEFINE h == InstallAddress(u)
<1>1. /\ UNCHANGED <<current, owned, nextAddr, coins, ncoins, retired, request, txs>>
      /\ excused \subseteq excused'
      /\ miner' = [miner EXCEPT ![u] = [addr |-> h, found |-> FALSE]]
      /\ HasAccount(u)
  BY Zenon DEF RestartMiner
<1>2. owned[u] \in Seq(Nat) /\ owned[u] # <<>>
  BY <1>1, Zenon DEF Typed, HasAccount
<1>3. h \in Range(owned[u]) /\ h \in Nat
  BY <1>2, HeadTailRange DEF InstallAddress
<1> HIDE DEF h
<1>4. /\ miner' \in [Users -> [addr: Nat, found: BOOLEAN]]
      /\ \A v \in Users : miner'[v] = IF v = u THEN [addr |-> h, found |-> FALSE] ELSE miner[v]
  BY <1>1, <1>3, Zenon DEF Typed
<1>5. \A v \in Users : IF HasAccount(v) THEN miner'[v].addr \in Range(owned[v]) ELSE ~miner'[v].found
  <2> TAKE v \in Users
  <2>1. CASE v = u
    BY <1>1, <1>3, <1>4, <2>1, Zenon
  <2>2. CASE v # u
    <3>1. miner'[v] = miner[v]
      BY <1>4, <2>2, Zenon
    <3> QED
      BY <3>1, Zenon DEF HostedInv, AddressInv
  <2> QED
    BY <2>1, <2>2, Zenon
<1> QED
  BY <1>1, <1>4, <1>5, MinerMoves, Zenon

LEMMA DepositStep ==
    ASSUME Typed, HostedInv, NEW u \in Users, NEW a \in Range(owned[u]), NEW v \in Deposits,
           Deposit(u, a, v)
    PROVE  Typed' /\ HostedInv'
<1>1. a \in 1..(nextAddr - 1) /\ v \in Nat
  BY HostedConstants, Zenon DEF HostedInv, AddressInv
<1>2. miner' \in [Users -> [addr: Nat, found: BOOLEAN]] /\ miner' = miner
  BY Zenon DEF Deposit, Typed
<1>3. /\ ncoins < MaxCoins /\ ncoins' = ncoins + 1 /\ coins' = coins \cup {NewCoin(a, v, "unconfirmed")}
      /\ UNCHANGED <<current, owned, nextAddr, retired, request, txs, excused>>
  BY Zenon DEF Deposit
<1> QED
  BY <1>1, <1>2, <1>3, CoinArrives, Zenon

LEMMA MineStep ==
    ASSUME Typed, HostedInv, NEW u \in Users, Mine(u)
    PROVE  Typed' /\ HostedInv'
<1> DEFINE a == miner[u].addr
<1>1. a \in 1..(nextAddr - 1) /\ Reward \in Nat
  BY HostedConstants, Zenon DEF HostedInv, AddressInv, Mine
<1>2. miner' \in [Users -> [addr: Nat, found: BOOLEAN]]
  BY Zenon DEF Mine, Typed
<1>3. \A v \in Users : /\ miner'[v].addr = miner[v].addr
                       /\ miner'[v].found => miner[v].found \/ HasAccount(v)
  <2>1. HasAccount(u) /\ miner' = [miner EXCEPT ![u].found = TRUE]
    BY Zenon DEF Mine
  <2>2. \A v \in Users : /\ miner'[v].addr = miner[v].addr
                         /\ v # u => miner'[v].found = miner[v].found
    BY <2>1, Zenon DEF Typed
  <2> QED
    BY <2>1, <2>2, Zenon
<1>4. /\ ncoins < MaxCoins /\ ncoins' = ncoins + 1 /\ coins' = coins \cup {NewCoin(a, Reward, "immature")}
      /\ UNCHANGED <<current, owned, nextAddr, retired, request, txs, excused>>
  BY Zenon DEF Mine
<1> HIDE DEF a
<1> QED
  BY <1>1, <1>2, <1>3, <1>4, CoinArrives, Zenon

LEMMA FinishRotatingStep ==
    ASSUME Typed, HostedInv, NEW r \in Requests, FinishRotating(r)
    PROVE  Typed' /\ HostedInv'
<1> DEFINE u == request[r].user
<1>1. /\ AssignAddress(u) /\ UNCHANGED <<coins, ncoins, retired, miner, txs, excused>>
      /\ LoopOver(request[r]) /\ request' = [request EXCEPT ![r] = Ended(request[r])]
  BY Zenon DEF FinishRotating
<1>2. PICK q : Sets(r, q) /\ Follows(r, q) /\ q.pc = "done" /\ q.done = request[r].done
  BY <1>1, EndMoves, Zenon
<1>3. u \in Users
  BY <1>2, Zenon DEF Follows
<1>4. /\ \A v \in Users : Range(owned'[v]) = IF v = u THEN Range(owned[v]) \cup {nextAddr}
                                             ELSE Range(owned[v])
      /\ \A v \in Users : HasAccount(v)' <=> v = u \/ HasAccount(v)
      /\ nextAddr' = nextAddr + 1
  BY <1>1, <1>3, AssignMoves, ZenonT(60)
<1>5. RequestInv'
  <2>1. \A v \in Users : Range(owned[v]) \subseteq Range(owned'[v])
    BY <1>4, Zenon
  <2> QED
    BY <1>2, <2>1, RequestGoesOn, Zenon
<1>6. HasAccount(u)
  <2>1. Range(owned[u]) # {}
    BY <1>2, Zenon DEF Follows, HostedInv, RequestInv
  <2> QED
    BY <2>1, EmptyRange, Zenon DEF HasAccount
<1>7. \A v \in Users : IF HasAccount(v)' THEN miner'[v].addr \in Range(owned'[v])
                                         ELSE ~miner'[v].found
  <2>1. \A v \in Users : IF HasAccount(v) THEN miner[v].addr \in Range(owned[v]) ELSE ~miner[v].found
    BY Zenon DEF HostedInv, AddressInv
  <2>2. miner' = miner
    BY <1>1, Zenon
  <2>3. \A v \in Users : (HasAccount(v)' <=> HasAccount(v)) /\ Range(owned[v]) \subseteq Range(owned'[v])
    BY <1>4, <1>6, Zenon
  <2> QED
    BY <2>1, <2>2, <2>3, Zenon
<1>8. CountInv'
  <2>1. Spent' = Spent /\ request[r].pc # "done"
    BY <1>1, <1>2, Zenon DEF Spent, Follows
  <2>2. Cardinality(Over) \in Nat /\ Cardinality(Over') = Cardinality(Over) + 1
    BY <1>2, <2>1, OverMoves, Zenon
  <2>3. Cardinality(Spent) \in Nat /\ Cardinality(Spent') = Cardinality(Spent)
    BY <2>1, SpentCount, Zenon
  <2> DEFINE x == Cardinality(Spent)
             y == Cardinality(Over)
             z == Cardinality(Spent')
             o == Cardinality(Over')
  <2>4. x \in Nat /\ y \in Nat /\ z = x /\ o = y + 1
    BY <2>2, <2>3, Zenon
  <2>5. z \in Nat /\ o \in Nat /\ z + o >= x + y + 1
    <3> HIDE DEF x, y, z, o
    <3> QED
      BY <2>4, SMTT(60)
  <2> QED
    BY <1>4, <2>5, CountGrows, Zenon
<1>9. \A s \in Requests : /\ request[s].pc # "idle" => request'[s].pc # "idle"
                          /\ request'[s].user = request[s].user
                          /\ request[s].user # u => request'[s] = request[s]
  BY <1>2, Zenon DEF Sets, Follows
<1>10. request' \in [Requests -> Request] /\ miner' \in [Users -> [addr: Nat, found: BOOLEAN]]
  BY <1>1, <1>2, Zenon DEF Sets, Typed
<1> HIDE DEF u
<1> QED
  BY <1>1, <1>3, <1>5, <1>7, <1>8, <1>9, <1>10, AddressAssigned, ZenonT(60)
-----------------------------------------------------------------------------
(* All steps *)

\* A step makes no transaction, or is one call of sendfromxmssaddress.
LEMMA TxStep ==
    ASSUME Typed, HostedInv, [Next]_vars
    PROVE  txs' = txs \/ \E r \in Requests, c \in coins : Sends(r, c)
<1>1. ASSUME NEW r \in Requests, SendAnswered(r) \/ SendAnswerLost(r)
      PROVE  \E c \in coins : Sends(r, c)
  BY <1>1, SendMoves, Zenon DEF SendAnswered, SendAnswerLost
<1>2. CASE UNCHANGED vars
  BY <1>2, Zenon DEF vars
<1>3. CASE Next
  <2>1. ASSUME NEW u \in Users, Signup(u) \/ Mine(u) \/ Rotate(u) \/ RotateFails(u) \/ RestartMiner(u)
        PROVE  txs' = txs
    BY <2>1, Zenon DEF Signup, Mine, Rotate, RotateFails, RestartMiner
  <2>2. ASSUME NEW r \in Requests,
               \/ ReadAddresses(r) \/ Look(r) \/ SendRefused(r) \/ FinishRotating(r) \/ Finish(r)
               \/ \E u \in Users, n \in Amounts : StartSend(r, u, n)
        PROVE  txs' = txs
    BY <2>2, Zenon DEF ReadAddresses, Look, SendRefused, FinishRotating, Finish, StartSend
  <2>3. ASSUME NEW u \in Users, NEW a, NEW v, Deposit(u, a, v) PROVE txs' = txs
    BY <2>3, Zenon DEF Deposit
  <2>4. ASSUME NEW c \in coins, Ripen(c) PROVE txs' = txs
    BY <2>4, Zenon DEF Ripen
  <2> QED
    BY <1>1, <1>3, <2>1, <2>2, <2>3, <2>4, Zenon DEF Next
<1> QED
  BY <1>2, <1>3, Zenon

LEMMA RequestStep ==
    ASSUME Typed, HostedInv, NEW r \in Requests,
           \/ ReadAddresses(r) \/ Look(r) \/ SendAnswered(r) \/ SendAnswerLost(r)
           \/ SendRefused(r) \/ FinishRotating(r) \/ Finish(r)
    PROVE  Typed' /\ HostedInv'
<1>1. CASE ReadAddresses(r)
  <2>1. UNCHANGED <<current, owned, nextAddr, coins, ncoins, retired, miner, txs, excused>>
    BY <1>1, Zenon DEF ReadAddresses
  <2>2. PICK q : Sets(r, q) /\ Follows(r, q) /\ q.pc = "loop" /\ q.done = request[r].done
    BY <1>1, ReadMoves, Zenon
  <2> QED
    BY <2>1, <2>2, RequestQuiet, Zenon
<1>2. CASE Look(r)
  <2>1. UNCHANGED <<current, owned, nextAddr, coins, ncoins, retired, miner, txs, excused>>
    BY <1>2, Zenon DEF Look
  <2>2. PICK q : Sets(r, q) /\ Follows(r, q) /\ q.pc \in {"loop", "send"} /\ q.done = request[r].done
    BY <1>2, LookMoves, Zenon
  <2> QED
    BY <2>1, <2>2, RequestQuiet, Zenon
<1>3. CASE SendAnswered(r)
  <2>1. /\ UNCHANGED <<current, owned, ncoins, miner, excused>> /\ request[r].pc = "send"
        /\ request' = [request EXCEPT ![r] = Counted(request[r])]
    BY <1>3, Zenon DEF SendAnswered
  <2>2. PICK c \in coins : Sends(r, c)
    BY <1>3, SendMoves, Zenon DEF SendAnswered
  <2>3. PICK q : /\ Sets(r, q) /\ Follows(r, q) /\ q.pc = "loop"
                 /\ q.done = request[r].done \cup {Head(request[r].todo)}
    BY <2>1, CountMoves, Zenon
  <2> QED
    BY <2>1, <2>2, <2>3, RequestSends, Zenon
<1>4. CASE SendAnswerLost(r)
  <2>1. /\ UNCHANGED <<current, owned, ncoins, miner>> /\ request[r].pc = "send"
        /\ request' = [request EXCEPT ![r] = Skipped(request[r])]
        /\ excused \subseteq excused' /\ Lost(r)'
    BY <1>4, Zenon DEF SendAnswerLost, Lost
  <2>2. PICK c \in coins : Sends(r, c)
    BY <1>4, SendMoves, Zenon DEF SendAnswerLost
  <2>3. PICK q : Sets(r, q) /\ Follows(r, q) /\ q.pc = "loop" /\ q.done = request[r].done
    BY <2>1, SkipMoves, Zenon
  <2> QED
    BY <2>1, <2>2, <2>3, RequestSends, Zenon
<1>5. CASE SendRefused(r)
  <2>1. /\ UNCHANGED <<current, owned, nextAddr, coins, ncoins, retired, miner, txs, excused>>
        /\ request[r].pc = "send" /\ request' = [request EXCEPT ![r] = Skipped(request[r])]
    BY <1>5, Zenon DEF SendRefused
  <2>2. PICK q : Sets(r, q) /\ Follows(r, q) /\ q.pc = "loop" /\ q.done = request[r].done
    BY <2>1, SkipMoves, Zenon
  <2> QED
    BY <2>1, <2>2, RequestQuiet, Zenon
<1>6. CASE Finish(r)
  <2>1. /\ UNCHANGED <<current, owned, nextAddr, coins, ncoins, retired, miner, txs>>
        /\ LoopOver(request[r]) /\ request' = [request EXCEPT ![r] = Ended(request[r])]
        /\ excused' = IF request[r].done # {} /\ request[r].seen \in retired
                      THEN excused \cup {<<"no_new_address", request[r].user>>} ELSE excused
    BY <1>6, Zenon DEF Finish
  <2>2. PICK q : Sets(r, q) /\ Follows(r, q) /\ q.pc = "done" /\ q.done = request[r].done
    BY <2>1, EndMoves, Zenon
  <2>3. /\ excused \subseteq excused'
        /\ \/ q.done = {} \/ q.seen \notin retired \/ <<"no_new_address", q.user>> \in excused'
    BY <2>1, <2>2, Zenon DEF Follows
  <2> QED
    BY <2>1, <2>2, <2>3, RequestQuiet, Zenon
<1> QED
  BY <1>1, <1>2, <1>3, <1>4, <1>5, <1>6, FinishRotatingStep, Zenon

LEMMA HostedStep == Typed /\ HostedInv /\ [Next]_vars => Typed' /\ HostedInv'
<1> SUFFICES ASSUME Typed, HostedInv, [Next]_vars PROVE Typed' /\ HostedInv'
  BY Zenon
<1>1. CASE UNCHANGED vars
  <2>1. /\ UNCHANGED <<current, owned, nextAddr, coins, ncoins, retired, request, txs, excused>>
        /\ miner' = miner
    BY <1>1, Zenon DEF vars
  <2>2. /\ miner' \in [Users -> [addr: Nat, found: BOOLEAN]]
        /\ \A v \in Users : IF HasAccount(v) THEN miner'[v].addr \in Range(owned[v])
                                             ELSE ~miner'[v].found
    BY <2>1, Zenon DEF Typed, HostedInv, AddressInv
  <2> QED
    BY <2>1, <2>2, MinerMoves, Zenon
<1>2. CASE Next
  BY <1>2, DepositStep, CoinRipens, SignupStep, MineStep, RotateStep, RotateFailsStep, RestartStep,
     RequestStarts, RequestStep, Zenon DEF Next
<1> QED
  BY <1>1, <1>2, Zenon

LEMMA HostedInit == Init => Typed /\ HostedInv
<1> SUFFICES ASSUME Init PROVE Typed /\ HostedInv
  BY Zenon
<1>1. Typed
  <2>1. <<>> \in Seq(Nat) /\ FALSE \in BOOLEAN /\ IsFiniteSet({})
    BY FS_EmptySet
  <2>2. request \in [Requests -> Request]
    BY NoRequestTyped, Zenon DEF Init
  <2>3. miner \in [Users -> [addr: Nat, found: BOOLEAN]]
    BY <2>1, Zenon DEF Init
  <2>4. ncoins \in 0..MaxCoins
    BY HostedConstants DEF Init
  <2> QED
    BY <2>1, <2>2, <2>3, <2>4 DEF Init, Typed
<1>2. \A u \in Users : ~HasAccount(u) /\ Range(owned[u]) = {} /\ current[u] = 0 /\ ~miner[u].found
  BY EmptyRange, Zenon DEF Init, HasAccount
<1>3. AddressInv
  BY <1>2, Zenon DEF Init, AddressInv
<1>4. RequestInv
  BY NoRequestTyped, EmptyRange, SMTT(60) DEF Init, RequestInv, NoRequest
<1>5. TxInv /\ DrainInv
  BY Zenon DEF Init, TxInv, DrainInv
<1>6. CountInv
  <2>1. Spent = {} /\ Over = {}
    BY NoRequestTyped, Zenon DEF Init, Spent, Over
  <2> QED
    BY <2>1, FS_EmptySet, HostedConstants DEF Init, CountInv
<1> QED
  BY <1>1, <1>3, <1>4, <1>5, <1>6, Zenon DEF HostedInv
-----------------------------------------------------------------------------
(* Sums over finite sets of transactions *)

\* The function that MapThenSumSet defines on the subsets of T, and its value.
Pick(s) == CHOOSE t \in s : TRUE
Summed(f, s) == IF s = {} THEN 0 ELSE Pick(s).amount + f[s \ {Pick(s)}]
Folds(f, T) == f = [s \in SUBSET T |-> Summed(f, s)]
Fold(T) == CHOOSE f : Folds(f, T)

LEMMA TotalIs == ASSUME NEW T PROVE Total(T) = Fold(T)[T]
BY Zenon DEF Total, Fold, Folds, Summed, Pick, MapThenSumSet, MapThenFoldSet

LEMMA FoldsAt ==
    ASSUME NEW T, NEW f, Folds(f, T), NEW s \in SUBSET T
    PROVE  f[s] = Summed(f, s)
BY Zenon DEF Folds

\* A set with one element less.
LEMMA Smaller ==
    ASSUME NEW s, IsFiniteSet(s), s # {}
    PROVE  /\ Pick(s) \in s /\ IsFiniteSet(s \ {Pick(s)})
           /\ Cardinality(s) \in Nat /\ Cardinality(s \ {Pick(s)}) \in Nat
           /\ Cardinality(s \ {Pick(s)}) < Cardinality(s)
<1>1. Pick(s) \in s
  BY Zenon DEF Pick
<1>2. IsFiniteSet(s \ {Pick(s)}) /\ Cardinality(s \ {Pick(s)}) = Cardinality(s) - 1
  BY <1>1, FS_RemoveElement, Zenon
<1>3. Cardinality(s) \in Nat /\ Cardinality(s \ {Pick(s)}) \in Nat
  BY <1>2, FS_CardinalityType, Zenon
<1> QED
  BY <1>1, <1>2, <1>3

\* Two such functions agree where both are defined: on a least set where they
\* do not, they differ on the set without the element picked.
LEMMA FoldsAgree ==
    ASSUME NEW T, NEW W, IsFiniteSet(T), NEW f, NEW g, Folds(f, T), Folds(g, W),
           NEW u \in SUBSET T, u \in SUBSET W
    PROVE  f[u] = g[u]
<1> DEFINE Differ(s) == s \in SUBSET T /\ s \in SUBSET W /\ f[s] # g[s]
           Bad == {n \in Nat : \E s : Differ(s) /\ Cardinality(s) = n}
<1>1. \A s : s \in SUBSET T => IsFiniteSet(s) /\ Cardinality(s) \in Nat
  BY FS_Subset, FS_CardinalityType, Zenon
<1>2. SUFFICES ASSUME Bad # {} PROVE FALSE
  BY <1>1, Zenon
<1>3. PICK n \in Bad : \A k \in Bad : n <= k
  BY <1>2, LeastNatural, Zenon
<1>4. PICK s : Differ(s) /\ Cardinality(s) = n
  BY <1>3, Zenon
<1> DEFINE r == s \ {Pick(s)}
<1>5. f[s] = Summed(f, s) /\ g[s] = Summed(g, s)
  <2>1. s \in SUBSET T /\ s \in SUBSET W
    BY <1>4, Zenon
  <2> QED
    BY <2>1, FoldsAt
<1>6. s # {} /\ f[r] # g[r]
  BY <1>4, <1>5, Zenon DEF Summed
<1>7. /\ r \in SUBSET T /\ r \in SUBSET W
      /\ Cardinality(r) \in Nat /\ n \in Nat /\ Cardinality(r) < n
  <2>1. IsFiniteSet(s)
    BY <1>1, <1>4, Zenon
  <2>2. Cardinality(r) \in Nat /\ Cardinality(s) \in Nat /\ Cardinality(r) < Cardinality(s)
    BY <1>6, <2>1, Smaller, Zenon
  <2>3. r \in SUBSET T /\ r \in SUBSET W
    BY <1>4, Zenon
  <2> QED
    BY <1>4, <2>2, <2>3, Zenon
<1>8. Cardinality(r) \in Bad
  BY <1>6, <1>7, Zenon
<1>9. n <= Cardinality(r)
  BY <1>3, <1>8, Zenon
<1> QED
  BY <1>7, <1>9

\* The function exists for a finite set: otherwise take a least set without
\* one and put it together from those of its subsets.
LEMMA FoldExists ==
    ASSUME NEW X, IsFiniteSet(X)
    PROVE  Folds(Fold(X), X)
<1> DEFINE Lacks(s) == IsFiniteSet(s) /\ ~Folds(Fold(s), s)
           Bad == {n \in Nat : \E s : Lacks(s) /\ Cardinality(s) = n}
<1>1. SUFFICES ASSUME Bad # {} PROVE FALSE
  BY <1>1, FS_CardinalityType, Zenon
<1>2. PICK n \in Bad : \A k \in Bad : n <= k
  BY <1>1, LeastNatural, Zenon
<1>3. PICK T : Lacks(T) /\ Cardinality(T) = n
  BY <1>2, Zenon
<1> DEFINE V(s) == Fold(s)[s]
           Value(s) == IF s = {} THEN 0 ELSE Pick(s).amount + V(s \ {Pick(s)})
           f == [s \in SUBSET T |-> Value(s)]
<1>4. \A s \in SUBSET T : IsFiniteSet(s)
  BY <1>3, FS_Subset, Zenon
<1>5. ASSUME NEW s \in SUBSET T, s # T PROVE Folds(Fold(s), s)
  <2>1. IsFiniteSet(s) /\ Cardinality(s) \in Nat
    BY <1>4, FS_CardinalityType, Zenon
  <2>2. Cardinality(s) # Cardinality(T) /\ Cardinality(s) <= Cardinality(T)
    BY <1>3, <1>5, FS_Subset, Zenon
  <2>3. n \in Nat /\ Cardinality(s) < n
    BY <1>3, <2>1, <2>2
  <2>4. Cardinality(s) \notin Bad
    BY <1>2, <2>1, <2>3
  <2> QED
    BY <2>1, <2>4, Zenon
<1>6. ASSUME NEW s \in SUBSET T, s # T PROVE V(s) = Value(s)
  <2> DEFINE r == s \ {Pick(s)}
  <2>1. Fold(s)[s] = Summed(Fold(s), s)
    <3>1. Folds(Fold(s), s) /\ s \in SUBSET s
      BY <1>5, <1>6, Zenon
    <3> QED
      BY <3>1, FoldsAt, Zenon
  <2>2. CASE s = {}
    BY <2>1, <2>2, Zenon DEF Summed
  <2>3. CASE s # {}
    <3>1. r \in SUBSET T /\ r \in SUBSET s /\ r # T /\ r \in SUBSET r
      BY <1>6, Zenon
    <3>2. Folds(Fold(r), r) /\ Folds(Fold(s), s) /\ IsFiniteSet(r)
      BY <1>4, <1>5, <1>6, <3>1, Zenon
    <3>3. Fold(r)[r] = Fold(s)[r]
      <4> HIDE DEF r
      <4> QED
        BY <3>1, <3>2, FoldsAgree
    <3> QED
      BY <2>1, <2>3, <3>3, Zenon DEF Summed
  <2> QED
    BY <2>2, <2>3, Zenon
<1>7. ASSUME NEW s \in SUBSET T
      PROVE  f[s] = Summed(f, s)
  <2> DEFINE r == s \ {Pick(s)}
  <2>1. CASE s = {}
    BY <2>1, Zenon DEF Summed
  <2>2. CASE s # {}
    <3>1. Pick(s) \in s
      BY <2>2, Zenon DEF Pick
    <3>2. r \in SUBSET T /\ r # T
      BY <3>1, Zenon
    <3>3. f[r] = V(r)
      BY <1>6, <3>2, Zenon
    <3>4. f[s] = Pick(s).amount + V(r)
      BY <2>2, Zenon
    <3> QED
      BY <2>2, <3>3, <3>4, Zenon DEF Summed
  <2> QED
    BY <2>1, <2>2, Zenon
<1>8. Folds(f, T)
  <2>1. f = [s \in SUBSET T |-> f[s]]
    BY Zenon
  <2> HIDE DEF f
  <2> QED
    BY <1>7, <2>1, Zenon DEF Folds
<1>9. Folds(Fold(T), T)
  <2> HIDE DEF f
  <2> QED
    BY <1>8, Zenon DEF Fold
<1> QED
  BY <1>3, <1>9, Zenon

\* So a sum is nothing, or an amount and the sum of the rest.
LEMMA TotalStep ==
    ASSUME NEW T, IsFiniteSet(T)
    PROVE  Total(T) = IF T = {} THEN 0 ELSE Pick(T).amount + Total(T \ {Pick(T)})
<1> DEFINE r == T \ {Pick(T)}
<1>1. Fold(T)[T] = Summed(Fold(T), T)
  <2>1. Folds(Fold(T), T) /\ T \in SUBSET T
    BY FoldExists, Zenon
  <2> QED
    BY <2>1, FoldsAt, Zenon
<1>2. Fold(r)[r] = Fold(T)[r]
  <2>1. r \in SUBSET T /\ r \in SUBSET r /\ IsFiniteSet(r)
    BY FS_Subset, Zenon
  <2>2. Folds(Fold(r), r) /\ Folds(Fold(T), T)
    BY <2>1, FoldExists, Zenon
  <2> DEFINE f == Fold(r)
             g == Fold(T)
  <2>3. Folds(f, r) /\ Folds(g, T)
    BY <2>2, Zenon
  <2> HIDE DEF r, f, g
  <2>4. f[r] = g[r]
    BY <2>1, <2>3, FoldsAgree
  <2> QED
    BY <2>4, Zenon DEF f, g
<1>3. Total(r) = Fold(r)[r] /\ Total(T) = Fold(T)[T]
  BY TotalIs, Zenon
<1> QED
  BY <1>1, <1>2, <1>3, Zenon DEF Summed

\* The sum of amounts is a number ...
LEMMA TotalType ==
    ASSUME NEW X \in SUBSET Tx, IsFiniteSet(X)
    PROVE  Total(X) \in Nat
<1> DEFINE Off(s) == s \in SUBSET Tx /\ IsFiniteSet(s) /\ Total(s) \notin Nat
           Bad == {n \in Nat : \E s : Off(s) /\ Cardinality(s) = n}
<1>1. SUFFICES ASSUME Bad # {} PROVE FALSE
  BY <1>1, FS_CardinalityType, Zenon
<1>2. PICK n \in Bad : \A k \in Bad : n <= k
  BY <1>1, LeastNatural, Zenon
<1>3. PICK T : Off(T) /\ Cardinality(T) = n
  BY <1>2, Zenon
<1> DEFINE r == T \ {Pick(T)}
<1>4. T \in SUBSET Tx /\ IsFiniteSet(T) /\ Total(T) \notin Nat
  BY <1>3, Zenon
<1>5. Total(T) = IF T = {} THEN 0 ELSE Pick(T).amount + Total(r)
  BY <1>4, TotalStep, Zenon
<1>6. T # {}
  BY <1>4, <1>5
<1>7. /\ Pick(T) \in T /\ IsFiniteSet(r) /\ Cardinality(r) \in Nat /\ n \in Nat
      /\ Cardinality(r) < n
  BY <1>3, <1>4, <1>6, Smaller, Zenon
<1>8. r \in SUBSET Tx /\ Pick(T).amount \in Nat
  BY <1>4, <1>7, Zenon DEF Tx
<1>9. Cardinality(r) \notin Bad
  BY <1>2, <1>7
<1>10. Total(r) \in Nat
  BY <1>7, <1>8, <1>9, Zenon
<1> QED
  BY <1>4, <1>5, <1>6, <1>8, <1>10

\* ... to which one more transaction adds its amount, whichever is picked first.
LEMMA TotalAdd ==
    ASSUME NEW X \in SUBSET Tx, IsFiniteSet(X), NEW y \in Tx \ X
    PROVE  Total(X \cup {y}) = Total(X) + y.amount
<1> DEFINE Off(s) == /\ s \in SUBSET Tx /\ IsFiniteSet(s)
                     /\ \E t \in Tx \ s : Total(s \cup {t}) # Total(s) + t.amount
           Bad == {n \in Nat : \E s : Off(s) /\ Cardinality(s) = n}
<1>1. SUFFICES ASSUME Bad # {} PROVE FALSE
  BY <1>1, FS_CardinalityType, Zenon
<1>2. PICK n \in Bad : \A k \in Bad : n <= k
  BY <1>1, LeastNatural, Zenon
<1>3. PICK T : Off(T) /\ Cardinality(T) = n
  BY <1>2, Zenon
<1>4. T \in SUBSET Tx /\ IsFiniteSet(T)
  BY <1>3, Zenon
<1>5. PICK t \in Tx \ T : Total(T \cup {t}) # Total(T) + t.amount
  BY <1>3, Zenon
<1> DEFINE S == T \cup {t}
           p == Pick(S)
           r == T \ {p}
<1>6. IsFiniteSet(S) /\ S # {} /\ S \in SUBSET Tx
  BY <1>4, <1>5, FS_AddElement, Zenon
<1>7. p \in S /\ Total(S) = p.amount + Total(S \ {p})
  BY <1>6, Smaller, TotalStep, Zenon
<1>8. Total(T) \in Nat /\ t.amount \in Nat
  BY <1>4, <1>5, TotalType, Zenon DEF Tx
<1>9. CASE p = t
  <2>1. S \ {p} = T
    BY <1>5, <1>9, Zenon
  <2> HIDE DEF S, p
  <2>2. Total(S) = t.amount + Total(T)
    BY <1>7, <1>9, <2>1, Zenon
  <2> QED
    BY <1>5, <1>8, <2>2 DEF S
<1>10. CASE p # t
  <2>1. p \in T /\ p \in Tx /\ p.amount \in Nat
    BY <1>4, <1>7, <1>10, Zenon DEF Tx
  <2>2. S \ {p} = r \cup {t} /\ T = r \cup {p} /\ p \in Tx \ r /\ t \in Tx \ r
    BY <1>5, <1>10, <2>1, Zenon
  <2>3. IsFiniteSet(r) /\ Cardinality(r) = n - 1 /\ Cardinality(r) \in Nat
    <3>1. IsFiniteSet(r) /\ Cardinality(r) = n - 1
      BY <1>3, <1>4, <2>1, FS_RemoveElement, Zenon
    <3> QED
      BY <3>1, FS_CardinalityType, Zenon
  <2>4. r \in SUBSET Tx
    BY <1>4, Zenon
  <2>5. Cardinality(r) \notin Bad
    BY <1>2, <2>3
  <2> HIDE DEF r, S, p
  <2>6. \A z \in Tx \ r : Total(r \cup {z}) = Total(r) + z.amount
    BY <2>3, <2>4, <2>5, Zenon
  <2>7. Total(r) \in Nat
    BY <2>3, <2>4, TotalType, Zenon
  <2>8. Total(S) = p.amount + (Total(r) + t.amount) /\ Total(T) = Total(r) + p.amount
    BY <1>7, <2>2, <2>6, Zenon
  <2> QED
    BY <1>5, <1>8, <2>1, <2>7, <2>8 DEF S
<1> QED
  BY <1>9, <1>10, Zenon

-----------------------------------------------------------------------------
(* What a request has paid *)

\* A coin and a call in the making are worth something, and what a request has
\* counted is what its transactions paid, until an answer is lost.
PayInv ==
    /\ IsFiniteSet(txs)
    /\ \A c \in coins : c.value > 0
    /\ \A r \in Requests :
         LET q == request[r] IN
         /\ q.pc = "send" => q.cap > 0 /\ q.remaining > 0
         /\ q.pc = "idle" => ~Lost(r) /\ q.sent = 0 /\ q.done = {}
         /\ q.done \subseteq {t.addr : t \in TxsOf(r)}
         /\ IF Lost(r) THEN Paid(r) > q.sent ELSE Paid(r) = q.sent

LEMMA PaidIs ==
    ASSUME NEW r
    PROVE  Paid(r) = Total(TxsOf(r)) /\ Paid(r)' = Total(TxsOf(r)')
BY Zenon DEF Paid

\* What a step that sends nothing must leave alone.
Quiet(r) ==
    LET q == request[r]
        p == request'[r]
    IN  /\ p.sent = q.sent /\ p.done = q.done /\ (p.pc = "idle" => q.pc = "idle")
        /\ p.pc = "send" => p.cap > 0 /\ p.remaining > 0
        /\ Lost(r)' <=> Lost(r)

LEMMA QuietKeeps ==
    ASSUME PayInv, txs' = txs, \A c \in coins' : c.value > 0, \A r \in Requests : Quiet(r)
    PROVE  PayInv'
<1>1. \A r \in Requests : TxsOf(r)' = TxsOf(r) /\ Paid(r)' = Paid(r)
  BY PaidIs, Zenon DEF TxsOf
<1>2. IsFiniteSet(txs') /\ \A c \in coins' : c.value > 0
  BY Zenon DEF PayInv
<1>3. ASSUME NEW r \in Requests
      PROVE  LET q == request'[r] IN
             /\ q.pc = "send" => q.cap > 0 /\ q.remaining > 0
             /\ q.pc = "idle" => ~Lost(r)' /\ q.sent = 0 /\ q.done = {}
             /\ q.done \subseteq {t.addr : t \in TxsOf(r)'}
             /\ IF Lost(r)' THEN Paid(r)' > q.sent ELSE Paid(r)' = q.sent
  <2> DEFINE q == request[r]
             p == request'[r]
             A == {t.addr : t \in TxsOf(r)}
  <2>1. /\ p.sent = q.sent /\ p.done = q.done /\ (p.pc = "idle" => q.pc = "idle")
        /\ p.pc = "send" => p.cap > 0 /\ p.remaining > 0
        /\ Lost(r)' <=> Lost(r)
    BY Zenon DEF Quiet
  <2>2. /\ q.pc = "idle" => ~Lost(r) /\ q.sent = 0 /\ q.done = {}
        /\ q.done \subseteq A
        /\ IF Lost(r) THEN Paid(r) > q.sent ELSE Paid(r) = q.sent
    BY Zenon DEF PayInv
  <2>3. A = {t.addr : t \in TxsOf(r)'}
    BY <1>1, Zenon
  <2>4. p.done \subseteq {t.addr : t \in TxsOf(r)'}
    BY <2>1, <2>2, <2>3, Zenon
  <2>5. IF Lost(r)' THEN Paid(r)' > p.sent ELSE Paid(r)' = p.sent
    BY <1>1, <2>1, <2>2, Zenon
  <2> QED
    BY <2>1, <2>2, <2>4, <2>5, Zenon
<1> QED
  BY <1>2, <1>3, Zenon DEF PayInv

\* A request that leaves the others alone.
LEMMA QuietIfSet ==
    ASSUME PayInv, NEW r \in Requests, NEW q, Sets(r, q),
           q.sent = request[r].sent, q.done = request[r].done, q.pc # "idle",
           q.pc = "send" => q.cap > 0 /\ q.remaining > 0,
           \A s \in Requests : Lost(s)' <=> Lost(s)
    PROVE  \A s \in Requests : Quiet(s)
<1> TAKE s \in Requests
<1>1. request'[s] = IF s = r THEN q ELSE request[s]
  BY Zenon DEF Sets
<1>2. request[s].pc = "send" => request[s].cap > 0 /\ request[s].remaining > 0
  BY Zenon DEF PayInv
<1>3. CASE s = r
  BY <1>1, <1>3, Zenon DEF Quiet
<1>4. CASE s # r
  BY <1>1, <1>2, <1>4, Zenon DEF Quiet
<1> QED
  BY <1>3, <1>4, Zenon

\* A transaction of request r, with its answer counted or lost.
LEMMA SendPays ==
    ASSUME Typed, HostedInv, PayInv, NEW r \in Requests, NEW c \in coins, Sends(r, c),
           NEW q, Sets(r, q), q.pc = "loop", request[r].pc = "send",
           \/ /\ q.sent = request[r].sent + SendAmount(request[r]) /\ excused' = excused
              /\ q.done = request[r].done \cup {Head(request[r].todo)}
           \/ /\ q.sent = request[r].sent /\ excused' = excused \cup {<<"answer_lost", r>>}
              /\ q.done = request[r].done
    PROVE  PayInv'
<1> DEFINE o == request[r]
           n == SendAmount(o)
           a == Head(o.todo)
<1>1. PICK t \in Tx : /\ t.req = r /\ t.coin = c.id /\ t.addr = a /\ t.amount = n
                      /\ txs' = txs \cup {t}
  BY Zenon DEF Sends
<1>2. t \notin txs
  <2>1. c.state # "change"
    BY Zenon DEF Sends
  <2> QED
    BY <1>1, <2>1, Zenon DEF HostedInv, TxInv
<1>3. IsFiniteSet(txs') /\ txs \in SUBSET Tx /\ IsFiniteSet(txs)
  BY <1>1, FS_AddElement, Zenon DEF PayInv, Typed
<1>4. \A d \in coins' : d.value > 0
  BY Zenon DEF PayInv, Sends
<1>5. n \in Nat /\ n > 0 /\ o.sent \in Nat
  <2>1. o \in Request /\ o.cap > 0 /\ o.remaining > 0
    BY Zenon DEF Typed, PayInv
  <2> QED
    BY <2>1, SendAmountBound, Zenon DEF SendAmount, Request
<1>6. ASSUME NEW s \in Requests, s # r
      PROVE  LET p == request'[s] IN
             /\ p.pc = "send" => p.cap > 0 /\ p.remaining > 0
             /\ p.pc = "idle" => ~Lost(s)' /\ p.sent = 0 /\ p.done = {}
             /\ p.done \subseteq {x.addr : x \in TxsOf(s)'}
             /\ IF Lost(s)' THEN Paid(s)' > p.sent ELSE Paid(s)' = p.sent
  <2>1. request'[s] = request[s]
    BY <1>6, Zenon DEF Sets
  <2>2. TxsOf(s)' = TxsOf(s)
    BY <1>1, <1>6, Zenon DEF TxsOf
  <2>3. Paid(s)' = Paid(s)
    BY <2>2, PaidIs, Zenon
  <2>4. Lost(s)' <=> Lost(s)
    <3>1. <<"answer_lost", s>> # <<"answer_lost", r>>
      BY <1>6, Zenon
    <3> QED
      BY <3>1, Zenon DEF Lost
  <2> QED
    BY <2>1, <2>2, <2>3, <2>4, Zenon DEF PayInv
<1>7. TxsOf(r)' = TxsOf(r) \cup {t} /\ TxsOf(r) \in SUBSET Tx /\ t \in Tx \ TxsOf(r)
  BY <1>1, <1>2, <1>3, Zenon DEF TxsOf
<1>8. IsFiniteSet(TxsOf(r))
  BY <1>3, FS_Subset, Zenon DEF TxsOf
<1>9. Paid(r)' = Paid(r) + n /\ Paid(r) \in Nat
  <2>1. Total(TxsOf(r) \cup {t}) = Total(TxsOf(r)) + t.amount /\ Total(TxsOf(r)) \in Nat
    BY <1>7, <1>8, TotalAdd, TotalType, Zenon
  <2> QED
    BY <1>1, <1>7, <2>1, PaidIs, Zenon
<1>10. request'[r] = q
  BY Zenon DEF Sets
<1> DEFINE A == {x.addr : x \in TxsOf(r)}
<1>11. /\ o.done \subseteq A /\ {x.addr : x \in TxsOf(r)'} = A \cup {a}
       /\ IF Lost(r) THEN Paid(r) > o.sent ELSE Paid(r) = o.sent
  <2>1. /\ o.done \subseteq A
        /\ IF Lost(r) THEN Paid(r) > o.sent ELSE Paid(r) = o.sent
    BY Zenon DEF PayInv
  <2>2. {x.addr : x \in TxsOf(r)'} = A \cup {a}
    BY <1>1, <1>7
  <2> QED
    BY <2>1, <2>2, Zenon
<1>12. q.done \subseteq A \cup {a}
  <2> HIDE DEF A
  <2> QED
    BY <1>11, Zenon
<1> HIDE DEF A, n, o
<1>13. IF Lost(r)' THEN Paid(r)' > q.sent ELSE Paid(r)' = q.sent
  <2>1. CASE q.sent = o.sent + n /\ excused' = excused
    <3>1. Lost(r)' <=> Lost(r)
      BY <2>1, Zenon DEF Lost
    <3>2. CASE Lost(r)
      BY <1>5, <1>9, <1>11, <2>1, <3>1, <3>2
    <3>3. CASE ~Lost(r)
      BY <1>5, <1>9, <1>11, <2>1, <3>1, <3>3, Zenon
    <3> QED
      BY <3>2, <3>3, Zenon
  <2>2. CASE q.sent = o.sent /\ excused' = excused \cup {<<"answer_lost", r>>}
    <3>1. Lost(r)'
      BY <2>2, Zenon DEF Lost
    <3>2. Paid(r) >= o.sent
      BY <1>5, <1>9, <1>11
    <3>3. Paid(r)' > q.sent
      BY <1>5, <1>9, <2>2, <3>2
    <3> QED
      BY <3>1, <3>3, Zenon
  <2> QED
    BY <2>1, <2>2, Zenon DEF n, o
<1>14. LET p == request'[r] IN
       /\ p.pc = "send" => p.cap > 0 /\ p.remaining > 0
       /\ p.pc = "idle" => ~Lost(r)' /\ p.sent = 0 /\ p.done = {}
       /\ p.done \subseteq {x.addr : x \in TxsOf(r)'}
       /\ IF Lost(r)' THEN Paid(r)' > p.sent ELSE Paid(r)' = p.sent
  BY <1>10, <1>11, <1>12, <1>13, Zenon
<1> QED
  BY <1>3, <1>4, <1>6, <1>14, Zenon DEF PayInv

\* A step of a request.
LEMMA RequestPays ==
    ASSUME Typed, HostedInv, PayInv, NEW r \in Requests,
           \/ ReadAddresses(r) \/ Look(r) \/ SendAnswered(r) \/ SendAnswerLost(r)
           \/ SendRefused(r) \/ FinishRotating(r) \/ Finish(r)
    PROVE  PayInv'
<1>1. \A c \in coins : c.value > 0
  BY Zenon DEF PayInv
<1>2. CASE ReadAddresses(r)
  <2>1. coins' = coins /\ txs' = txs /\ excused' = excused
    BY <1>2, Zenon DEF ReadAddresses
  <2>2. PICK q : Sets(r, q) /\ q.pc = "loop" /\ q.done = request[r].done /\ q.sent = request[r].sent
    BY <1>2, ReadMoves, Zenon
  <2>3. \A s \in Requests : Quiet(s)
    BY <2>1, <2>2, QuietIfSet, Zenon DEF Lost
  <2> QED
    BY <1>1, <2>1, <2>3, QuietKeeps, Zenon
<1>3. CASE Look(r)
  <2>1. coins' = coins /\ txs' = txs /\ excused' = excused
    BY <1>3, Zenon DEF Look
  <2>2. PICK q : /\ Sets(r, q) /\ q.pc \in {"loop", "send"}
                 /\ q.done = request[r].done /\ q.sent = request[r].sent
                 /\ q.pc = "send" => q.remaining > 0 /\ \E c \in coins : q.cap = c.value
    BY <1>3, LookMoves, Zenon
  <2>3. q.pc = "send" => q.cap > 0 /\ q.remaining > 0
    BY <1>1, <2>2, Zenon
  <2>4. \A s \in Requests : Quiet(s)
    BY <2>1, <2>2, <2>3, QuietIfSet, Zenon DEF Lost
  <2> QED
    BY <1>1, <2>1, <2>4, QuietKeeps
<1>4. CASE SendAnswered(r)
  <2>1. /\ request[r].pc = "send" /\ excused' = excused
        /\ request' = [request EXCEPT ![r] = Counted(request[r])]
    BY <1>4, Zenon DEF SendAnswered
  <2>2. PICK c \in coins : Sends(r, c)
    BY <1>4, SendMoves, Zenon DEF SendAnswered
  <2>3. PICK q : /\ Sets(r, q) /\ q.pc = "loop"
                 /\ q.done = request[r].done \cup {Head(request[r].todo)}
                 /\ q.sent = request[r].sent + SendAmount(request[r])
    BY <2>1, CountMoves, Zenon
  <2> QED
    BY <2>1, <2>2, <2>3, SendPays, Zenon
<1>5. CASE SendAnswerLost(r)
  <2>1. /\ request[r].pc = "send" /\ excused' = excused \cup {<<"answer_lost", r>>}
        /\ request' = [request EXCEPT ![r] = Skipped(request[r])]
    BY <1>5, Zenon DEF SendAnswerLost
  <2>2. PICK c \in coins : Sends(r, c)
    BY <1>5, SendMoves, Zenon DEF SendAnswerLost
  <2>3. PICK q : Sets(r, q) /\ q.pc = "loop" /\ q.done = request[r].done /\ q.sent = request[r].sent
    BY <2>1, SkipMoves, Zenon
  <2> QED
    BY <2>1, <2>2, <2>3, SendPays, Zenon
<1>6. CASE SendRefused(r)
  <2>1. /\ coins' = coins /\ txs' = txs /\ excused' = excused /\ request[r].pc = "send"
        /\ request' = [request EXCEPT ![r] = Skipped(request[r])]
    BY <1>6, Zenon DEF SendRefused
  <2>2. PICK q : Sets(r, q) /\ q.pc = "loop" /\ q.done = request[r].done /\ q.sent = request[r].sent
    BY <2>1, SkipMoves, Zenon
  <2>3. \A s \in Requests : Quiet(s)
    BY <2>1, <2>2, QuietIfSet, Zenon DEF Lost
  <2> QED
    BY <1>1, <2>1, <2>3, QuietKeeps, Zenon
<1>7. CASE FinishRotating(r) \/ Finish(r)
  <2>1. /\ coins' = coins /\ txs' = txs /\ LoopOver(request[r])
        /\ request' = [request EXCEPT ![r] = Ended(request[r])]
        /\ excused' = excused \/ excused' = excused \cup {<<"no_new_address", request[r].user>>}
    BY <1>7, Zenon DEF FinishRotating, Finish
  <2>2. PICK q : Sets(r, q) /\ q.pc = "done" /\ q.done = request[r].done /\ q.sent = request[r].sent
    BY <2>1, EndMoves, Zenon
  <2>3. \A s \in Requests : <<"answer_lost", s>> # <<"no_new_address", request[r].user>>
    BY Zenon
  <2>4. \A s \in Requests : Lost(s)' <=> Lost(s)
    BY <2>1, <2>3, Zenon DEF Lost
  <2>5. \A s \in Requests : Quiet(s)
    BY <2>2, <2>4, QuietIfSet, Zenon
  <2> QED
    BY <1>1, <2>1, <2>5, QuietKeeps, Zenon
<1> QED
  BY <1>2, <1>3, <1>4, <1>5, <1>6, <1>7, Zenon

\* A new request has neither paid nor lost anything.
LEMMA StartPays ==
    ASSUME Typed, HostedInv, PayInv, NEW r \in Requests, NEW u \in Users, NEW n \in Amounts,
           StartSend(r, u, n)
    PROVE  PayInv'
<1>1. coins' = coins /\ txs' = txs /\ excused' = excused /\ request[r].pc = "idle"
  BY Zenon DEF StartSend
<1>2. PICK q : Sets(r, q) /\ q.pc = "addresses" /\ q.done = {} /\ q.sent = 0
  BY StartMoves, Zenon
<1>3. request[r].sent = 0 /\ request[r].done = {} /\ \A c \in coins : c.value > 0
  BY <1>1, Zenon DEF PayInv
<1>4. \A s \in Requests : Quiet(s)
  BY <1>1, <1>2, <1>3, QuietIfSet, Zenon DEF Lost
<1> QED
  BY <1>1, <1>3, <1>4, QuietKeeps, Zenon

\* Every other step leaves requests and transactions alone, and brings coins of
\* some value only.
LEMMA OthersPay ==
    ASSUME Typed, HostedInv, PayInv, request' = request, txs' = txs,
           \A c \in coins' : c.value > 0, \A s \in Requests : Lost(s)' <=> Lost(s)
    PROVE  PayInv'
<1>1. \A s \in Requests : Quiet(s)
  BY Zenon DEF Quiet, PayInv
<1> QED
  BY <1>1, QuietKeeps, Zenon

LEMMA PayStep == Typed /\ HostedInv /\ PayInv /\ [Next]_vars => PayInv'
<1> SUFFICES ASSUME Typed, HostedInv, PayInv, [Next]_vars PROVE PayInv'
  BY Zenon
<1>1. \A c \in coins : c.value > 0
  BY Zenon DEF PayInv
<1>2. CASE UNCHANGED vars
  BY <1>1, <1>2, OthersPay, Zenon DEF vars, Lost
<1>3. ASSUME NEW u \in Users, Signup(u) \/ Rotate(u) PROVE PayInv'
  <2>1. request' = request /\ txs' = txs /\ coins' = coins /\ excused' = excused
    BY <1>3, Zenon DEF Signup, Rotate
  <2> QED
    BY <1>1, <2>1, OthersPay, Zenon DEF Lost
<1>4. ASSUME NEW u \in Users, RotateFails(u) \/ RestartMiner(u) PROVE PayInv'
  <2>1. /\ request' = request /\ txs' = txs /\ coins' = coins
        /\ \/ excused' = excused \cup {<<"rotation_failed", u>>}
           \/ excused' = excused \cup {<<"restarted", u>>}
    BY <1>4, Zenon DEF RotateFails, RestartMiner
  <2>2. \A s \in Requests : /\ <<"answer_lost", s>> # <<"rotation_failed", u>>
                            /\ <<"answer_lost", s>> # <<"restarted", u>>
    BY Zenon
  <2>3. \A s \in Requests : Lost(s)' <=> Lost(s)
    BY <2>1, <2>2, Zenon DEF Lost
  <2> QED
    BY <1>1, <2>1, <2>3, OthersPay, Zenon
<1>5. ASSUME NEW a, NEW w \in Nat \ {0}, NEW st, coins' = coins \cup {NewCoin(a, w, st)},
             request' = request, txs' = txs, excused' = excused
      PROVE  PayInv'
  <2>1. NewCoin(a, w, st).value = w
    BY Zenon DEF NewCoin
  <2>2. \A c \in coins' : c.value > 0
    BY <1>1, <1>5, <2>1
  <2> QED
    BY <1>5, <2>2, OthersPay, Zenon DEF Lost
<1>6. ASSUME NEW u \in Users, Mine(u) PROVE PayInv'
  <2>1. /\ coins' = coins \cup {NewCoin(miner[u].addr, Reward, "immature")}
        /\ request' = request /\ txs' = txs /\ excused' = excused
    BY <1>6, Zenon DEF Mine
  <2> QED
    BY <1>5, <2>1, HostedConstants, Zenon
<1>7. ASSUME NEW u \in Users, NEW a \in Range(owned[u]), NEW v \in Deposits, Deposit(u, a, v)
      PROVE  PayInv'
  <2>1. /\ coins' = coins \cup {NewCoin(a, v, "unconfirmed")}
        /\ request' = request /\ txs' = txs /\ excused' = excused
    BY <1>7, Zenon DEF Deposit
  <2> QED
    BY <1>5, <2>1, HostedConstants, Zenon
<1>8. ASSUME NEW c \in coins, Ripen(c) PROVE PayInv'
  <2> DEFINE d == [c EXCEPT !.state = "ready"]
  <2>1. /\ coins' = (coins \ {c}) \cup {d}
        /\ request' = request /\ txs' = txs /\ excused' = excused
    BY <1>8, Zenon DEF Ripen
  <2>2. d.value = c.value
    BY Zenon DEF Typed, Coin
  <2>3. \A k \in coins' : k.value > 0
    BY <1>1, <2>1, <2>2, Zenon
  <2> QED
    BY <2>1, <2>3, OthersPay, Zenon DEF Lost
<1>9. CASE Next
  BY <1>3, <1>4, <1>6, <1>7, <1>8, <1>9, StartPays, RequestPays, Zenon DEF Next
<1> QED
  BY <1>2, <1>9, Zenon

-----------------------------------------------------------------------------
(* Theorems *)

\* What wallet_send keeps true of its locals and of the database between any
\* two RPCs.
THEOREM HostedInvariance == Spec => [](Typed /\ HostedInv)
BY HostedInit, HostedStep, PTL DEF Spec

\* wallet_send spends only from addresses in mining_addresses of the user who
\* asked, and no address is assigned to two users.
THEOREM HostedOwnership == Spec => []OwnCoinsOnly
<1>1. Typed /\ HostedInv => OwnCoinsOnly
  BY Zenon DEF HostedInv, AddressInv, TxInv, OwnCoinsOnly
<1> QED
  BY <1>1, HostedInvariance, PTL

\* wallet_send reports what it has paid: the transactions that
\* sendfromxmssaddress made for a request add up to what the request counted,
\* and to more only if an answer was lost; it never counts more than was asked.
THEOREM HostedReports == Spec => []ReportsWhatItPaid
<1>1. Init => PayInv
  <2> SUFFICES ASSUME Init PROVE PayInv
    BY Zenon
  <2>1. txs = {} /\ coins = {} /\ IsFiniteSet({}) /\ excused = {}
    BY FS_EmptySet, Zenon DEF Init
  <2>2. ASSUME NEW r \in Requests PROVE request[r] = NoRequest /\ TxsOf(r) = {} /\ Paid(r) = 0
    <3>1. TxsOf(r) = {} /\ request[r] = NoRequest
      BY <2>1, Zenon DEF Init, TxsOf
    <3>2. Total({}) = 0
      BY FS_EmptySet, TotalStep, Zenon
    <3> QED
      BY <3>1, <3>2, PaidIs, Zenon
  <2>3. \A r \in Requests : ~Lost(r)
    BY <2>1, Zenon DEF Lost
  <2> QED
    BY <2>1, <2>2, <2>3, NoRequestTyped, Zenon DEF PayInv
<1>2. ASSUME Typed, HostedInv, PayInv PROVE ReportsWhatItPaid
  <2>1. \A r \in Requests : /\ request[r].remaining \in Nat
                            /\ request[r].sent + request[r].remaining = request[r].amount
    BY <1>2, Zenon DEF Typed, Request, HostedInv, RequestInv
  <2>2. \A r \in Requests : request[r].remaining >= 0
    BY <2>1
  <2> QED
    BY <1>2, <2>1, <2>2, Zenon DEF PayInv, ReportsWhatItPaid
<1> QED
  BY <1>1, <1>2, PayStep, HostedInvariance, PTL DEF Spec

\* The rotation at the end of wallet_send replaces a current address that the
\* request has drained, whatever the other requests do meanwhile.
THEOREM HostedReplacement == Spec => []DrainedAddressReplaced
<1>1. Typed /\ HostedInv => DrainedAddressReplaced
  BY Zenon DEF HostedInv, DrainInv, DrainedAddressReplaced
<1> QED
  BY <1>1, HostedInvariance, PTL

\* An address that has signed is one of Addresses: the bound on addresses,
\* one for the change of each coin and one for the end of each request.
LEMMA SignersBounded ==
    ASSUME Typed, HostedInv
    PROVE  retired \subseteq Addresses
<1> DEFINE a == Cardinality(Spent)
           b == Cardinality(Over)
           k == Cardinality(Requests)
<1>1. a \in Nat /\ a <= MaxCoins
  BY SpentCount, Zenon
<1>2. k \in Nat /\ b \in Nat /\ b <= k
  <2>1. IsFiniteSet(Requests) /\ Over \in SUBSET Requests
    BY HostedConstants, Zenon DEF Over
  <2>2. IsFiniteSet(Over) /\ b <= k
    BY <2>1, FS_Subset, Zenon
  <2> QED
    BY <2>1, <2>2, FS_CardinalityType, Zenon
<1>3. nextAddr - 1 <= MaxAddresses + a + b /\ retired \subseteq 1..(nextAddr - 1)
  BY Zenon DEF HostedInv, CountInv, AddressInv
<1>4. nextAddr \in Nat /\ MaxAddresses \in Nat /\ MaxCoins \in Nat
  BY HostedConstants, Zenon DEF Typed
<1>5. Addresses = 1..(MaxAddresses + MaxCoins + k)
  BY Zenon DEF Addresses
<1> HIDE DEF a, b, k
<1> QED
  BY <1>1, <1>2, <1>3, <1>4, <1>5

\* A step signs nothing, or spends one coin with a key that has never signed.
LEMMA HostedReleases ==
    Typed /\ HostedInv /\ (retired \subseteq Addresses)' /\ [Next]_vars
      => [Abstract!Next]_{[root |-> t.addr, leaf |-> 0, msg |-> t.coin] : t \in txs}
<1> DEFINE Out == {[root |-> t.addr, leaf |-> 0, msg |-> t.coin] : t \in txs}
<1> SUFFICES ASSUME Typed, HostedInv, (retired \subseteq Addresses)', [Next]_vars, txs' # txs
             PROVE  Abstract!Next
  BY Zenon
<1>1. PICK r \in Requests, c \in coins : Sends(r, c)
  BY TxStep, Zenon
<1> DEFINE a == Head(request[r].todo)
<1>2. c.state # "change" /\ a \notin retired /\ retired' = retired \cup {a}
  BY <1>1, Zenon DEF Sends
<1>3. PICK t \in Tx : t.coin = c.id /\ t.addr = a /\ txs' = txs \cup {t}
  BY <1>1, Zenon DEF Sends
<1>4. a \in Addresses
  BY <1>2, Zenon DEF Addresses
<1>5. c.id \in 1..MaxCoins
  <2>1. c.id \in 1..ncoins /\ ncoins \in 0..MaxCoins /\ MaxCoins \in Nat
    BY <1>2, HostedConstants, Zenon DEF HostedInv, TxInv, Typed
  <2> QED
    BY <2>1
<1>6. \A x \in Out : x.root # a
  <2>1. \A s \in txs : s.addr \in retired
    BY Zenon DEF HostedInv, TxInv
  <2> QED
    BY <1>2, <2>1, SMTT(60)
<1>7. Out' = Out \cup {[root |-> a, leaf |-> 0, msg |-> c.id]}
  BY <1>3, Zenon
<1>8. Abstract!Release(a, 0, c.id)
  BY <1>6, <1>7, Zenon DEF Abstract!Release
<1>9. 0 \in 0..(1 - 1)
  OBVIOUS
<1> HIDE DEF a
<1> QED
  BY <1>4, <1>5, <1>8, <1>9, Zenon DEF Abstract!Next

\* The hosted wallet implements OneTimeLeaves: sendfromxmssaddress never signs
\* twice with one address's key, also when its answer is lost and the request
\* goes on, or another request drains the same account.
THEOREM HostedRefinement == Spec => ImplementsOneTimeLeaves
<1>1. Init => Abstract!Init
  BY Zenon DEF Init, Abstract!Init
<1>2. Typed /\ HostedInv => retired \subseteq Addresses
  BY SignersBounded, Zenon
<1> QED
  BY <1>1, <1>2, HostedInvariance, HostedReleases, PTL
     DEF Spec, ImplementsOneTimeLeaves, Abstract!Spec
=============================================================================
