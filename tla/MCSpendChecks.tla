--------------------------- MODULE MCSpendChecks ---------------------------
(* Instances of SpendChecks for TLC: the first input is of any kind, cut   *)
(* in any of the ways below, over any of the items below; the second is    *)
(* made by the wallet.                                                     *)
EXTENDS SpendChecks

Sig(k, l, i) == [key |-> k, leaf |-> l, input |-> i]
Lock(kind, k) == [kind |-> kind, key |-> k, second |-> "b"]

Standard == <<500, 500, 500, 500, 500>>
Longest == <<520, 520, 520, 520, 420>>
Nine == [n \in 1..9 |-> IF n < 9 THEN 280 ELSE 260]
Ten == [n \in 1..10 |-> 250]
Uncut == <<2500>>
ShortFirst == <<3, 500, 500, 500, 500, 497>>
LastLeafByteAlone == <<3, 1, 500, 500, 500, 500, 496>>

Cuts == {Standard, Longest, Nine, Ten, Uncut, ShortFirst, LastLeafByteAlone}
Unders == {<<>>, <<vchFalse>>, <<Filler(100)>>, <<Filler(100), vchFalse>>}

OneKey ==
  {Spend(Lock(kind, "a"), u, <<[sig |-> Sig("a", l, 1), sizes |-> c]>>, byOpcode) :
     kind \in {"P2XMSS", "P2XMSSHASH", "P2SH", "TAILED"}, u \in Unders, l \in {0, 1}, c \in Cuts,
     byOpcode \in BOOLEAN}

WrongKey ==
  {Spend(Lock(kind, "a"), <<>>, <<[sig |-> s, sizes |-> Standard]>>, TRUE) :
     kind \in {"P2XMSS", "P2XMSSHASH", "P2SH", "TAILED", "SHORTKEY"},
     s \in {Sig("b", 0, 1), Sig("a", 0, 2)}}

TwoKeys ==
  {Spend(Lock("TWOKEYS", "a"), u, <<[sig |-> Sig("a", 0, 1), sizes |-> c],
                                    [sig |-> Sig("b", 1, 1), sizes |-> d]>>, TRUE) :
     u \in Unders, c \in {Standard, Nine, Ten}, d \in {Standard, Nine, Ten}}

ByWallet ==
  {Spend(Lock("P2XMSSHASH", "a"), <<>>, <<[sig |-> Sig("a", 0, 2), sizes |-> Standard]>>, TRUE),
   Spend(Lock("P2XMSS", "b"), <<>>, <<[sig |-> Sig("b", 0, 2), sizes |-> Standard]>>, TRUE)}

MCTxs == {<<s, w>> : s \in OneKey \cup WrongKey \cup TwoKeys, w \in ByWallet}

MCMiningUses == {[key |-> "a", leaf |-> 1], [key |-> "m", leaf |-> 0]}
MCRecorded0 == {{}, {[key |-> "b", leaf |-> 0]}}
=============================================================================
