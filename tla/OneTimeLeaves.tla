--------------------------- MODULE OneTimeLeaves ---------------------------
(***************************************************************************)
(* What every signing path of the node must look like from outside: a      *)
(* growing set of signatures in which each leaf of each tree occurs once   *)
(* and only usable leaves occur.                                           *)
(***************************************************************************)
EXTENDS Integers

CONSTANTS Roots, Msgs, MaxLeaves

VARIABLE released

Init == released = {}

\* Leaf l of tree r signs m, for the first and only time.
Release(r, l, m) ==
    /\ \A x \in released : ~(x.root = r /\ x.leaf = l)
    /\ released' = released \cup {[root |-> r, leaf |-> l, msg |-> m]}

Next == \E r \in Roots, l \in 0..(MaxLeaves - 1), m \in Msgs : Release(r, l, m)

Spec == Init /\ [][Next]_released
=============================================================================
