----------------------------- MODULE Difficulty -----------------------------
(***************************************************************************)
(* The difficulty rule (src/pow.cpp and CalcNextTargetEMA of pouw_v2.h): a *)
(* chain grows by one block at a time, each with a timestamp its miner     *)
(* picks, and GetNextWorkRequired gives the target it must meet.  Targets  *)
(* are Width-bit integers that wrap, and pass through the compact form     *)
(* that nBits holds them in.  The history is the last three gaps between   *)
(* block times, newest first; heights that no rule tells apart are not     *)
(* counted on.                                                             *)
(***************************************************************************)
EXTENDS Integers, Sequences, FiniteSets, SequencesExt, FiniteSetsExt

CONSTANTS
    Width,          \* bits of arith_uint256
    DigitBits,      \* 8 in the code: nBits has a mantissa of three digits
    PowLimit,       \* params.powLimit
    T,              \* nPowTargetSpacing
    Scale,          \* 1000 in the code: the weights are 0.9 and 0.1 of it
    MinShift,       \* 10 in the code
    CeilingShift,   \* nPoUWDifficultyCeilingShift
    HardenHeight,   \* nPoUWStuckRecoveryHardenHeight
    TieredHeight,   \* nPoUWTieredStuckRecoveryHeight
    RaiseHeight,    \* nPoUWDifficultyCeilingRaiseHeight
    NoRetargeting,  \* fPowNoRetargeting
    AllowMin,       \* fPowAllowMinDifficultyBlocks
    Gaps,           \* gaps between block times
    MaxHeight       \* bound: heights from here on are alike

ASSUME DifficultyConstantsOK ==
    /\ Width \in Nat /\ DigitBits \in Nat \ {0} /\ PowLimit \in 1..(2^Width - 1)
    /\ T \in Nat \ {0} /\ Scale \in Nat \ {0} /\ Scale % 10 = 0
    /\ MinShift \in Nat /\ CeilingShift \in Nat /\ CeilingShift >= MinShift
    /\ {NoRetargeting, AllowMin} \subseteq BOOLEAN /\ Gaps \subseteq Int
    /\ \A h \in {3, HardenHeight, TieredHeight, RaiseHeight} : h \in 0..(MaxHeight - 1)

VARIABLES
    height,   \* pindexLast->nHeight
    target,   \* the target that pindexLast->nBits stands for
    gaps      \* times of the last blocks: t_N - t_N-1, t_N-1 - t_N-2, ...

vars == <<height, target, gaps>>

-----------------------------------------------------------------------------
(* Targets *)

\* What is left of t after GetCompact and SetCompact: as many low digits are
\* dropped as it takes for the mantissa to clear the sign bit.
Compact(t) ==
    LET k == Min({j \in 0..(Width \div DigitBits) :
                    t \div 2^(DigitBits * j) < 2^(3 * DigitBits - 1)})
    IN  (t \div 2^(DigitBits * k)) * 2^(DigitBits * k)

Clamp(x, lo, hi) == IF x < lo THEN lo ELSE IF x > hi THEN hi ELSE x

\* Mutant: slow blocks count no more than blocks in time.
CalcNextTargetEMANoEasing(old, spacing, shift) ==
    LET actual == Clamp(spacing, T \div 4, T)
        numerator == 9 * (Scale \div 10) * T + (Scale \div 10) * actual
    IN  Clamp(((old \div (Scale * T)) * numerator) % 2^Width, PowLimit \div 2^shift, PowLimit)

\* Mutant: the weights do not add up to one.
CalcNextTargetEMAWeights(old, spacing, shift) ==
    LET actual == Clamp(spacing, T \div 4, 20 * T)
        numerator == 8 * (Scale \div 10) * T + (Scale \div 10) * actual
    IN  Clamp(((old \div (Scale * T)) * numerator) % 2^Width, PowLimit \div 2^shift, PowLimit)

\* Mutant: no upper limit.
CalcNextTargetEMANoLimit(old, spacing, shift) ==
    LET actual == Clamp(spacing, T \div 4, 20 * T)
        numerator == 9 * (Scale \div 10) * T + (Scale \div 10) * actual
    IN  ((old \div (Scale * T)) * numerator) % 2^Width

CalcNextTargetEMA(old, spacing, shift) ==
    LET actual == Clamp(spacing, T \div 4, 20 * T)
        numerator == 9 * (Scale \div 10) * T + (Scale \div 10) * actual
    IN  Clamp(((old \div (Scale * T)) * numerator) % 2^Width, PowLimit \div 2^shift, PowLimit)

\* For a block on top of one at height h with target old.
CalculateNextWorkRequired(h, old, spacing) ==
    Compact(CalcNextTargetEMA(old, spacing,
                              IF h + 1 >= RaiseHeight THEN CeilingShift ELSE MinShift))

-----------------------------------------------------------------------------
(* GetNextWorkRequired for a block on top of the history g at height h, with *)
(* target old, whose time is own after the tip's                             *)

Slow(gap) == gap > 10 * T

\* Mutant: no confirmed gap is asked for.
StuckConfirmedNone(h, g) == 2

\* The number of confirmed gaps that bear out that the chain is stuck.
StuckConfirmed(h, g) ==
    LET confirmed == Max({n \in 0..Min({2, Len(g)}) : \A i \in 1..n : Slow(g[i])})
    IN  IF h + 1 < HardenHeight THEN 2
        ELSE IF h + 1 >= TieredHeight THEN confirmed
        ELSE IF confirmed = 2 THEN 2 ELSE 0

\* The mean of the last gaps, three if there are as many.  (C++ rounds towards
\* 0; a negative mean is clamped either way.)
MovingAverage(g) == FoldLeft(LAMBDA x, y : x + y, 0, g) \div Len(g)

GetNextWorkRequired(h, old, g, own) ==
    CASE h = 0 -> Compact(PowLimit)
      [] h > 0 /\ NoRetargeting -> old
      [] h > 0 /\ ~NoRetargeting /\ AllowMin /\ own > 2 * T -> Compact(PowLimit)
      [] OTHER ->
           CalculateNextWorkRequired(h, old,
               IF Slow(own) /\ StuckConfirmed(h, g) = 2 THEN 20 * T
               ELSE IF Slow(own) /\ StuckConfirmed(h, g) = 1 THEN 4 * T
               ELSE MovingAverage(g))

\* What headers synchronisation accepts as a change of nBits.
PermittedDifficultyTransition(old, new) ==
    IF NoRetargeting THEN new = old
    ELSE new \in Max({old \div 4, 1}) .. Min({(old * 20) % 2^Width, PowLimit})

-----------------------------------------------------------------------------
Init == height = 0 /\ target = Compact(PowLimit) /\ gaps = <<>>

\* A block later than the median of the blocks before it: with at most one of
\* the last gaps negative it suffices that it is later than the oldest kept.
\* Past the last activation heights are alike, and at the bound the height goes
\* back by one.
Mine(own) ==
    /\ own + FoldLeft(LAMBDA x, y : x + y, 0, gaps) > 0
    /\ own < 0 => \A i \in 1..Len(gaps) : gaps[i] >= 0
    /\ target' = GetNextWorkRequired(height, target, gaps, own)
    /\ gaps' = SubSeq(<<own>> \o gaps, 1, Min({3, Len(gaps) + 1}))
    /\ height' = IF height = MaxHeight THEN MaxHeight - 1 ELSE height + 1

Next == \E own \in Gaps : Mine(own)

\* Blocks keep being mined.
Spec == Init /\ [][Next]_vars /\ []<><<height' # height>>_vars

-----------------------------------------------------------------------------
(* Properties *)

Floor == Compact(PowLimit \div 2^(IF height >= RaiseHeight THEN CeilingShift ELSE MinShift))

\* The target is one that CheckProofOfWork takes, and never passes the ceiling
\* of the difficulty, before and after it is raised.
TargetInRange ==
    /\ target \in 1..PowLimit /\ target >= Floor
    /\ target = Compact(target)
    /\ height \in 0..MaxHeight /\ gaps \in Seq(Gaps) /\ Len(gaps) = Min({height, 3})

\* Every target the chain demands next is a transition that headers
\* synchronisation permits, whatever time the block claims.
TransitionsPermitted ==
    \A own \in Gaps :
      PermittedDifficultyTransition(target, GetNextWorkRequired(height, target, gaps, own))

\* From the hardening height on, while the last confirmed gap is not slow, the
\* time a block claims has no say in its own target: one timestamp cannot buy
\* an easier block.
OwnTimestampInert ==
    height > 0 /\ height + 1 >= HardenHeight /\ ~AllowMin /\ ~Slow(gaps[1]) =>
      Cardinality({GetNextWorkRequired(height, target, gaps, own) : own \in Gaps}) = 1

\* Slow blocks never make the next one harder, but for rounding, and fast ones
\* never make it easier, for a block that claims a time like the others.
FollowsBlockTimes ==
    height > 0 =>
      LET next == GetNextWorkRequired(height, target, gaps, T)
      IN  /\ MovingAverage(gaps) >= T => next >= Compact(target - (Scale * T - 1))
          /\ MovingAverage(gaps) <= T => next <= Max({target, Floor})

\* A chain on which every block is far too slow gets back to the easiest target.
RecoversFromStall ==
    <>[](gaps # <<>> /\ Slow(gaps[1])) => <>[](target = Compact(PowLimit))
=============================================================================
