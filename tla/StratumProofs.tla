--------------------------- MODULE StratumProofs ---------------------------
(***************************************************************************)
(* Theorems about Stratum for every number of connections, every number of *)
(* shares per block and every height: mining_in_progress is a lock, its    *)
(* holder is sent work for the new tip, and the only triggers that get     *)
(* lost are those whose shares were counted during another answer.         *)
(***************************************************************************)
EXTENDS Stratum, FiniteSetTheorems, TLAPS

\* The handlers between the trigger and the finally clause.
Miners == {w \in Workers : phase[w] \in {"mining", "found", "closing", "notified"}}

\* The inductive form of MiningExclusive: the set of those handlers, which need
\* not be finite to begin with, is empty or a singleton as the flag says.
ExclusionInv ==
    /\ phase \in [Workers -> Phases] /\ address \in [Workers -> BOOLEAN]
    /\ sent \in [Workers -> {NoJob} \cup 0..MaxHeight] /\ currentJob \in {NoJob} \cup 0..MaxHeight
    /\ height \in 0..MaxHeight /\ inProgress \in BOOLEAN
    /\ inProgress => \E w \in Workers : Miners = {w}
    /\ ~inProgress => Miners = {}

\* What Move does to the set of mining handlers.
LEMMA MoveMiners ==
    ASSUME phase \in [Workers -> Phases], NEW w \in Workers, NEW from \in Phases, NEW to \in Phases,
           Move(w, from, to)
    PROVE  /\ phase' \in [Workers -> Phases]
           /\ phase[w] = from /\ phase'[w] = to
           /\ \A v \in Workers : v # w => phase'[v] = phase[v]
           /\ Miners' = IF to \in {"mining", "found", "closing", "notified"}
                        THEN Miners \cup {w} ELSE Miners \ {w}
<1>1. /\ phase' \in [Workers -> Phases]
      /\ phase[w] = from /\ phase'[w] = to
      /\ \A v \in Workers : v # w => phase'[v] = phase[v]
  BY DEF Move
<1> QED
  BY <1>1 DEF Miners

\* SendWork gives w the server's job or leaves it with the one it has.
LEMMA SendWorkType ==
    ASSUME ExclusionInv, NEW w \in Workers, NEW cur \in {NoJob, currentJob}, SendWork(w, cur)
    PROVE  /\ sent' \in [Workers -> {NoJob} \cup 0..MaxHeight]
           /\ currentJob' \in {NoJob} \cup 0..MaxHeight
           /\ currentJob' \in {NoJob, height, cur}
           /\ \A v \in Workers : sent'[v] # sent[v] => v = w /\ sent'[v] = currentJob' /\ currentJob' # NoJob
BY DEF ExclusionInv, SendWork

LEMMA ExclusionStep == ExclusionInv /\ [Next]_vars => ExclusionInv'
<1> SUFFICES ASSUME ExclusionInv, [Next]_vars PROVE ExclusionInv'
  OBVIOUS
<1> USE StratumConstantsOK
<1>1. ASSUME NEW w \in Workers, Client(w) PROVE ExclusionInv'
  <2>1. ASSUME NEW to \in Phases, NEW from \in Phases, Move(w, from, to),
               from \in {"off", "idle"}, to \in {"off", "idle", "authorized", "replied"}
        PROVE phase' \in [Workers -> Phases] /\ Miners' = Miners
    BY <2>1, MoveMiners DEF ExclusionInv, Miners
  <2>2. CASE Connect(w)
    BY <2>1, <2>2 DEF ExclusionInv, Connect, Phases
  <2>3. CASE Disconnect(w)
    BY <2>1, <2>3 DEF ExclusionInv, Disconnect, Phases
  <2>4. CASE Submit(w)
    BY <2>1, <2>4 DEF ExclusionInv, Submit, Phases
  <2>5. ASSUME NEW a \in BOOLEAN, Authorize(w, a) PROVE ExclusionInv'
    BY <2>1, <2>5 DEF ExclusionInv, Authorize, Phases
  <2> QED
    BY <1>1, <2>2, <2>3, <2>4, <2>5 DEF Client
<1>2. ASSUME NEW w \in Workers, SendFirstWork(w) PROVE ExclusionInv'
  <2>1. phase' \in [Workers -> Phases] /\ Miners' = Miners
    BY <1>2, MoveMiners DEF ExclusionInv, SendFirstWork, Phases, Miners
  <2> QED
    BY <1>2, <2>1, SendWorkType DEF SendFirstWork, ExclusionInv
<1>3. ASSUME NEW w \in Workers, TriggerSkipped(w) PROVE ExclusionInv'
  <2>1. phase' \in [Workers -> Phases] /\ Miners' = Miners
    BY <1>3, MoveMiners DEF ExclusionInv, TriggerSkipped, Phases, Miners
  <2> QED
    BY <1>3, <2>1 DEF TriggerSkipped, ExclusionInv
<1>4. ASSUME NEW w \in Workers, TryMineBlock(w) PROVE ExclusionInv'
  <2>1. phase' \in [Workers -> Phases] /\ Miners' = Miners \cup {w}
    BY <1>4, MoveMiners DEF ExclusionInv, TryMineBlock, Phases
  <2>2. Miners' = {w}
    BY <1>4, <2>1 DEF TryMineBlock, ExclusionInv
  <2> QED
    BY <1>4, <2>1, <2>2 DEF TryMineBlock, ExclusionInv
<1>5. ASSUME NEW w \in Workers, BlockFound(w) PROVE ExclusionInv'
  <2>1. phase' \in [Workers -> Phases] /\ Miners' = Miners
    BY <1>5, MoveMiners DEF ExclusionInv, BlockFound, Phases, Miners
  <2> QED
    BY <1>5, <2>1, SendWorkType DEF BlockFound, ExclusionInv
<1>6. ASSUME NEW w \in Workers, TryMineBlockEnds(w) PROVE ExclusionInv'
  <2>1. phase' \in [Workers -> Phases] /\ Miners' = Miners \ {w} /\ w \in Miners
    BY <1>6, MoveMiners DEF ExclusionInv, TryMineBlockEnds, Phases, Miners, Move
  <2>2. Miners' = {}
    BY <2>1 DEF ExclusionInv
  <2> QED
    BY <1>6, <2>1, <2>2, Zenon DEF TryMineBlockEnds, ExclusionInv
<1>7. ASSUME NEW w \in Workers, Answer(w) PROVE ExclusionInv'
  <2>1. phase' \in [Workers -> Phases] /\ Miners' = Miners
    BY <1>7, MoveMiners DEF ExclusionInv, Answer, NodeFinds, NodeGivesUp, CallTimesOut, Phases, Miners
  <2> QED
    BY <1>7, <2>1 DEF Answer, NodeFinds, NodeGivesUp, CallTimesOut, ExclusionInv
<1>8. CASE UpdateTemplate \/ AbandonedCallEnds \/ BlockArrives \/ UNCHANGED vars
  BY <1>8 DEF UpdateTemplate, AbandonedCallEnds, BlockArrives, vars, ExclusionInv, Miners
<1> QED
  BY <1>1, <1>2, <1>3, <1>4, <1>5, <1>6, <1>7, <1>8 DEF Next, Handler

LEMMA ExclusionAlways == Spec => []ExclusionInv
<1>1. Init => ExclusionInv
  <2> SUFFICES ASSUME Init PROVE ExclusionInv
    OBVIOUS
  <2>1. Miners = {}
    BY DEF Init, Miners
  <2>2. ~inProgress /\ inProgress \in BOOLEAN
    BY Zenon DEF Init
  <2> QED
    BY <2>1, <2>2, StratumConstantsOK DEF Init, ExclusionInv, Phases
<1> QED
  BY <1>1, ExclusionStep, PTL DEF Spec

\* _try_mine_block: mining_in_progress is set exactly while one handler, and no
\* more, is between the trigger and the finally clause, for any number of
\* connections.
THEOREM MutualExclusion == Spec => []MiningExclusive
<1>1. ExclusionInv => MiningExclusive
  <2>1. \A w : Cardinality({w}) = 1
    BY FS_Singleton, Zenon
  <2> QED
    BY <2>1, FS_EmptySet DEF ExclusionInv, MiningExclusive, Miners
<1> QED
  BY <1>1, ExclusionAlways, PTL

\* _send_work after a block: the worker whose shares found the block is sent work
\* for the node's present tip or nothing, in every step of every handler.
THEOREM FreshWork == Spec => WinnerGetsFreshWork
<1>1. ASSUME ExclusionInv, [Next]_vars, NEW w \in Workers, phase[w] = "found", sent'[w] # sent[w]
      PROVE  sent'[w] = height
  <2>1. ASSUME NEW v \in Workers, SendFirstWork(v) PROVE FALSE
    BY <1>1, <2>1, SendWorkType DEF SendFirstWork, Move
  <2>2. ASSUME NEW v \in Workers, Disconnect(v) PROVE FALSE
    BY <1>1, <2>2 DEF Disconnect, Move, ExclusionInv
  <2>3. PICK v \in Workers : BlockFound(v)
    BY <1>1, <2>1, <2>2 DEF Next, vars, Client, Handler, Answer, Connect, Submit, Authorize,
       TriggerSkipped, TryMineBlock, TryMineBlockEnds, UpdateTemplate, NodeFinds, NodeGivesUp,
       CallTimesOut, AbandonedCallEnds, BlockArrives
  <2> QED
    BY <1>1, <2>3, SendWorkType DEF BlockFound
<1>2. ExclusionInv /\ [Next]_vars =>
        [\A w \in Workers : phase[w] = "found" /\ sent'[w] # sent[w] => sent'[w] = height]_vars
  BY <1>1
<1> QED
  BY <1>2, ExclusionAlways, PTL DEF Spec, WinnerGetsFreshWork

-----------------------------------------------------------------------------
(* Triggers *)

Replied == {w \in Workers : phase[w] = "replied"}

\* The inductive form of LostOnlyByOverlap: without an overlap one answer at most
\* is being written, and the trigger it may still owe is counted on top.
CountInv ==
    /\ accepted \in Nat /\ triggers \in Nat /\ overlapped \in BOOLEAN
    /\ ~overlapped =>
         /\ \A v, w \in Replied : v = w
         /\ triggers + (IF Replied # {} /\ ShareCountReached THEN 1 ELSE 0)
              >= accepted \div SharesPerBlock

\* One more share reaches the next multiple of shares_per_block or no multiple.
LEMMA NextShare ==
    ASSUME NEW a \in Nat, NEW n \in Nat \ {0}
    PROVE  /\ a \div n \in Nat /\ (a + 1) \div n \in Nat
           /\ (a + 1) \div n = IF (a + 1) % n = 0 THEN (a \div n) + 1 ELSE a \div n
OBVIOUS

\* The writes of answers only change when a share is counted or triggers mining.
LEMMA RepliedMoves ==
    ASSUME phase \in [Workers -> Phases], NEW w \in Workers, NEW from \in Phases, NEW to \in Phases,
           Move(w, from, to)
    PROVE  Replied' = (IF to = "replied" THEN Replied \cup {w} ELSE Replied \ {w})
           /\ (w \in Replied <=> from = "replied")
BY MoveMiners DEF Replied

LEMMA CountStep == ExclusionInv /\ CountInv /\ [Next]_vars => CountInv'
<1> SUFFICES ASSUME ExclusionInv, CountInv, [Next]_vars PROVE CountInv'
  OBVIOUS
<1> USE StratumConstantsOK
<1>0. phase \in [Workers -> Phases]
  BY DEF ExclusionInv
<1>1. ASSUME UNCHANGED <<accepted, triggers, overlapped>>, Replied' = Replied PROVE CountInv'
  BY <1>1 DEF CountInv, ShareCountReached
<1>2. ASSUME NEW w \in Workers, Submit(w) PROVE CountInv'
  <2>1. Replied' = Replied \cup {w} /\ accepted' = accepted + 1 /\ triggers' = triggers
    BY <1>0, <1>2, RepliedMoves DEF Submit, Phases
  <2>2. ~overlapped' => ~overlapped /\ Replied = {}
    BY <1>2, Zenon DEF Submit, Replied
  <2>3. accepted' \in Nat /\ triggers' \in Nat
    BY <2>1 DEF CountInv
  <2>4. overlapped' \in BOOLEAN
    BY <1>2, Zenon DEF Submit
  <2>5. ASSUME ~overlapped'
        PROVE  triggers' + (IF ShareCountReached' THEN 1 ELSE 0) >= accepted' \div SharesPerBlock
    <3>1. triggers >= accepted \div SharesPerBlock
      BY <2>2, <2>5 DEF CountInv
    <3>2. accepted \in Nat /\ triggers \in Nat
      BY DEF CountInv
    <3> DEFINE next == (accepted + 1) \div SharesPerBlock
               this == accepted \div SharesPerBlock
               reached == (accepted + 1) % SharesPerBlock = 0
    <3>3. this \in Nat /\ next = IF reached THEN this + 1 ELSE this
      BY <3>2, NextShare, Zenon
    <3>4. ShareCountReached' <=> reached
      BY <2>1, <3>2 DEF ShareCountReached
    <3>5. accepted' \div SharesPerBlock = next
      BY <2>1
    <3> HIDE DEF next, this, reached
    <3> QED
      BY <2>1, <3>1, <3>2, <3>3, <3>4, <3>5 DEF this
  <2> QED
    BY <2>1, <2>2, <2>3, <2>4, <2>5 DEF CountInv
<1>3. ASSUME NEW w \in Workers, TriggerSkipped(w) \/ TryMineBlock(w) PROVE CountInv'
  <2>1. Replied' = Replied \ {w} /\ w \in Replied
    BY <1>0, <1>3, RepliedMoves DEF TriggerSkipped, TryMineBlock, Phases
  <2>2. UNCHANGED <<accepted, overlapped>>
    BY <1>3 DEF TriggerSkipped, TryMineBlock
  <2>3. triggers' = triggers + (IF ShareCountReached THEN 1 ELSE 0)
    BY <1>3 DEF TriggerSkipped, TryMineBlock, CountInv
  <2>5. ASSUME ~overlapped
        PROVE  Replied' = {} /\ triggers' >= accepted \div SharesPerBlock
    BY <2>1, <2>3, <2>5 DEF CountInv
  <2>6. accepted' \in Nat /\ triggers' \in Nat /\ overlapped' \in BOOLEAN
    BY <2>2, <2>3 DEF CountInv
  <2> QED
    BY <2>2, <2>5, <2>6 DEF CountInv
<1>4. ASSUME NEW w \in Workers, NEW from \in Phases, NEW to \in Phases, Move(w, from, to),
             from # "replied", to # "replied"
      PROVE  Replied' = Replied
  BY <1>0, <1>4, RepliedMoves
<1>5. ASSUME NEW w \in Workers, Client(w), ~Submit(w) PROVE CountInv'
  BY <1>1, <1>4, <1>5 DEF Client, Connect, Disconnect, Authorize, Phases
<1>6. ASSUME NEW w \in Workers, SendFirstWork(w) \/ BlockFound(w) \/ TryMineBlockEnds(w) PROVE CountInv'
  BY <1>1, <1>4, <1>6 DEF SendFirstWork, BlockFound, TryMineBlockEnds, Phases
<1>7. ASSUME NEW w \in Workers, Answer(w) PROVE CountInv'
  BY <1>1, <1>4, <1>7 DEF Answer, NodeFinds, NodeGivesUp, CallTimesOut, Phases
<1>8. CASE UpdateTemplate \/ AbandonedCallEnds \/ BlockArrives \/ UNCHANGED vars
  BY <1>1, <1>8 DEF UpdateTemplate, AbandonedCallEnds, BlockArrives, vars, Replied
<1> QED
  BY <1>2, <1>3, <1>5, <1>6, <1>7, <1>8 DEF Next, Handler

\* handle_submit and _try_mine_block: with any number of workers, every
\* shares_per_block accepted shares let a handler through to the mining call,
\* unless a share was counted while the answer to another was being written.
THEOREM TriggersLostByOverlap == Spec => []LostOnlyByOverlap
<1>1. Init => CountInv
  <2> SUFFICES ASSUME Init PROVE CountInv
    OBVIOUS
  <2>1. Replied = {} /\ accepted = 0 /\ triggers = 0
    BY DEF Init, Replied
  <2>2. overlapped \in BOOLEAN
    BY Zenon DEF Init
  <2>3. 0 \div SharesPerBlock = 0
    BY StratumConstantsOK
  <2> QED
    BY <2>1, <2>2, <2>3 DEF CountInv
<1>2. CountInv => LostOnlyByOverlap
  <2> SUFFICES ASSUME CountInv, ~overlapped, \A w \in Workers : phase[w] # "replied"
               PROVE  triggers >= accepted \div SharesPerBlock
    BY DEF LostOnlyByOverlap, TriggeredEveryTime
  <2>1. Replied = {}
    BY DEF Replied
  <2> QED
    BY <2>1 DEF CountInv
<1> QED
  BY <1>1, <1>2, CountStep, ExclusionAlways, PTL DEF Spec
=============================================================================
