------------------------------ MODULE Stratum ------------------------------
(***************************************************************************)
(* The stratum server, stratum_server.py: one asyncio loop with a handler  *)
(* per connection and the task update_template.  A handler runs without    *)
(* interruption between two awaits that may suspend it: the drain of a     *)
(* write, which lasts until the client reads or is gone and has no         *)
(* timeout, and the wait for generatetoaddress in the executor.            *)
(* template_lock is never held across such an await, so it never blocks.   *)
(* A job is modelled by the height of the block template it was made from. *)
(* Statistics that steer nothing are left out.                             *)
(***************************************************************************)
EXTENDS Integers, FiniteSets

CONSTANTS
    Workers,         \* connections
    SharesPerBlock,  \* shares_per_block
    PoolAddress,     \* the pool has an address
    MaxShares,       \* bound: accepted shares
    MaxHeight,       \* bound: height of the node's chain
    MaxAbandoned     \* bound: calls running at the node after their timeout

NoJob == -1

ASSUME StratumConstantsOK ==
    /\ SharesPerBlock \in Nat \ {0} /\ PoolAddress \in BOOLEAN
    /\ MaxShares \in Nat /\ MaxHeight \in Nat /\ MaxAbandoned \in Nat

VARIABLES
    phase,        \* phase[w]: where the handler of connection w is
    address,      \* address[w]: the worker's entry has a miner_address
    sent,         \* sent[w]: the job last sent to w
    accepted,     \* self.accepted
    triggers,     \* history: times the share count let a handler pass
    overlapped,   \* history: a share was counted while another was being answered
    inProgress,   \* self.mining_in_progress
    currentJob,   \* self.current_job
    height,       \* height of the node's chain
    abandoned     \* generatetoaddress calls at the node that nobody waits for

vars == <<phase, address, sent, accepted, triggers, overlapped, inProgress, currentJob,
          height, abandoned>>

Phases == {"off", "idle", "authorized", "replied", "mining", "found", "closing", "notified"}

Init ==
    /\ phase = [w \in Workers |-> "off"]
    /\ address = [w \in Workers |-> FALSE]
    /\ sent = [w \in Workers |-> NoJob]
    /\ accepted = 0 /\ triggers = 0 /\ overlapped = FALSE
    /\ inProgress = FALSE
    /\ currentJob \in {NoJob, 0}
    /\ height = 0
    /\ abandoned = 0

-----------------------------------------------------------------------------
Move(w, from, to) == phase[w] = from /\ phase' = [phase EXCEPT ![w] = to]

\* get_current_job when the server's job is cur, and what _send_work then does:
\* the template RPC may fail, and without a job nothing is sent.
SendWork(w, cur) ==
    /\ currentJob' \in IF cur = NoJob THEN {NoJob, height} ELSE {cur}
    /\ sent' = IF currentJob' = NoJob THEN sent ELSE [sent EXCEPT ![w] = currentJob']

Connect(w) ==
    /\ Move(w, "off", "idle")
    /\ UNCHANGED <<address, sent, accepted, triggers, overlapped, inProgress, currentJob, height, abandoned>>

\* End of stream or ten minutes without a line.
Disconnect(w) ==
    /\ Move(w, "idle", "off")
    /\ address' = [address EXCEPT ![w] = FALSE]
    /\ sent' = [sent EXCEPT ![w] = NoJob]
    /\ UNCHANGED <<accepted, triggers, overlapped, inProgress, currentJob, height, abandoned>>

\* mining.authorize, up to the write of the difficulty.
Authorize(w, a) ==
    /\ Move(w, "idle", "authorized")
    /\ address' = [address EXCEPT ![w] = a]
    /\ UNCHANGED <<sent, accepted, triggers, overlapped, inProgress, currentJob, height, abandoned>>

SendFirstWork(w) ==
    /\ Move(w, "authorized", "idle")
    /\ SendWork(w, currentJob)
    /\ UNCHANGED <<address, accepted, triggers, overlapped, inProgress, height, abandoned>>

\* mining.submit with a well-formed nonce, up to the write of the answer.
Submit(w) ==
    /\ accepted < MaxShares
    /\ Move(w, "idle", "replied")
    /\ accepted' = accepted + 1
    /\ overlapped' = (overlapped \/ \E v \in Workers : phase[v] = "replied")
    /\ UNCHANGED <<address, sent, triggers, inProgress, currentJob, height, abandoned>>

ShareCountReached == accepted > 0 /\ accepted % SharesPerBlock = 0

\* _try_mine_block returns at once: the count is not reached, another attempt
\* is under way, or there is no address to mine to.
TriggerSkipped(w) ==
    /\ Move(w, "replied", "idle")
    /\ \/ ~ShareCountReached
       \/ inProgress
       \/ ~address[w] /\ ~PoolAddress
    /\ triggers' = IF ShareCountReached THEN triggers + 1 ELSE triggers
    /\ UNCHANGED <<address, sent, accepted, overlapped, inProgress, currentJob, height, abandoned>>

\* Mutant: the flag is not looked at.
TryMineBlockAnyway(w) ==
    /\ Move(w, "replied", "mining")
    /\ ShareCountReached
    /\ inProgress' = TRUE
    /\ triggers' = triggers + 1
    /\ UNCHANGED <<address, sent, accepted, overlapped, currentJob, height, abandoned>>

\* _try_mine_block up to the await of generatetoaddress; an address that the
\* worker and the pool lack may come from the node's wallet.
TryMineBlock(w) ==
    /\ Move(w, "replied", "mining")
    /\ ShareCountReached /\ ~inProgress
    /\ inProgress' = TRUE
    /\ triggers' = triggers + 1
    /\ UNCHANGED <<address, sent, accepted, overlapped, currentJob, height, abandoned>>

\* Mutant: the job of the block that was just found is kept.
BlockFoundKeepsJob(w) ==
    /\ SendWork(w, currentJob)
    /\ Move(w, "found", IF currentJob' = NoJob THEN "closing" ELSE "notified")
    /\ UNCHANGED <<address, accepted, triggers, overlapped, inProgress, height, abandoned>>

\* The await returns a hash: the job is dropped and the worker sent a new one,
\* which the handler waits for its client to take.  Without a job to send it goes
\* on to the finally clause.
BlockFound(w) ==
    /\ SendWork(w, NoJob)
    /\ Move(w, "found", IF currentJob' = NoJob THEN "closing" ELSE "notified")
    /\ UNCHANGED <<address, accepted, triggers, overlapped, inProgress, height, abandoned>>

\* Mutant: the flag is reset only after new work has been sent.
TryMineBlockEndsOnSuccess(w) ==
    /\ Move(w, "notified", "idle") \/ Move(w, "closing", "idle")
    /\ inProgress' = (inProgress /\ phase[w] = "closing")
    /\ UNCHANGED <<address, sent, accepted, triggers, overlapped, currentJob, height, abandoned>>

\* The finally clause.
TryMineBlockEnds(w) ==
    /\ Move(w, "notified", "idle") \/ Move(w, "closing", "idle")
    /\ inProgress' = FALSE
    /\ UNCHANGED <<address, sent, accepted, triggers, overlapped, currentJob, height, abandoned>>

\* One round of update_template; its RPC may fail, which changes nothing.
UpdateTemplate ==
    /\ currentJob' = height
    /\ UNCHANGED <<phase, address, sent, accepted, triggers, overlapped, inProgress, height, abandoned>>

-----------------------------------------------------------------------------
(* The node, and the RPC's timeout of 180 seconds *)

NodeFinds(w) ==
    /\ height < MaxHeight
    /\ Move(w, "mining", "found")
    /\ height' = height + 1
    /\ UNCHANGED <<address, sent, accepted, triggers, overlapped, inProgress, currentJob, abandoned>>

\* No hashes, or an error.
NodeGivesUp(w) ==
    /\ Move(w, "mining", "closing")
    /\ UNCHANGED <<address, sent, accepted, triggers, overlapped, inProgress, currentJob, height, abandoned>>

CallTimesOut(w) ==
    /\ abandoned < MaxAbandoned
    /\ Move(w, "mining", "closing")
    /\ abandoned' = abandoned + 1
    /\ UNCHANGED <<address, sent, accepted, triggers, overlapped, inProgress, currentJob, height>>

AbandonedCallEnds ==
    /\ abandoned > 0
    /\ abandoned' = abandoned - 1
    /\ height' \in {height, height + 1} /\ height' <= MaxHeight
    /\ UNCHANGED <<phase, address, sent, accepted, triggers, overlapped, inProgress, currentJob>>

\* A block from elsewhere.
BlockArrives ==
    /\ height < MaxHeight
    /\ height' = height + 1
    /\ UNCHANGED <<phase, address, sent, accepted, triggers, overlapped, inProgress, currentJob, abandoned>>

Answer(w) == NodeFinds(w) \/ NodeGivesUp(w) \/ CallTimesOut(w)

Handler(w) ==
    \/ SendFirstWork(w) \/ TriggerSkipped(w) \/ TryMineBlock(w)
    \/ BlockFound(w) \/ TryMineBlockEnds(w)

Client(w) ==
    Connect(w) \/ Disconnect(w) \/ Submit(w) \/ \E a \in BOOLEAN : Authorize(w, a)

Next ==
    \/ \E w \in Workers : Client(w) \/ Handler(w) \/ Answer(w)
    \/ UpdateTemplate \/ AbandonedCallEnds \/ BlockArrives

\* The loop runs every handler that waits for nobody, the calls are answered or
\* time out, and the template task goes on.  The other steps of a handler follow
\* a drain, and are the client's to allow.
Fairness ==
    /\ \A w \in Workers :
         /\ WF_vars(BlockFound(w))
         /\ WF_vars(phase[w] = "closing" /\ TryMineBlockEnds(w))
         /\ WF_vars(Answer(w))
    /\ WF_vars(UpdateTemplate)

Spec == Init /\ [][Next]_vars /\ Fairness

-----------------------------------------------------------------------------
(* Properties *)

\* Every variable has its type, and mining_in_progress is set exactly while one
\* handler, and no more, is between the trigger and the finally clause.
MiningExclusive ==
    /\ phase \in [Workers -> Phases] /\ address \in [Workers -> BOOLEAN]
    /\ sent \in [Workers -> {NoJob} \cup 0..MaxHeight] /\ currentJob \in {NoJob} \cup 0..MaxHeight
    /\ Cardinality({w \in Workers : phase[w] \in {"mining", "found", "closing", "notified"}})
         = IF inProgress THEN 1 ELSE 0

\* The worker whose shares found a block is never sent work for the old tip.
WinnerGetsFreshWork ==
    [][\A w \in Workers : phase[w] = "found" /\ sent'[w] # sent[w] => sent'[w] = height]_vars

\* The drain of the new work in _try_mine_block, with the flag still set.
AwaitsFinder == \E w \in Workers : phase[w] = "notified"

\* Every attempt to mine ends, on every path of _try_mine_block, so that later
\* shares can trigger another: unless the client of a finder never again reads
\* what it is sent and never goes away.
MiningEnds == <>[]AwaitsFinder \/ (inProgress ~> ~inProgress)

\* Every attempt to mine ends.  Does not hold: drain has no timeout, and is
\* awaited before the finally clause.
MiningAlwaysEnds == inProgress ~> ~inProgress

\* _try_mine_block is let through after every SharesPerBlock accepted shares: once
\* all answers are written, it has passed the count at least as often as it was
\* reached.  Does not hold when another share is counted during the write.
TriggeredEveryTime ==
    (\A w \in Workers : phase[w] # "replied") => triggers >= accepted \div SharesPerBlock

\* It takes two workers to lose a trigger: as long as no share is counted during
\* the write of the answer to another, every SharesPerBlock shares let a handler
\* through.
LostOnlyByOverlap == overlapped \/ TriggeredEveryTime

\* The node is never given two mining calls to run at the same time.
\* Does not hold once a call has timed out.
SoleMiningCall ==
    abandoned + Cardinality({w \in Workers : phase[w] = "mining"}) <= 1

\* New work is sent to all miners: one that has been sent work and stays
\* connected is sent work for the node's latest height.  Does not hold for those
\* that did not find the block.
NewWorkForAll ==
    \A w \in Workers : <>[](sent[w] # NoJob) => <>[](sent[w] = height)
=============================================================================
