-------------------------- MODULE LedgerPowerLoss --------------------------
(***************************************************************************)
(* The tree ledger on a file system that loses power.  SaveLocked fsyncs   *)
(* the temp file and renames it, but never fsyncs the directory, so the    *)
(* rename is visible at once and durable only when the file system writes  *)
(* the directory back.                                                     *)
(***************************************************************************)
EXTENDS MCTreeLedger

VARIABLE durable   \* durable[d]: the directory entries that survive a power loss

\* The file system commits the directory entry of one ledger file.
WriteBack(d, r) ==
    /\ durable' = [durable EXCEPT ![d][r] = ledger[d][r]]
    /\ UNCHANGED vars

\* Power fails: the process dies and renames not yet written back are undone.
PowerLoss(d) ==
    /\ ledger' = [ledger EXCEPT ![d] = durable[d]]
    /\ Idle(d)
    /\ UNCHANGED <<instanceId, minted, sentinel, held, built, online, released, durable>>

InitPower == Init /\ durable = ledger

NextPower ==
    \/ Next /\ UNCHANGED durable
    \/ \E d \in Datadirs, r \in Roots : WriteBack(d, r)
    \/ \E d \in Datadirs : PowerLoss(d)

SpecPower == InitPower /\ [][NextPower]_<<vars, durable>>

\* What the comment in SaveLocked states: a crash around the rename never lets a
\* restart re-claim a leaf that was already handed out.
RestartNeverReclaims == NoLeafReuse
=============================================================================
