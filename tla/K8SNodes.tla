------------------------------- MODULE K8SNodes -------------------------------
(***************************************************************************)
(* K8SNodesController: turns the verdicts of SlurmNodesController into     *)
(* orders to the Rebooter of the node (SlurmNodeDrain, SlurmNodeReboot),   *)
(* takes the orders back once they are carried out, and deletes nodes that *)
(* are ready for replacement or have been NotReady for too long.           *)
(*                                                                         *)
(* A reconciliation decides everything on the node it read at its start,   *)
(* but every condition write reads the cache again.  K8SReconcile is the   *)
(* read, the drain part and the decision of the reboot part; the writes of *)
(* the reboot part follow one by one.                                      *)
(***************************************************************************)
EXTENDS NodeConditions

CONSTANTS DeleteNotReadyNodes, \* flag of the controller
          NotReadyTimeout,     \* in seconds
          IgnoredByLabel       \* the node carries a label that turns drains off

ASSUME K8SNodesAssumption ==
    /\ DeleteNotReadyNodes \in BOOLEAN
    /\ IgnoredByLabel \in BOOLEAN
    /\ NotReadyTimeout \in Nat

VARIABLES k \* the reconciliation in progress

Reconciliation ==
    [pc : {"idle", "needReboot", "clearReboot", "clearDrain", "clearDegraded",
           "notReady"},
     gen : Nat, stamp : Nat, ready : Cond]

IdleReconciliation == [pc |-> "idle", gen |-> 0, stamp |-> 0, ready |-> NoCond]

K8STypeOK == k \in Reconciliation

K8SInit == k = IdleReconciliation

-----------------------------------------------------------------------------
(* The two decisions, on the node n read at the start.                     *)

\* deleteK8SNode: deletion has no precondition and a missing node is no error.
Deleted(gen) == IF Live(gen) THEN [node EXCEPT !.exists = FALSE] ELSE node

DrainCondition(status, reason) ==
    newNodeCondition("SlurmNodeDrain", status, reason, now)

\* Mutant: a drain in progress counts as a finished one.
NoActionUnlessOrdered(n) ==
    \/ IgnoredByLabel
    \/ /\ IsConditionFalseOrEmpty(n.conds["SlurmNodeDrain"])
       /\ ~IsConditionTrue(n.conds["HardwareIssuesSuspected"])
       /\ IsConditionFalseOrEmpty(n.conds["NodeMaintenance"])

NoDrainAction(n) ==
    LET drain == n.conds["SlurmNodeDrain"]
    IN  \/ IgnoredByLabel
        \/ /\ IsConditionFalseOrEmpty(drain)
           /\ ~IsConditionTrue(n.conds["HardwareIssuesSuspected"])
           /\ IsConditionFalseOrEmpty(n.conds["NodeMaintenance"])
        \/ IsConditionTrue(drain) /\ drain.reason # "Drained"

\* The drain condition processDrainCondition writes, when it writes one.
OrderedDrain(n) ==
    IF IsConditionFalseOrEmpty(n.conds["SlurmNodeDrain"])
    THEN DrainCondition("True", "NeedDrain")
    ELSE DrainCondition("False", "Rebooted")

\* Mutant: only suspected hardware issues lead to a replacement.
ReadyOnlyForHardware(n) ==
    /\ IsConditionTrue(n.conds["SlurmNodeDrain"])
    /\ IsConditionTrue(n.conds["HardwareIssuesSuspected"])

ReplacementReady(n) ==
    /\ IsConditionTrue(n.conds["SlurmNodeDrain"])
    /\ IsConditionTrue(n.conds["NodeMaintenance"])

\* The Node object after processDrainCondition, and whether it fails.
processDrainCondition(n) ==
    CASE NoDrainAction(n) -> node
      [] ~NoDrainAction(n) /\ ReplacementReady(n) -> Deleted(n.gen)
      [] OTHER -> setK8SNodeCondition(n.gen, "SlurmNodeDrain", OrderedDrain(n))

drainConditionFails(n) ==
    /\ ~NoDrainAction(n)
    /\ ~ReplacementReady(n)
    /\ setConditionFails(n.gen, "SlurmNodeDrain", OrderedDrain(n))

\* What processRebootCondition is going to do.
RebootDecision(n) ==
    LET reboot == n.conds["SlurmNodeReboot"]
        degraded == n.conds["NodeDegraded"]
    IN  CASE /\ IsConditionFalseOrEmpty(reboot)
             /\ IsConditionFalseOrEmpty(degraded) -> "notReady"
          [] /\ IsConditionFalseOrEmpty(reboot)
             /\ IsConditionTrue(degraded)
             /\ reboot.ltt < degraded.ltt -> "needReboot"
          [] OTHER -> IF reboot.reason = "Rebooted" THEN "clearReboot"
                      ELSE "notReady"

-----------------------------------------------------------------------------

\* The NotReady part only matters for a node that was read as not ready.
Continue(kk) ==
    IF kk.pc = "notReady" /\ (~DeleteNotReadyNodes \/ IsConditionTrue(kk.ready))
    THEN IdleReconciliation ELSE kk

K8SReconcile ==
    /\ k.pc = "idle"
    /\ mcache.exists
    /\ node' = processDrainCondition(mcache)
    /\ k' = IF drainConditionFails(mcache) THEN k
            ELSE Continue([pc |-> RebootDecision(mcache), gen |-> mcache.gen,
                            stamp |-> 0, ready |-> mcache.conds["Ready"]])
    /\ UNCHANGED <<now, mcache, pod>>

\* One write of processRebootCondition; an error ends the reconciliation.
RebootWrite(type, c, kk) ==
    /\ node' = setK8SNodeCondition(k.gen, type, c)
    /\ k' = IF setConditionFails(k.gen, type, c) THEN IdleReconciliation
            ELSE Continue(kk)
    /\ UNCHANGED <<now, mcache, pod>>

OrderReboot ==
    /\ k.pc = "needReboot"
    /\ RebootWrite("SlurmNodeReboot",
                   newNodeCondition("SlurmNodeReboot", "True", "NeedReboot", now),
                   [k EXCEPT !.pc = "notReady"])

\* The three conditions are built, and stamped, before the first is written.
ClearReboot ==
    /\ k.pc = "clearReboot"
    /\ RebootWrite("SlurmNodeReboot",
                   newNodeCondition("SlurmNodeReboot", "False", "Rebooted", now),
                   [k EXCEPT !.pc = "clearDrain", !.stamp = now])

ClearDrain ==
    /\ k.pc = "clearDrain"
    /\ RebootWrite("SlurmNodeDrain", DrainCondition("False", "Rebooted"),
                   [k EXCEPT !.pc = "clearDegraded"])

\* Mutant: status and reason are swapped.
ClearDegradedSwapped ==
    /\ k.pc = "clearDegraded"
    /\ RebootWrite("NodeDegraded",
                   newNodeCondition("NodeDegraded", "Rebooted", "False", k.stamp),
                   [k EXCEPT !.pc = "notReady", !.stamp = 0])

ClearDegraded ==
    /\ k.pc = "clearDegraded"
    /\ RebootWrite("NodeDegraded",
                   newNodeCondition("NodeDegraded", "False", "Rebooted", k.stamp),
                   [k EXCEPT !.pc = "notReady", !.stamp = 0])

processNotReadyCondition ==
    /\ k.pc = "notReady"
    /\ node' = IF /\ k.ready.status # ""
                  /\ now >= k.ready.ltt + NotReadyTimeout
               THEN Deleted(k.gen) ELSE node
    /\ k' = IdleReconciliation
    /\ UNCHANGED <<now, mcache, pod>>

\* A call fails, or the manager restarts, between two writes.
K8SReconcileFails ==
    /\ k.pc # "idle"
    /\ k' = IdleReconciliation
    /\ UNCHANGED boardVars

K8SController ==
    \/ K8SReconcile
    \/ OrderReboot
    \/ ClearReboot
    \/ ClearDrain
    \/ ClearDegraded
    \/ processNotReadyCondition

=============================================================================
