-------------------------- MODULE NodeRecoveryProofs --------------------------
(***************************************************************************)
(* Proofs about NodeRecovery, for all worker pods, bounds and flags.       *)
(***************************************************************************)
EXTENDS NodeRecovery, TLAPS

-----------------------------------------------------------------------------
(* What the operators on Node objects return.                              *)

\* Every condition newNodeCondition builds is a condition.
LEMMA NewConditionType ==
    ASSUME NEW type, NEW status \in {"", "True", "False"},
           NEW reason \in CondReason, NEW time \in Nat
    PROVE  newNodeCondition(type, status, reason, time) \in Cond
BY DEF newNodeCondition, Cond

\* A node that has just joined is a Node object.
LEMMA FreshNodeType ==
    ASSUME NEW gen \in Nat, NEW time \in Nat
    PROVE  FreshNode(gen, time) \in NodeObject
<1>1. NoCond \in Cond
  BY DEF NoCond, Cond, CondReason
<1>2. newNodeCondition("Ready", "True", "External", time) \in Cond
  BY NewConditionType DEF CondReason
<1>3. [t \in CondType |-> IF t = "Ready"
                          THEN newNodeCondition(t, "True", "External", time)
                          ELSE NoCond] \in [CondType -> Cond]
  BY <1>1, <1>2
<1> QED
  BY <1>3 DEF FreshNode, NodeObject

\* Setting a condition keeps a Node object a Node object.
LEMMA ConditionedType ==
    ASSUME NEW n \in NodeObject, NEW type \in CondType, NEW c \in Cond
    PROVE  Conditioned(n, type, c) \in NodeObject
<1> DEFINE last == IF n.conds[type].status # "" THEN n.maintLast
                   ELSE CASE type = "MaintenanceScheduled" -> TRUE
                          [] type = "HardwareIssuesSuspected" -> FALSE
                          [] OTHER -> n.maintLast
<1>1. last \in BOOLEAN
  BY DEF NodeObject
<1>2. [n.conds EXCEPT ![type] = c] \in [CondType -> Cond]
  BY DEF NodeObject
<1>3. Conditioned(n, type, c) =
        [n EXCEPT !.conds = [n.conds EXCEPT ![type] = c], !.maintLast = last]
  BY DEF Conditioned, NodeObject
<1> HIDE DEF last
<1> QED
  BY <1>1, <1>2, <1>3, Zenon DEF NodeObject

\* A merge patch changes the conditions of the live node and nothing else.
LEMMA MergePatchedType ==
    ASSUME node \in NodeObject, NEW n \in NodeObject
    PROVE  /\ MergePatched(n) \in NodeObject
           /\ MergePatched(n).unschedulable = node.unschedulable
           /\ MergePatched(n).tainted = node.tainted
BY Zenon DEF MergePatched, NodeObject

\* setK8SNodeCondition keeps the node's type and never opens or closes it.
LEMMA SetConditionType ==
    ASSUME node \in NodeObject, mcache \in NodeObject,
           NEW gen, NEW type \in CondType, NEW c \in Cond
    PROVE  /\ setK8SNodeCondition(gen, type, c) \in NodeObject
           /\ setK8SNodeCondition(gen, type, c).unschedulable = node.unschedulable
           /\ setK8SNodeCondition(gen, type, c).tainted = node.tainted
<1>1. Conditioned(mcache, type, c) \in NodeObject
  BY ConditionedType, Zenon
<1> QED
  BY <1>1, MergePatchedType DEF setK8SNodeCondition

-----------------------------------------------------------------------------
(* Types: SlurmNodesController.                                            *)

\* A drain or an undrain keeps the Slurm nodes' type.
LEMMA DrainType ==
    ASSUME slurm \in [Workers -> SlurmNode], now \in Nat,
           NEW ws, NEW reason \in SlurmReason, DrainSlurmNodes(ws, reason)
    PROVE  slurm' \in [Workers -> SlurmNode]
<1>1. PICK moved : slurm' = [w \in Workers |->
                    IF w \in ws
                    THEN [slurm[w] EXCEPT
                            !.drain = TRUE, !.reason = reason,
                            !.changedAt = IF \/ w \in moved
                                             \/ slurm[w].reason # reason
                                             \/ ~slurm[w].drain
                                          THEN now ELSE @]
                    ELSE slurm[w]]
  BY Zenon DEF DrainSlurmNodes
<1> SUFFICES ASSUME NEW w \in Workers
             PROVE  slurm'[w] \in SlurmNode
  BY <1>1, Zenon
<1>2. slurm[w] \in SlurmNode
  OBVIOUS
<1> QED
  BY <1>1, <1>2, Zenon DEF SlurmNode

LEMMA UndrainType ==
    ASSUME slurm \in [Workers -> SlurmNode], NEW w \in Workers,
           undrainSlurmNode(w)
    PROVE  slurm' \in [Workers -> SlurmNode]
<1>1. [slurm[w] EXCEPT !.drain = FALSE, !.reason = "", !.changedAt = 0] \in SlurmNode
  BY DEF SlurmNode, SlurmReason
<1>2. slurm' = [slurm EXCEPT ![w] = [slurm[w] EXCEPT !.drain = FALSE, !.reason = "",
                                                    !.changedAt = 0]]
  BY DEF undrainSlurmNode
<1> QED
  BY <1>1, <1>2

\* The passes a step can leave behind are passes.
LEMMA PassType ==
    ASSUME slurm \in [Workers -> SlurmNode], s \in Passes
    PROVE  /\ IdlePass \in Passes
           /\ Listing \in Passes
           /\ \A queue \in SUBSET Workers : Continued(queue) \in Passes
           /\ \A w \in Workers : Dequeued(w) \in Passes
<1>1. UnknownSlurmNode \in SlurmNode
  BY DEF UnknownSlurmNode, SlurmNode, SlurmReason
<1>2. IdlePass \in Passes
  BY <1>1 DEF IdlePass, Passes
<1>3. Listing \in Passes
  BY <1>1, <1>2 DEF Listing, IdlePass, Passes, findDegradedNodes
<1>4. ASSUME NEW queue \in SUBSET Workers
      PROVE  Continued(queue) \in Passes
  BY <1>1, <1>2 DEF Continued, Passes
<1>5. ASSUME NEW w \in Workers PROVE Dequeued(w) \in Passes
  BY <1>4 DEF Dequeued, Passes
<1> QED
  BY <1>2, <1>3, <1>4, <1>5

\* What a step of SlurmNodesController leaves behind: it may set conditions of
\* the node but never closes, opens or deletes it, nor moves a pod.
SlurmEffect ==
    /\ SlurmTypeOK'
    /\ node' \in NodeObject
    /\ node'.unschedulable = node.unschedulable
    /\ node'.tainted = node.tainted
    /\ UNCHANGED <<now, mcache, pod>>

LEMMA ProcessDegradedEffect ==
    ASSUME BoardTypeOK, SlurmTypeOK, NEW w \in Workers, ProcessDegraded(w)
    PROVE  SlurmEffect
<1> USE DEF BoardTypeOK, SlurmTypeOK
<1>1. /\ s.listed[w] \in SlurmNode /\ w \in s.queue
      /\ UNCHANGED <<now, mcache, pod>>
  BY DEF ProcessDegraded, Passes
<1>2. ASSUME Skip(w) PROVE SlurmEffect
  BY <1>1, <1>2, PassType DEF Skip, SlurmEffect
<1>3. ASSUME Undrain(w) PROVE SlurmEffect
  BY <1>1, <1>3, PassType, UndrainType DEF Undrain, SlurmEffect
<1>4. ASSUME processKillTaskFailed(w, mcache) PROVE SlurmEffect
  <2>1. ASSUME /\ DrainSlurmNodes(OnNode(mcache.gen), "NodeReboot")
               /\ s' = [s EXCEPT !.pc = "drained", !.stamp = now,
                                 !.gen = mcache.gen, !.queue = @ \ {w}]
               /\ UNCHANGED node
        PROVE  SlurmEffect
    <3>1. s' \in Passes
      BY <2>1, Zenon DEF Passes, NodeObject
    <3>2. slurm' \in [Workers -> SlurmNode]
      BY <2>1, DrainType DEF SlurmReason
    <3> QED
      BY <1>1, <2>1, <3>1, <3>2 DEF SlurmEffect
  <2> QED
    BY <1>2, <1>3, <1>4, <2>1 DEF processKillTaskFailed
<1>5. ASSUME processSlurmNodeMaintenance(w, mcache) PROVE SlurmEffect
  BY <1>2, <1>3, <1>5 DEF processSlurmNodeMaintenance
<1>6. ASSUME processSetUnhealthy(w, mcache) PROVE SlurmEffect
  <2> DEFINE c == newNodeCondition("HardwareIssuesSuspected", "True",
                                   "GPUHealthCheckFailed", now)
  <2>1. c \in Cond
    BY NewConditionType DEF CondReason
  <2>2. ASSUME node' = node \/ node' = setK8SNodeCondition(mcache.gen,
                                          "HardwareIssuesSuspected", c),
               s' = Dequeued(w), UNCHANGED slurm
        PROVE  SlurmEffect
    <3> HIDE DEF c
    <3>1. "HardwareIssuesSuspected" \in CondType
      BY DEF CondType
    <3> QED
      BY <1>1, <2>1, <2>2, <3>1, PassType, SetConditionType DEF SlurmEffect
  <2> QED
    BY <1>2, <1>3, <1>6, <2>2 DEF processSetUnhealthy
<1> QED
  BY <1>2, <1>4, <1>5, <1>6 DEF ProcessDegraded

LEMMA SlurmControllerEffect ==
    ASSUME BoardTypeOK, SlurmTypeOK, SlurmController
    PROVE  SlurmEffect
<1> USE DEF BoardTypeOK, SlurmTypeOK
<1>1. CASE SlurmReconcile
  <2>1. CASE MaintenanceNeeded
    <3>1. /\ DrainSlurmNodes(OnNode(node.gen), "NodeReplacement")
          /\ s' = [IdlePass EXCEPT !.pc = "maintenance", !.gen = node.gen]
      BY <1>1, <2>1 DEF SlurmReconcile
    <3>2. slurm' \in [Workers -> SlurmNode]
      BY <3>1, DrainType DEF SlurmReason
    <3>3. s' \in Passes
      BY <3>1, PassType, Zenon DEF Passes, NodeObject
    <3> QED
      BY <1>1, <3>2, <3>3 DEF SlurmReconcile, SlurmEffect, boardVars
  <2>2. CASE ~MaintenanceNeeded
    BY <1>1, <2>2, PassType DEF SlurmReconcile, SlurmEffect, boardVars
  <2> QED
    BY <2>1, <2>2
<1>2. CASE MaintenanceDrained
  <2> DEFINE c == newNodeCondition("NodeMaintenance", "True", "Draining", now)
  <2>1. c \in Cond
    BY NewConditionType DEF CondReason
  <2>2. \/ node' = node
        \/ node' = setK8SNodeCondition(s.gen, "NodeMaintenance", c)
    BY <1>2 DEF MaintenanceDrained
  <2>3. s' \in Passes
    <3>1. PICK pc \in {"idle", "list"} : s' = [IdlePass EXCEPT !.pc = pc]
      BY <1>2, Zenon DEF MaintenanceDrained
    <3>2. IdlePass \in Passes
      BY PassType, Zenon
    <3> QED
      BY <3>1, <3>2, SMTT(30) DEF Passes
  <2> HIDE DEF c
  <2>4. "NodeMaintenance" \in CondType
    BY DEF CondType
  <2>5. UNCHANGED <<now, mcache, pod, slurm>>
    BY <1>2 DEF MaintenanceDrained
  <2> QED
    BY <2>1, <2>2, <2>3, <2>4, <2>5, SetConditionType DEF SlurmEffect
<1>3. CASE FindDegraded
  BY <1>3, PassType DEF FindDegraded, SlurmEffect, boardVars
<1>4. CASE \E w \in Workers : ProcessDegraded(w)
  BY <1>4, ProcessDegradedEffect
<1>5. CASE DegradedDrained
  <2> DEFINE c == newNodeCondition("NodeDegraded", "True", "NeedReboot", s.stamp)
  <2>1. c \in Cond
    BY NewConditionType DEF CondReason, Passes
  <2>2. \/ node' = node
        \/ node' = setK8SNodeCondition(s.gen, "NodeDegraded", c)
    BY <1>5 DEF DegradedDrained
  <2>3. s' \in Passes
    BY <1>5, PassType DEF DegradedDrained, Passes
  <2> HIDE DEF c
  <2>4. "NodeDegraded" \in CondType
    BY DEF CondType
  <2>5. UNCHANGED <<now, mcache, pod, slurm>>
    BY <1>5 DEF DegradedDrained
  <2> QED
    BY <2>1, <2>2, <2>3, <2>4, <2>5, SetConditionType DEF SlurmEffect
<1> QED
  BY <1>1, <1>2, <1>3, <1>4, <1>5 DEF SlurmController

-----------------------------------------------------------------------------
(* Types: K8SNodesController.                                              *)

\* K8SNodesController may set conditions of the node and delete it, but never
\* closes or opens it, nor moves a pod.
K8SEffect ==
    /\ K8STypeOK'
    /\ node' \in NodeObject
    /\ node'.unschedulable = node.unschedulable
    /\ node'.tainted = node.tainted
    /\ UNCHANGED <<now, mcache, pod>>

LEMMA DeletedType ==
    ASSUME node \in NodeObject, NEW gen
    PROVE  /\ Deleted(gen) \in NodeObject
           /\ Deleted(gen).unschedulable = node.unschedulable
           /\ Deleted(gen).tainted = node.tainted
BY Zenon DEF Deleted, NodeObject

LEMMA ContinueType ==
    ASSUME NEW kk \in Reconciliation
    PROVE  IdleReconciliation \in Reconciliation /\ Continue(kk) \in Reconciliation
<1>1. NoCond \in Cond
  BY DEF NoCond, Cond, CondReason
<1> QED
  BY <1>1 DEF Continue, IdleReconciliation, Reconciliation

\* One write of the reboot part.
LEMMA RebootWriteEffect ==
    ASSUME BoardTypeOK, K8STypeOK, NEW type \in CondType, NEW c \in Cond,
           NEW kk \in Reconciliation, RebootWrite(type, c, kk)
    PROVE  K8SEffect
BY SetConditionType, ContinueType
   DEF RebootWrite, K8SEffect, K8STypeOK, BoardTypeOK

LEMMA K8SControllerEffect ==
    ASSUME BoardTypeOK, K8STypeOK, K8SController
    PROVE  K8SEffect
<1> USE DEF BoardTypeOK, K8STypeOK
<1>0. /\ {"SlurmNodeDrain", "SlurmNodeReboot", "NodeDegraded"} \subseteq CondType
      /\ {"NeedDrain", "NeedReboot", "Rebooted"} \subseteq CondReason
      /\ k.stamp \in Nat
  BY DEF CondType, CondReason, Reconciliation
<1>1. CASE K8SReconcile
  <2>1. OrderedDrain(mcache) \in Cond
    BY <1>0, NewConditionType DEF OrderedDrain, DrainCondition
  <2>2. /\ node' \in NodeObject
        /\ node'.unschedulable = node.unschedulable
        /\ node'.tainted = node.tainted
    <3>1. \/ node' = node
          \/ node' = Deleted(mcache.gen)
          \/ node' = setK8SNodeCondition(mcache.gen, "SlurmNodeDrain",
                                         OrderedDrain(mcache))
      BY <1>1 DEF K8SReconcile, processDrainCondition
    <3> QED
      BY <1>0, <2>1, <3>1, DeletedType, SetConditionType
  <2>3. k' \in Reconciliation
    <3> DEFINE kk == [pc |-> RebootDecision(mcache), gen |-> mcache.gen,
                      stamp |-> 0, ready |-> mcache.conds["Ready"]]
    <3>1. RebootDecision(mcache) \in {"needReboot", "clearReboot", "notReady"}
      BY DEF RebootDecision
    <3>2. mcache.conds["Ready"] \in Cond
      BY DEF NodeObject, CondType
    <3>3. kk \in Reconciliation
      BY <3>1, <3>2 DEF Reconciliation, NodeObject
    <3>4. k' = k \/ k' = Continue(kk)
      BY <1>1 DEF K8SReconcile
    <3> QED
      BY <3>3, <3>4, ContinueType
  <2> QED
    BY <1>1, <2>2, <2>3 DEF K8SReconcile, K8SEffect
<1>2. CASE OrderReboot
  <2>1. [k EXCEPT !.pc = "notReady"] \in Reconciliation
    BY DEF Reconciliation
  <2>2. newNodeCondition("SlurmNodeReboot", "True", "NeedReboot", now) \in Cond
    BY <1>0, NewConditionType
  <2> QED
    BY <1>0, <1>2, <2>1, <2>2, RebootWriteEffect DEF OrderReboot
<1>3. CASE ClearReboot
  <2>1. [k EXCEPT !.pc = "clearDrain", !.stamp = now] \in Reconciliation
    BY Zenon DEF Reconciliation
  <2>2. newNodeCondition("SlurmNodeReboot", "False", "Rebooted", now) \in Cond
    BY <1>0, NewConditionType
  <2> QED
    BY <1>0, <1>3, <2>1, <2>2, RebootWriteEffect DEF ClearReboot
<1>4. CASE ClearDrain
  <2>1. [k EXCEPT !.pc = "clearDegraded"] \in Reconciliation
    BY DEF Reconciliation
  <2>2. DrainCondition("False", "Rebooted") \in Cond
    BY <1>0, NewConditionType DEF DrainCondition
  <2> QED
    BY <1>0, <1>4, <2>1, <2>2, RebootWriteEffect DEF ClearDrain
<1>5. CASE ClearDegraded
  <2>1. [k EXCEPT !.pc = "notReady", !.stamp = 0] \in Reconciliation
    BY Zenon DEF Reconciliation
  <2>2. newNodeCondition("NodeDegraded", "False", "Rebooted", k.stamp) \in Cond
    BY <1>0, NewConditionType
  <2> QED
    BY <1>0, <1>5, <2>1, <2>2, RebootWriteEffect DEF ClearDegraded
<1>6. CASE processNotReadyCondition
  <2>1. node' = node \/ node' = Deleted(k.gen)
    BY <1>6 DEF processNotReadyCondition
  <2>2. k' = IdleReconciliation /\ UNCHANGED <<now, mcache, pod>>
    BY <1>6 DEF processNotReadyCondition
  <2> QED
    BY <2>1, <2>2, DeletedType, ContinueType DEF K8SEffect
<1> QED
  BY <1>1, <1>2, <1>3, <1>4, <1>5, <1>6 DEF K8SController

-----------------------------------------------------------------------------
(* Types and the closed node: the Rebooter.                                *)

LEMMA IdleRebooterIsRun ==
    /\ IdleRebooter \in RebooterRun
    /\ IdleRebooter.pc = "idle"
<1>1. FreshNode(0, 0) \in NodeObject
  BY FreshNodeType
<1> QED
  BY <1>1 DEF IdleRebooter, RebooterRun, RebooterStep

\* The calls come in the order cordon, taint, check for pods, Drained condition,
\* Rebooting condition, reboot.
LEMMA AfterOrder ==
    ASSUME r.pc \in RebooterStep \ {"idle", "reboot"}
    PROVE  /\ After(r.pc) \in RebooterStep
           /\ After(r.pc) = "taint" => r.pc = "cordon"
           /\ After(r.pc) = "evicted" => r.pc = "taint"
           /\ After(r.pc) = "setDrained" => r.pc = "evicted"
           /\ After(r.pc) = "setRebooting" => r.pc = "setDrained"
           /\ After(r.pc) = "reboot" => r.pc = "setRebooting"
BY ZenonT(40) DEF After, RebooterStep, ConditionStep

LEMMA ProceedType ==
    ASSUME r \in RebooterRun, r.pc \in RebooterStep \ {"idle", "reboot"}, Proceed
    PROVE  r' \in RebooterRun /\ r'.pc = After(r.pc)
<1>1. After(r.pc) \in RebooterStep
  BY AfterOrder
<1>2. IdleRebooter.body \in NodeObject
  BY IdleRebooterIsRun DEF RebooterRun
<1> QED
  BY <1>1, <1>2, IdleRebooterIsRun, Zenon DEF Proceed, RebooterRun

LEMMA GetActionsType ==
    ASSUME NEW n \in NodeObject
    PROVE  /\ GetActions(n) \in RebooterRun
           /\ GetActions(n).pc \in {"idle", "uncordon", "untaint", "setRebooted",
                                    "setDraining"}
<1> DEFINE drain == IsConditionTrue(n.conds["SlurmNodeDrain"])
           run(pc) == [IdleRebooter EXCEPT !.pc = pc, !.drain = drain]
<1>1. drain \in BOOLEAN
  BY DEF IsConditionTrue
<1>2. ASSUME NEW pc \in RebooterStep
      PROVE  /\ run(pc) \in RebooterRun /\ run(pc).pc = pc
             /\ [run(pc) EXCEPT !.drain = TRUE, !.reboot = TRUE] \in RebooterRun
             /\ [run(pc) EXCEPT !.drain = TRUE, !.reboot = TRUE].pc = pc
  <2> HIDE DEF drain
  <2> QED
    BY <1>1, IdleRebooterIsRun, Zenon DEF RebooterRun
<1>3. \/ GetActions(n) = IdleRebooter
      \/ \E pc \in {"uncordon", "untaint", "setRebooted", "setDraining"} :
           GetActions(n) = run(pc)
      \/ GetActions(n) = [run("setDraining") EXCEPT !.drain = TRUE, !.reboot = TRUE]
  BY Zenon DEF GetActions
<1>4. {"uncordon", "untaint", "setRebooted", "setDraining"} \subseteq RebooterStep
  BY DEF RebooterStep, ConditionStep
<1> HIDE DEF run, drain
<1> QED
  BY <1>2, <1>3, <1>4, IdleRebooterIsRun, Zenon

\* The body of a patch is a Node object.
LEMMA PatchBodyType ==
    ASSUME node \in NodeObject, now \in Nat, r.pc \in ConditionStep
    PROVE  PatchBody \in NodeObject
<1> DEFINE w == Written(r.pc)
<1>1. /\ w[1] \in CondType
      /\ w[2] \in {"", "True", "False"}
      /\ w[3] \in CondReason
  BY DEF Written, ConditionStep, CondType, CondReason
<1>2. SetNodeCondition(node, w[1], w[2], w[3]) \in NodeObject
  <2> HIDE DEF w
  <2> DEFINE c == node.conds[w[1]]
             time == IF c.status = w[2] /\ c.reason = w[3] THEN c.ltt ELSE now
  <2>1. time \in Nat
    BY <1>1 DEF NodeObject, Cond
  <2>2. newNodeCondition(w[1], w[2], w[3], time) \in Cond
    <3> HIDE DEF time
    <3> QED
      BY <1>1, <2>1, NewConditionType
  <2> QED
    BY <1>1, <2>2, ConditionedType DEF SetNodeCondition
<1> QED
  BY <1>2 DEF PatchBody

\* What a step of the Rebooter leaves behind; only RebootNode takes the machine
\* down, and it finds the node closed and empty.
AgentEffect ==
    /\ RebooterTypeOK'
    /\ node' \in NodeObject
    /\ pod' \in [Workers -> [on : BOOLEAN, at : Nat]]
    /\ ClosedUntilReboot'
    /\ UNCHANGED <<now, mcache>>
    /\ machine.up /\ ~machine'.up =>
         /\ \A w \in Workers : ~pod[w].on
         /\ node.unschedulable /\ node.tainted

LEMMA RebooterEffect ==
    ASSUME BoardTypeOK, RebooterTypeOK, ClosedUntilReboot,
           RebooterAgent \/ ReadConditions
    PROVE  AgentEffect
<1> USE DEF BoardTypeOK, RebooterTypeOK
<1>1. CASE RebooterReconcile
  <2>1. /\ r' \in RebooterRun
        /\ r'.pc \in {"idle", "uncordon", "untaint", "setRebooted", "setDraining"}
    BY <1>1, GetActionsType DEF RebooterReconcile
  <2> QED
    BY <1>1, <2>1
       DEF RebooterReconcile, AgentEffect, ClosedUntilReboot, boardVars
<1>2. ASSUME r.pc \in ConditionStep, Proceed, NEW n \in NodeObject,
             node' = MergePatched(n),
             UNCHANGED <<now, mcache, pod, machine, rcache>>
      PROVE  AgentEffect
  <2>1. /\ node' \in NodeObject
        /\ node'.unschedulable = node.unschedulable
        /\ node'.tainted = node.tainted
    BY <1>2, MergePatchedType
  <2>2. r.pc \in RebooterStep \ {"idle", "reboot"} /\ r.pc \notin {"cordon", "taint", "evicted"}
    BY <1>2 DEF RebooterStep, ConditionStep
  <2>3. r' \in RebooterRun /\ r'.pc = After(r.pc)
    BY <1>2, <2>2, ProceedType
  <2> QED
    BY <1>2, <2>1, <2>2, <2>3, AfterOrder DEF AgentEffect, ClosedUntilReboot
<1>3. CASE WriteCondition
  <2>1. PatchBody \in NodeObject
    BY <1>3, PatchBodyType DEF WriteCondition
  <2> QED
    BY <1>2, <1>3, <2>1 DEF WriteCondition
<1>4. CASE PatchConditions
  <2>1. r.body \in NodeObject
    BY DEF RebooterRun
  <2> QED
    BY <1>2, <1>4, <2>1 DEF PatchConditions
<1>5. CASE ReadConditions
  <2>1. PatchBody \in NodeObject
    BY <1>5, PatchBodyType DEF ReadConditions
  <2>2. r' \in RebooterRun /\ r'.pc = r.pc
    BY <1>5, <2>1, Zenon DEF ReadConditions, RebooterRun
  <2> QED
    BY <1>5, <2>2 DEF ReadConditions, AgentEffect, ClosedUntilReboot, boardVars
<1>6. CASE SetNodeUnschedulable
  <2>1. r' \in RebooterRun /\ r'.pc = After(r.pc)
    BY <1>6, ProceedType DEF SetNodeUnschedulable, RebooterStep
  <2>2. r'.pc \in {"taint", "untaint"} /\ (r'.pc = "taint" => r.pc = "cordon")
    BY <1>6, <2>1 DEF SetNodeUnschedulable, After
  <2>3. /\ node' \in NodeObject
        /\ r.pc = "cordon" => node'.unschedulable
    BY <1>6, ZenonT(40) DEF SetNodeUnschedulable, NodeObject
  <2> QED
    BY <1>6, <2>1, <2>2, <2>3
       DEF SetNodeUnschedulable, AgentEffect, ClosedUntilReboot
<1>7. CASE TaintNodeWithNoExecute
  <2>1. r' \in RebooterRun /\ r'.pc = After(r.pc)
    BY <1>7, ProceedType DEF TaintNodeWithNoExecute, RebooterStep
  <2>2. r'.pc \in {"evicted", "setUndrained"} /\ (r'.pc = "evicted" => r.pc = "taint")
    BY <1>7, <2>1 DEF TaintNodeWithNoExecute, After
  <2>3. /\ node' \in NodeObject
        /\ node'.unschedulable = node.unschedulable
        /\ r.pc = "taint" => node'.tainted
    BY <1>7, ZenonT(40) DEF TaintNodeWithNoExecute, NodeObject
  <2> QED
    BY <1>7, <2>1, <2>2, <2>3
       DEF TaintNodeWithNoExecute, AgentEffect, ClosedUntilReboot
<1>8. CASE AreAllPodsEvicted
  <2>1. CASE \E w \in Workers : pod[w].on
    BY <1>8, <2>1, IdleRebooterIsRun
       DEF AreAllPodsEvicted, AgentEffect, ClosedUntilReboot, boardVars
  <2>2. CASE ~ \E w \in Workers : pod[w].on
    <3>1. r' \in RebooterRun /\ r'.pc = After(r.pc)
      BY <1>8, <2>2, ProceedType DEF AreAllPodsEvicted, RebooterStep
    <3>2. r'.pc = "setDrained"
      BY <1>8, <3>1 DEF AreAllPodsEvicted, After
    <3> QED
      BY <1>8, <2>2, <3>1, <3>2
         DEF AreAllPodsEvicted, AgentEffect, ClosedUntilReboot, boardVars
  <2> QED
    BY <2>1, <2>2
<1>9. CASE RebootNode
  <2>1. /\ machine' \in [up : BOOLEAN, boot : Nat]
        /\ pod' \in [Workers -> [on : BOOLEAN, at : Nat]]
    BY <1>9, Zenon DEF RebootNode
  <2> QED
    BY <1>9, <2>1, IdleRebooterIsRun DEF RebootNode, AgentEffect, ClosedUntilReboot
<1> QED
  BY <1>1, <1>3, <1>4, <1>5, <1>6, <1>7, <1>8, <1>9 DEF RebooterAgent

-----------------------------------------------------------------------------
(* The composed system.                                                    *)

\* The inductive invariant: the types and the order of the Rebooter's calls.
IInv == TypeOK /\ ClosedUntilReboot

RebootStepOK ==
    machine.up /\ ~machine'.up =>
        /\ \A w \in Workers : ~pod[w].on
        /\ node.unschedulable /\ node.tainted

LEMMA InitIInv == Init => IInv
<1> SUFFICES ASSUME Init PROVE IInv
  OBVIOUS
<1> USE DEF Init, BoardInit, SlurmInit, K8SInit, RebooterInit
<1>1. BoardTypeOK
  BY FreshNodeType DEF BoardTypeOK
<1>2. SlurmTypeOK
  <2>1. UnknownSlurmNode \in SlurmNode
    BY ZenonT(40) DEF UnknownSlurmNode, SlurmNode, SlurmReason
  <2>2. IdlePass \in Passes
    BY <2>1 DEF IdlePass, Passes
  <2> QED
    BY <2>1, <2>2 DEF SlurmTypeOK
<1>3. K8STypeOK
  <2>1. NoCond \in Cond
    BY DEF NoCond, Cond, CondReason
  <2> QED
    BY <2>1 DEF K8STypeOK, IdleReconciliation, Reconciliation
<1>4. RebooterTypeOK /\ ClosedUntilReboot
  BY <1>1, IdleRebooterIsRun DEF RebooterTypeOK, BoardTypeOK, ClosedUntilReboot
<1>5. left \in [Bounds -> Nat]
  BY RecoveryAssumption
<1> QED
  BY <1>1, <1>2, <1>3, <1>4, <1>5 DEF IInv, TypeOK

\* Spending, or reading a fresh copy, keeps the type of left.
LEMMA SpendType ==
    ASSUME left \in [Bounds -> Nat],
           \/ UNCHANGED left
           \/ \E b \in Bounds : Spend(b)
           \/ \E b \in Bounds : Trouble(b)
           \/ \E fresh : Read(fresh)
    PROVE  left' \in [Bounds -> Nat]
<1>1. ASSUME NEW bs, SpendAll(bs)
      PROVE  left' \in [Bounds -> Nat]
  <2>1. ASSUME NEW b \in Bounds
        PROVE  (IF b \in bs THEN left[b] - 1 ELSE left[b]) \in Nat
    BY <1>1, <2>1 DEF SpendAll
  <2> QED
    BY <1>1, <2>1 DEF SpendAll
<1> QED
  BY <1>1, Zenon DEF Spend, Trouble, Read

\* A change that neither opens the node, nor places a pod, nor moves the
\* Rebooter on keeps the closed node closed.
LEMMA StaysClosed ==
    ASSUME ClosedUntilReboot, UNCHANGED r,
           node'.unschedulable = node.unschedulable,
           node'.tainted = node.tainted,
           \A w \in Workers : pod'[w].on => pod[w].on \/ ~node.unschedulable
    PROVE  ClosedUntilReboot'
BY DEF ClosedUntilReboot

\* Slurm and its jobs.
LEMMA JobEffect ==
    ASSUME TypeOK, ClosedUntilReboot, NEW w \in Workers,
           \/ StartJob(w) \/ EndJob(w)
           \/ \E reason \in SlurmDrains : DrainBySlurm(w, reason)
    PROVE  TypeOK' /\ ClosedUntilReboot' /\ UNCHANGED machine
<1> USE DEF TypeOK, BoardTypeOK, SlurmTypeOK, K8STypeOK, RebooterTypeOK
<1>1. slurm[w] \in SlurmNode
  OBVIOUS
<1>2. CASE StartJob(w)
  <2>1. [slurm[w] EXCEPT !.work = "job"] \in SlurmNode
    BY <1>1 DEF SlurmNode
  <2>2. slurm' \in [Workers -> SlurmNode]
    BY <1>2, <2>1 DEF StartJob
  <2> QED
    BY <1>2, <2>2, StaysClosed DEF StartJob, boardVars, rebooterVars
<1>3. CASE EndJob(w)
  <2>1. \A work \in {"idle", "job", "epilog"} :
          [slurm[w] EXCEPT !.work = work] \in SlurmNode
    BY <1>1 DEF SlurmNode
  <2>2. slurm' \in [Workers -> SlurmNode]
    BY <1>3, <2>1, Zenon DEF EndJob
  <2> QED
    BY <1>3, <2>2, StaysClosed DEF EndJob, boardVars, rebooterVars
<1>4. ASSUME NEW reason \in SlurmDrains, DrainBySlurm(w, reason)
      PROVE  TypeOK' /\ ClosedUntilReboot' /\ UNCHANGED machine
  <2>1. reason \in SlurmReason
    BY DEF SlurmDrains, SlurmReason
  <2>2. \A work \in {"idle", "job", "epilog"} :
          [slurm[w] EXCEPT !.drain = TRUE, !.reason = reason,
                           !.changedAt = now, !.work = work] \in SlurmNode
    BY <1>1, <2>1, Zenon DEF SlurmNode
  <2>3. slurm' = [slurm EXCEPT ![w] =
                    [slurm[w] EXCEPT !.drain = TRUE, !.reason = reason,
                       !.changedAt = now,
                       !.work = IF reason = "KillTaskFailed" THEN "epilog"
                                ELSE slurm[w].work]]
    BY <1>4, ZenonT(40) DEF DrainBySlurm
  <2>4. slurm' \in [Workers -> SlurmNode]
    <3>1. slurm[w].work \in {"idle", "job", "epilog"}
      BY <1>1 DEF SlurmNode
    <3> QED
      BY <2>2, <2>3, <3>1, Zenon
  <2>5. left' \in [Bounds -> Nat]
    <3>1. {"kills", "drains"} \subseteq Bounds
      BY DEF Bounds
    <3> QED
      BY <1>4, <3>1, SpendType, Zenon DEF DrainBySlurm
  <2> QED
    BY <1>4, <2>4, <2>5, StaysClosed, Zenon DEF DrainBySlurm, boardVars, rebooterVars
<1> QED
  BY <1>2, <1>3, <1>4

\* Kubernetes and the cloud.
LEMMA PlatformEffect ==
    ASSUME TypeOK, ClosedUntilReboot,
           \/ \E w \in Workers : EvictPod(w) \/ PlacePod(w)
           \/ ScheduleMaintenance \/ CancelMaintenance
           \/ NodeNotReady \/ NodeReadyAgain
    PROVE  TypeOK' /\ ClosedUntilReboot' /\ UNCHANGED machine
<1> USE DEF TypeOK, BoardTypeOK, SlurmTypeOK, K8STypeOK, RebooterTypeOK
<1>1. ASSUME NEW w \in Workers, EvictPod(w)
      PROVE  TypeOK' /\ ClosedUntilReboot' /\ UNCHANGED machine
  <2>1. /\ pod' \in [Workers -> [on : BOOLEAN, at : Nat]]
        /\ \A v \in Workers : pod'[v].on => pod[v].on
    BY <1>1, Zenon DEF EvictPod
  <2> QED
    BY <1>1, <2>1, StaysClosed DEF EvictPod, slurmVars, rebooterVars
<1>2. ASSUME NEW w \in Workers, PlacePod(w)
      PROVE  TypeOK' /\ ClosedUntilReboot' /\ UNCHANGED machine
  <2>1. pod' \in [Workers -> [on : BOOLEAN, at : Nat]] /\ ~node.unschedulable
    BY <1>2 DEF PlacePod
  <2>2. [slurm[w] EXCEPT !.instance = node.gen] \in SlurmNode
    BY ZenonT(40) DEF SlurmNode, NodeObject
  <2>3. slurm' \in [Workers -> SlurmNode]
    BY <1>2, <2>2 DEF PlacePod
  <2> QED
    BY <1>2, <2>1, <2>3, StaysClosed DEF PlacePod, rebooterVars
<1>3. ASSUME NEW type \in {"MaintenanceScheduled", "Ready"},
             NEW status \in {"True", "False"}, SetByCloud(type, status),
             left' \in [Bounds -> Nat]
      PROVE  TypeOK' /\ ClosedUntilReboot' /\ UNCHANGED machine
  <2> DEFINE c == newNodeCondition(type, status, "External", now)
  <2>1. c \in Cond
    BY NewConditionType DEF CondReason
  <2>2. type \in CondType
    BY DEF CondType
  <2>3. node' = Conditioned(node, type, c)
    BY <1>3 DEF SetByCloud
  <2> HIDE DEF c
  <2>4. node' \in NodeObject
    BY <2>1, <2>2, <2>3, ConditionedType
  <2>5. /\ node'.unschedulable = node.unschedulable
        /\ node'.tainted = node.tainted
    BY <2>3, SMTT(30) DEF Conditioned, NodeObject
  <2> QED
    BY <1>3, <2>4, <2>5, StaysClosed DEF SetByCloud, slurmVars, rebooterVars
<1>4. ASSUME ScheduleMaintenance \/ CancelMaintenance \/ NodeNotReady \/ NodeReadyAgain
      PROVE  TypeOK' /\ ClosedUntilReboot' /\ UNCHANGED machine
  <2>1. left' \in [Bounds -> Nat]
    BY <1>4, SpendType
       DEF ScheduleMaintenance, CancelMaintenance, NodeNotReady, NodeReadyAgain, Bounds
  <2> QED
    BY <1>3, <1>4, <2>1
       DEF ScheduleMaintenance, CancelMaintenance, NodeNotReady, NodeReadyAgain
<1> QED
  BY <1>1, <1>2, <1>4

\* Machines: an ordered one comes up, a new one arrives, one reboots by itself.
\* Whatever the Rebooter was doing on it is over.
LEMMA MachineEffect ==
    ASSUME TypeOK, ClosedUntilReboot, BootStep \/ Provision \/ Crash
    PROVE  TypeOK' /\ ClosedUntilReboot' /\ (machine.up => machine'.up)
<1> USE DEF TypeOK, BoardTypeOK, SlurmTypeOK, K8STypeOK, RebooterTypeOK
<1>1. CASE BootStep
  <2>1. machine' \in [up : BOOLEAN, boot : Nat] /\ machine'.up
    BY <1>1, SMTT(30) DEF BootStep, Boot
  <2> QED
    BY <1>1, <2>1, StaysClosed, ZenonT(40) DEF BootStep, Boot, slurmVars, boardVars
<1>2. CASE Provision
  <2>1. node' \in NodeObject
    <3>1. node.gen + 1 \in Nat
      BY DEF NodeObject
    <3> QED
      BY <1>2, <3>1, FreshNodeType DEF Provision
  <2>2. machine' \in [up : BOOLEAN, boot : Nat] /\ machine'.up
    BY <1>2 DEF Provision
  <2> QED
    BY <1>2, <2>1, <2>2, IdleRebooterIsRun DEF Provision, ClosedUntilReboot, slurmVars
<1>3. CASE Crash
  <2>1. left' \in [Bounds -> Nat]
    BY <1>3, SpendType DEF Crash, Bounds
  <2>2. slurm' \in [Workers -> SlurmNode]
    <3>1. \A w \in Workers : [slurm[w] EXCEPT !.work = "idle"] \in SlurmNode
      BY SMTT(30) DEF SlurmNode
    <3> QED
      BY <1>3, <3>1 DEF Crash
  <2>3. machine' \in [up : BOOLEAN, boot : Nat] /\ machine'.up
    BY <1>3 DEF Crash
  <2> QED
    BY <1>3, <2>1, <2>2, <2>3, IdleRebooterIsRun DEF Crash, ClosedUntilReboot, boardVars
<1> QED
  BY <1>1, <1>2, <1>3

\* A failed call or a restart ends what was in progress.
LEMMA FaultEffect ==
    ASSUME TypeOK, ClosedUntilReboot, Fault
    PROVE  TypeOK' /\ ClosedUntilReboot' /\ UNCHANGED machine
<1> USE DEF TypeOK, BoardTypeOK, SlurmTypeOK, K8STypeOK, RebooterTypeOK
<1>1. left' \in [Bounds -> Nat]
  BY SpendType DEF Fault, Bounds
<1>2. CASE SlurmPassFails /\ UNCHANGED <<k, rebooterVars>>
  BY <1>1, <1>2, PassType, StaysClosed, ZenonT(40) DEF SlurmPassFails, boardVars, rebooterVars
<1>3. CASE DrainPartlyFails /\ UNCHANGED <<k, rebooterVars>>
  <2>1. PICK ws, reason : reason \in SlurmReason /\ DrainSlurmNodes(ws, reason)
    BY <1>3 DEF DrainPartlyFails, SlurmReason
  <2>2. slurm' \in [Workers -> SlurmNode]
    BY <2>1, DrainType
  <2>3. s' \in Passes
    <3>1. s' = IdlePass \/ \E w \in s.queue : s' = Dequeued(w)
      BY <1>3 DEF DrainPartlyFails
    <3> QED
      BY <3>1, PassType, SMTT(30) DEF Passes
  <2> QED
    BY <1>1, <1>3, <2>2, <2>3, StaysClosed, SMTT(30) DEF DrainPartlyFails, boardVars, rebooterVars
<1>4. CASE K8SReconcileFails /\ UNCHANGED <<slurmVars, rebooterVars>>
  <2>1. k' \in Reconciliation
    BY <1>4, ContinueType DEF K8SReconcileFails
  <2> QED
    BY <1>1, <1>4, <2>1, StaysClosed
       DEF K8SReconcileFails, boardVars, slurmVars, rebooterVars
<1>5. CASE RebooterFails /\ UNCHANGED <<slurmVars, k>>
  BY <1>1, <1>5, IdleRebooterIsRun, Zenon
     DEF RebooterFails, ClosedUntilReboot, boardVars, slurmVars
<1> QED
  BY <1>2, <1>3, <1>4, <1>5 DEF Fault

\* Every step keeps the inductive invariant, and a step that takes the machine
\* down finds the node closed and empty.
LEMMA NextIInv ==
    ASSUME IInv, [Next]_vars
    PROVE  IInv' /\ RebootStepOK
<1> USE DEF TypeOK, IInv, RebootStepOK
<1>1. CASE SlurmStep
  <2>1. SlurmEffect
    BY <1>1, SlurmControllerEffect DEF SlurmStep
  <2>2. left' \in [Bounds -> Nat]
    BY <1>1, SpendType DEF SlurmStep
  <2> QED
    BY <1>1, <2>1, <2>2, StaysClosed
       DEF SlurmStep, SlurmEffect, BoardTypeOK, K8STypeOK, RebooterTypeOK, rebooterVars
<1>2. CASE K8SStep
  <2>1. K8SEffect
    BY <1>2, K8SControllerEffect DEF K8SStep
  <2>2. left' \in [Bounds -> Nat]
    BY <1>2, SpendType DEF K8SStep
  <2> QED
    BY <1>2, <2>1, <2>2, StaysClosed
       DEF K8SStep, K8SEffect, BoardTypeOK, SlurmTypeOK, RebooterTypeOK,
           slurmVars, rebooterVars
<1>3. CASE AgentStep \/ RacingWrite
  <2>1. AgentEffect
    BY <1>3, RebooterEffect DEF AgentStep, RacingWrite
  <2>2. left' \in [Bounds -> Nat]
    BY <1>3, SpendType, ZenonT(40) DEF AgentStep, RacingWrite, Bounds
  <2> QED
    BY <1>3, <2>1, <2>2
       DEF AgentStep, RacingWrite, AgentEffect, BoardTypeOK, SlurmTypeOK,
           K8STypeOK, slurmVars
<1>4. CASE CacheStep \/ ClockStep
  BY <1>4, StaysClosed
     DEF CacheStep, ClockStep, SyncManager, SyncRebooter, Tick, BoardTypeOK,
         SlurmTypeOK, K8STypeOK, RebooterTypeOK, boardVars, slurmVars, rebooterVars
<1>5. CASE BootStep \/ Provision \/ Crash
  BY <1>5, MachineEffect
<1>6. CASE \E w \in Workers : StartJob(w) \/ EndJob(w)
  BY <1>6, JobEffect
<1>7. CASE \E w \in Workers, reason \in SlurmDrains : DrainBySlurm(w, reason)
  BY <1>7, JobEffect
<1>8. CASE \/ \E w \in Workers : EvictPod(w) \/ PlacePod(w)
           \/ ScheduleMaintenance \/ CancelMaintenance
           \/ NodeNotReady \/ NodeReadyAgain
  BY <1>8, PlatformEffect
<1>9. CASE Fault
  BY <1>9, FaultEffect, SMTT(30)
<1>10. CASE UNCHANGED vars
  BY <1>10, StaysClosed
     DEF vars, BoardTypeOK, SlurmTypeOK, K8STypeOK, RebooterTypeOK, boardVars,
         slurmVars, rebooterVars
<1> QED
  BY <1>1, <1>2, <1>3, <1>4, <1>5, <1>6, <1>7, <1>8, <1>9, <1>10, Zenon DEF Next

\* The inductive invariant holds in every reachable state.
THEOREM Inductive == Spec => []IInv
<1>1. Init => IInv
  BY InitIInv
<1>2. IInv /\ [Next]_vars => IInv'
  BY NextIInv
<1> QED
  BY <1>1, <1>2, PTL DEF Spec

\* Every variable keeps its type, for any set of workers and any bounds.
THEOREM TypeCorrect == Spec => []TypeOK
<1>1. IInv => TypeOK
  BY DEF IInv
<1> QED
  BY <1>1, Inductive, PTL

\* Between the Rebooter's check for pods and the reboot nobody reopens the node
\* or places a pod on it.
THEOREM StaysClosedUntilReboot == Spec => []ClosedUntilReboot
<1>1. IInv => ClosedUntilReboot
  BY DEF IInv
<1> QED
  BY <1>1, Inductive, PTL

\* The machine goes down for an ordered reboot only when its node is closed and
\* no worker pod is left on it, however stale the reads of the controllers are
\* and wherever calls fail.
THEOREM RebootsEmptied == Spec => EmptiedBeforeReboot
<1>1. IInv /\ [Next]_vars => [RebootStepOK]_vars
  BY NextIInv
<1> QED
  BY <1>1, Inductive, PTL DEF Spec, EmptiedBeforeReboot, RebootStepOK

=============================================================================
