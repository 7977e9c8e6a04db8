----------------------------- MODULE NodeRecovery -----------------------------
(***************************************************************************)
(* SlurmNodesController, K8SNodesController and the Rebooter of one node,  *)
(* composed over the node's conditions, with what surrounds them: Slurm    *)
(* running jobs and draining nodes, Kubernetes evicting and placing worker *)
(* pods, the cloud scheduling and cancelling maintenance and providing a   *)
(* new machine for a deleted node, and faults.                             *)
(***************************************************************************)
EXTENDS SlurmNodes, K8SNodes, Rebooter

CONSTANTS Scenarios,      \* what the environment may do, as bounds
          MaxGen,         \* machines the cloud provides for the node
          PromptManager,  \* a reboot outlasts the passes of the controllers
          DistinctSeconds \* no two compared times fall into the same second

\* kills: drains by Slurm because a task could not be killed; drains: by a
\* health check; maintenance, cancels: of maintenance; notReady: times the
\* kubelet stops reporting; troubles: kills, drains, maintenance and silences
\* together; faults: failed calls and restarts; crashes: reboots nobody
\* ordered; stale: reads of a cache that is behind; races: Rebooter patches
\* that others may come before.
Bounds == {"kills", "drains", "maintenance", "cancels", "notReady", "troubles",
           "faults", "crashes", "stale", "races"}

ASSUME RecoveryAssumption ==
    /\ Scenarios \subseteq [Bounds -> Nat]
    /\ MaxGen \in Nat
    /\ PromptManager \in BOOLEAN
    /\ DistinctSeconds \in BOOLEAN

VARIABLES left \* what is left of the bounds

vars == <<boardVars, slurmVars, k, rebooterVars, left>>

TypeOK ==
    /\ BoardTypeOK
    /\ SlurmTypeOK
    /\ K8STypeOK
    /\ RebooterTypeOK
    /\ left \in [Bounds -> Nat]

Init ==
    /\ BoardInit
    /\ SlurmInit
    /\ K8SInit
    /\ RebooterInit
    /\ left \in Scenarios

\* One unit of each of the bounds bs.
SpendAll(bs) ==
    /\ \A b \in bs : left[b] > 0
    /\ left' = [b \in Bounds |-> IF b \in bs THEN left[b] - 1 ELSE left[b]]

Spend(b) == SpendAll({b})

Trouble(b) == SpendAll({b, "troubles"})

\* The times that have been taken from the clock and will be compared.
Stamps ==
    {node.conds[t].ltt : t \in Timed} \cup {slurm[w].changedAt : w \in Workers}
    \cup {machine.boot}

\* With DistinctSeconds a second in which a time was taken has to end first.
NewSecond == DistinctSeconds => now \notin Stamps

-----------------------------------------------------------------------------
(* Slurm                                                                   *)

StartJob(w) ==
    /\ pod[w].on /\ ~slurm[w].drain /\ slurm[w].work = "idle"
    /\ slurm' = [slurm EXCEPT ![w].work = "job"]
    /\ UNCHANGED <<boardVars, s, k, rebooterVars, left>>

\* The job's last process ends, then its epilog does; a job whose pod is gone
\* is lost.
EndJob(w) ==
    /\ slurm[w].work # "idle"
    /\ slurm' = [slurm EXCEPT ![w].work =
                   IF @ = "job" /\ pod[w].on THEN "epilog" ELSE "idle"]
    /\ UNCHANGED <<boardVars, s, k, rebooterVars, left>>

\* The reasons with which nodes are drained by others than the operator.
SlurmDrains == {"KillTaskFailed", "HardwareProblem", "NodeProblem", "Other"}

\* Slurm (kill task failed) or a health check drains a node of its own accord.
\* A task has to resist for Slurm's kill timeout before it counts as not
\* killed: never in the second in which the last recovery ended.
DrainBySlurm(w, reason) ==
    /\ Trouble(IF reason = "KillTaskFailed" THEN "kills" ELSE "drains")
    /\ NewSecond
    /\ pod[w].on
    /\ reason = "KillTaskFailed" => /\ slurm[w].work = "job"
                                     /\ now > node.conds["NodeDegraded"].ltt
    /\ slurm' = [slurm EXCEPT
                   ![w].drain = TRUE, ![w].reason = reason,
                   ![w].changedAt = now,
                   ![w].work = IF reason = "KillTaskFailed" THEN "epilog" ELSE @]
    /\ UNCHANGED <<boardVars, s, k, rebooterVars>>

-----------------------------------------------------------------------------
(* Kubernetes and the cloud                                                *)

\* The taint evicts a worker pod, or its node is gone.
EvictPod(w) ==
    /\ pod[w].on
    /\ node.tainted \/ ~node.exists
    /\ pod' = [pod EXCEPT ![w].on = FALSE]
    /\ UNCHANGED <<now, node, mcache, slurmVars, k, rebooterVars, left>>

\* The worker pod is placed on the node and its slurmd registers.
PlacePod(w) ==
    /\ ~pod[w].on /\ slurm[w].work = "idle"
    /\ node.exists /\ machine.up /\ ~node.unschedulable /\ ~node.tainted
    /\ pod' = [pod EXCEPT ![w] = [on |-> TRUE, at |-> now]]
    /\ slurm' = [slurm EXCEPT ![w].instance = node.gen]
    /\ UNCHANGED <<now, node, mcache, s, k, rebooterVars, left>>

SetByCloud(type, status) ==
    /\ node.exists
    /\ node' = Conditioned(node, type,
                           newNodeCondition(type, status, "External", now))
    /\ UNCHANGED <<now, mcache, pod, slurmVars, k, rebooterVars>>

ScheduleMaintenance ==
    /\ Trouble("maintenance")
    /\ ~IsConditionTrue(node.conds["MaintenanceScheduled"])
    /\ SetByCloud("MaintenanceScheduled", "True")

CancelMaintenance ==
    /\ Spend("cancels")
    /\ IsConditionTrue(node.conds["MaintenanceScheduled"])
    /\ SetByCloud("MaintenanceScheduled", "False")

NodeNotReady ==
    /\ Trouble("notReady")
    /\ IsConditionTrue(node.conds["Ready"])
    /\ SetByCloud("Ready", "False")

NodeReadyAgain ==
    /\ ~IsConditionTrue(node.conds["Ready"])
    /\ SetByCloud("Ready", "True")
    /\ UNCHANGED left

\* The node group replaces a deleted node by a new machine.
Provision ==
    /\ ~node.exists /\ node.gen < MaxGen
    /\ \A w \in Workers : ~pod[w].on
    /\ node' = FreshNode(node.gen + 1, now)
    /\ machine' = [up |-> TRUE, boot |-> now]
    /\ rcache' = node'
    /\ r' = IdleRebooter
    /\ UNCHANGED <<now, mcache, pod, slurmVars, k, left>>

\* The machine reboots without an order; the pods' containers are restarted.
Crash ==
    /\ Spend("crashes")
    /\ machine.up
    /\ machine' = [machine EXCEPT !.boot = now]
    /\ rcache' = node
    /\ r' = IdleRebooter
    /\ slurm' = [w \in Workers |-> IF pod[w].on
                                   THEN [slurm[w] EXCEPT !.work = "idle"]
                                   ELSE slurm[w]]
    /\ UNCHANGED <<boardVars, s, k>>

Fault ==
    /\ Spend("faults")
    /\ \/ (SlurmPassFails \/ DrainPartlyFails) /\ UNCHANGED <<k, rebooterVars>>
       \/ K8SReconcileFails /\ UNCHANGED <<slurmVars, rebooterVars>>
       \/ RebooterFails /\ UNCHANGED <<slurmVars, k>>

-----------------------------------------------------------------------------

Read(fresh) == IF fresh THEN UNCHANGED left ELSE Spend("stale")

SlurmStep ==
    /\ NewSecond
    /\ SlurmController
    /\ Read(mcache = node \/ s.pc \in {"idle", "list"})
    /\ UNCHANGED <<k, rebooterVars>>

K8SStep ==
    /\ NewSecond
    /\ K8SController
    /\ Read(mcache = node \/ k.pc = "notReady")
    /\ UNCHANGED <<slurmVars, rebooterVars>>

AgentStep ==
    /\ NewSecond
    /\ RebooterAgent
    /\ Read(rcache = node \/ r.pc # "idle")
    /\ UNCHANGED <<slurmVars, k>>

RacingWrite ==
    /\ NewSecond
    /\ Spend("races")
    /\ ReadConditions
    /\ UNCHANGED <<slurmVars, k>>

\* With PromptManager the machine comes up only after K8SNodesController has
\* handled what the Rebooter wrote before it went down.
BootStep ==
    /\ NewSecond
    /\ Boot
    /\ PromptManager => /\ mcache = node
                        /\ k.pc = "idle"
                        /\ node.conds["SlurmNodeDrain"].reason # "Drained"
    /\ UNCHANGED <<slurmVars, k, left>>

CacheStep ==
    \/ SyncManager /\ UNCHANGED <<slurmVars, k, rebooterVars, left>>
    \/ SyncRebooter /\ UNCHANGED <<slurmVars, k, left>>

ClockStep ==
    /\ DistinctSeconds => now \in Stamps
    /\ Tick
    /\ UNCHANGED <<slurmVars, k, rebooterVars, left>>

Next ==
    \/ SlurmStep
    \/ K8SStep
    \/ AgentStep
    \/ RacingWrite
    \/ BootStep
    \/ CacheStep
    \/ ClockStep
    \/ \E w \in Workers : StartJob(w) \/ EndJob(w) \/ EvictPod(w) \/ PlacePod(w)
    \/ \E w \in Workers, reason \in SlurmDrains : DrainBySlurm(w, reason)
    \/ ScheduleMaintenance
    \/ CancelMaintenance
    \/ NodeNotReady
    \/ NodeReadyAgain
    \/ Provision
    \/ Crash
    \/ Fault

Spec == Init /\ [][Next]_vars

-----------------------------------------------------------------------------

\* A worker pod is never taken from the node while Slurm has a job or an epilog
\* on it, as long as the kubelet reports the node ready: the controllers wait
\* for the Slurm nodes to drain before they let the Rebooter evict, reboot or
\* have the node deleted.
JobsFinishFirst ==
    [][\A w \in Workers :
         /\ pod[w].on
         /\ slurm[w].work # "idle"
         /\ IsConditionTrue(node.conds["Ready"])
         => pod'[w].on]_vars

\* A Slurm node drained because a task could not be killed is not given back
\* to Slurm until the machine has booted after the drain.
RebootBeforeReturn ==
    [][\A w \in Workers :
         /\ slurm[w].drain /\ ~slurm'[w].drain
         /\ slurm[w].reason \in {"KillTaskFailed", "NodeReboot"}
         => machine.boot >= slurm[w].changedAt]_vars

\* The machine goes down for an ordered reboot only when no worker pod is left
\* on the closed node, however old the copies of the node are that the
\* controllers and the Rebooter act on.
EmptiedBeforeReboot ==
    [][machine.up /\ ~machine'.up =>
         /\ \A w \in Workers : ~pod[w].on
         /\ node.unschedulable /\ node.tainted]_vars

\* From the moment the Rebooter has seen the last pod go until the machine goes
\* down, the node stays closed and empty: cordon, taint and the check for pods
\* come in this order and nobody else opens the node.  This is the inductive
\* invariant behind EmptiedBeforeReboot.
ClosedUntilReboot ==
    /\ r.pc \in {"taint", "evicted", "setDrained", "setRebooting", "reboot"}
           => node.unschedulable
    /\ r.pc \in {"evicted", "setDrained", "setRebooting", "reboot"}
           => node.tainted
    /\ r.pc \in {"setDrained", "setRebooting", "reboot"}
           => \A w \in Workers : ~pod[w].on

\* A node the kubelet reports ready is deleted only when it is closed and empty.
EmptiedBeforeDeletion ==
    [][node.exists /\ ~node'.exists /\ IsConditionTrue(node.conds["Ready"]) =>
         /\ \A w \in Workers : ~pod[w].on
         /\ node.unschedulable /\ node.tainted]_vars

-----------------------------------------------------------------------------
(* Liveness.  The controllers and the Rebooter are requeued for ever, the  *)
(* informers keep their watches, jobs end, the taint manager evicts, the   *)
(* scheduler places worker pods, machines come up and time passes.         *)

Fairness ==
    /\ SF_vars(SlurmStep)
    /\ SF_vars(K8SStep)
    /\ SF_vars(AgentStep)
    /\ WF_vars(BootStep)
    /\ SF_vars(SyncManager /\ UNCHANGED <<slurmVars, k, rebooterVars, left>>)
    /\ SF_vars(SyncRebooter /\ UNCHANGED <<slurmVars, k, left>>)
    /\ WF_vars(ClockStep)
    /\ WF_vars(Provision)
    /\ \A w \in Workers : /\ WF_vars(EndJob(w))
                           /\ WF_vars(EvictPod(w))
                           /\ WF_vars(PlacePod(w))

FairSpec == Spec /\ Fairness

\* The recovery of a node ends: one that is degraded, or closed by the Rebooter,
\* is in the end neither, or replaced.
RecoveryEnds ==
    IsConditionTrue(node.conds["NodeDegraded"]) \/ node.tainted \/ node.unschedulable
        ~> /\ ~IsConditionTrue(node.conds["NodeDegraded"])
           /\ ~node.tainted /\ ~node.unschedulable

\* Once the recovery of its node has ended, a Slurm node is given back.
RecoveredNodeReturns ==
    \A w \in Workers :
        /\ slurm[w].drain /\ slurm[w].reason = "NodeReboot"
        /\ node.conds["NodeDegraded"].status = "False"
        /\ slurm[w].changedAt < node.conds["NodeDegraded"].ltt
        ~> ~slurm[w].drain

\* A machine that is to be maintained, or stays not ready, is given up, so that
\* it can be replaced.
UnusableNodeReplaced ==
    \A gen \in 0 .. MaxGen :
        /\ Live(gen) /\ IsConditionTrue(node.conds["MaintenanceScheduled"]) ~> ~Live(gen)
        /\ Live(gen) /\ ~IsConditionTrue(node.conds["Ready"])
               ~> ~Live(gen) \/ IsConditionTrue(node.conds["Ready"])

\* A Slurm node drained for a replacement, or by a health check for the sake of
\* its machine when node replacement is enabled, is given back, unless somebody
\* drains it for another reason in the meantime.
DrainedNodeReturns ==
    \A w \in Workers :
        /\ slurm[w].drain
        /\ \/ slurm[w].reason = "NodeReplacement"
           \/ /\ EnabledNodeReplacement
              /\ slurm[w].reason \in {"NodeProblem", "HardwareProblem"}
        ~> ~slurm[w].drain \/ slurm[w].reason = "Other"
=============================================================================
