------------------------------ MODULE SlurmNodes ------------------------------
(***************************************************************************)
(* SlurmNodesController: finds drained Slurm nodes and Kubernetes nodes    *)
(* with scheduled maintenance, drains and undrains Slurm nodes, and tells  *)
(* K8SNodesController what to do by conditions on the Kubernetes node.     *)
(*                                                                         *)
(* The controller has one request key and is requeued after every pass, so *)
(* passes never overlap.  A pass is cut where the state it reads can       *)
(* change before it is used: SlurmReconcile (maintenance decided on a live *)
(* read), MaintenanceDrained, FindDegraded (Slurm nodes listed), then      *)
(* ProcessDegraded per listed node, with DegradedDrained after a drain.    *)
(* A call to Slurm or to the API server may fail at every cut.             *)
(***************************************************************************)
EXTENDS NodeConditions

CONSTANTS EnabledNodeReplacement, \* the controller's enabledNodeReplacement
          SlurmRestamps           \* may Slurm restamp an unchanged reason?

ASSUME SlurmNodesAssumption ==
    EnabledNodeReplacement \in BOOLEAN /\ SlurmRestamps \in BOOLEAN

VARIABLES slurm, \* slurmctld's view of the Slurm nodes
          s      \* the pass in progress

slurmVars == <<slurm, s>>

\* Drain reasons the controller tells apart; "Other" stands for [user_problem]
\* and for all texts that hold no well-known reason.
SlurmReason == {"", "KillTaskFailed", "NodeReplacement", "NodeReboot",
                "NodeProblem", "HardwareProblem", "Other"}

SlurmNode == [drain : BOOLEAN, reason : SlurmReason, changedAt : Nat,
              work : {"idle", "job", "epilog"}, instance : Nat]

Passes == [pc : {"idle", "maintenance", "list", "degraded", "drained"},
           gen : Nat, stamp : Nat, queue : SUBSET Workers,
           listed : [Workers -> SlurmNode]]

UnknownSlurmNode == [drain |-> FALSE, reason |-> "", changedAt |-> 0,
                     work |-> "idle", instance |-> 0]

IdlePass == [pc |-> "idle", gen |-> 0, stamp |-> 0, queue |-> {},
             listed |-> [w \in Workers |-> UnknownSlurmNode]]

SlurmTypeOK ==
    /\ slurm \in [Workers -> SlurmNode]
    /\ s \in Passes

SlurmInit ==
    /\ slurm = [w \in Workers |-> UnknownSlurmNode]
    /\ s = IdlePass

OnNode(gen) == {w \in Workers : Live(gen) /\ pod[w].on}

-----------------------------------------------------------------------------
(* Slurm calls                                                             *)

\* A DRAIN request on the Slurm nodes ws.  Slurm always takes the reason; when
\* it equals the current one the time of the reason may or may not move.
DrainSlurmNodes(ws, reason) ==
    \E moved \in SUBSET (IF SlurmRestamps THEN ws ELSE {}) :
        slurm' = [w \in Workers |->
                    IF w \in ws
                    THEN [slurm[w] EXCEPT
                            !.drain = TRUE, !.reason = reason,
                            !.changedAt = IF \/ w \in moved
                                             \/ slurm[w].reason # reason
                                             \/ ~slurm[w].drain
                                          THEN now ELSE @]
                    ELSE slurm[w]]

undrainSlurmNode(w) ==
    slurm' = [slurm EXCEPT ![w].drain = FALSE, ![w].reason = "",
                           ![w].changedAt = 0]

\* Mutant: the DRAIN flag alone counts as drained.
FullyDrainedIgnoringWork(gen) == \A w \in OnNode(gen) : slurm[w].drain

\* Every worker pod's Slurm node is IDLE+DRAIN and not COMPLETING.
slurmNodesFullyDrained(gen) ==
    \A w \in OnNode(gen) : slurm[w].drain /\ slurm[w].work = "idle"

\* Mutant: the reason the controller itself drains with is not looked for.
DegradedWithoutReboot ==
    {w \in Workers : /\ slurm[w].drain
                     /\ slurm[w].reason \notin {"", "Other", "NodeReboot"}}

findDegradedNodes ==
    {w \in Workers : slurm[w].drain /\ slurm[w].reason \notin {"", "Other"}}

\* The pass once Slurm has listed its nodes.
Listing ==
    IF findDegradedNodes = {} THEN IdlePass
    ELSE [IdlePass EXCEPT
            !.pc = "degraded", !.queue = findDegradedNodes,
            !.listed = [w \in Workers |-> IF w \in findDegradedNodes
                                          THEN slurm[w] ELSE UnknownSlurmNode]]

-----------------------------------------------------------------------------
(* processK8SNodesMaintenance                                              *)

\* Mutant: suspected hardware issues are not maintenance.
MaintenanceWithoutHardware(n) == n.conds["MaintenanceScheduled"]

\* The condition processMaintenance ends up with: of the two types, the one
\* that stands last in the list.
maintenanceCondition(n) ==
    LET sched == n.conds["MaintenanceScheduled"]
        hw == n.conds["HardwareIssuesSuspected"]
    IN  IF sched.status # "" /\ (hw.status = "" \/ n.maintLast)
        THEN sched ELSE hw

MaintenanceNeeded ==
    node.exists /\ ~IsConditionFalseOrEmpty(maintenanceCondition(node))

\* A pass begins with a live list of the nodes; without maintenance it goes
\* straight on to the Slurm nodes.
SlurmReconcile ==
    /\ s.pc = "idle"
    /\ IF MaintenanceNeeded
       THEN /\ DrainSlurmNodes(OnNode(node.gen), "NodeReplacement")
            /\ s' = [IdlePass EXCEPT !.pc = "maintenance", !.gen = node.gen]
       ELSE s' = Listing /\ UNCHANGED slurm
    /\ UNCHANGED boardVars

\* The rest of drainSlurmNodesWithConditionUpdate for a maintenance drain.  An
\* error ends the pass: no Slurm node is looked at.
MaintenanceDrained ==
    LET c == newNodeCondition("NodeMaintenance", "True", "Draining", now)
        fails == setConditionFails(s.gen, "NodeMaintenance", c)
    IN  /\ s.pc = "maintenance"
        /\ IF slurmNodesFullyDrained(s.gen)
           THEN /\ node' = setK8SNodeCondition(s.gen, "NodeMaintenance", c)
                /\ s' = [IdlePass EXCEPT !.pc = IF fails THEN "idle" ELSE "list"]
           ELSE /\ s' = [IdlePass EXCEPT !.pc = "list"]
                /\ UNCHANGED node
        /\ UNCHANGED <<now, mcache, pod, slurm>>

-----------------------------------------------------------------------------
(* processDegradedNode                                                     *)

FindDegraded ==
    /\ s.pc = "list"
    /\ s' = Listing
    /\ UNCHANGED <<boardVars, slurm>>

\* The pass goes on with the listed nodes that are left.
Continued(queue) ==
    IF queue = {} THEN IdlePass
    ELSE [s EXCEPT !.pc = "degraded", !.gen = 0, !.stamp = 0,
                   !.queue = queue,
                   !.listed = [w \in Workers |-> IF w \in queue THEN @[w]
                                                 ELSE UnknownSlurmNode]]

Dequeued(w) == Continued(s.queue \ {w})

Skip(w) ==
    /\ s' = Dequeued(w)
    /\ UNCHANGED <<node, slurm>>

Undrain(w) ==
    /\ undrainSlurmNode(w)
    /\ s' = Dequeued(w)
    /\ UNCHANGED node

\* The Slurm node was drained before the last recovery ended.
DrainedBeforeRecovery(w, n) ==
    s.listed[w].changedAt < n.conds["NodeDegraded"].ltt

\* Still rebooting: skip.  Drained before the last recovery: undrain.  No
\* degraded condition yet, or drained since: drain all Slurm nodes of the
\* Kubernetes node for a reboot; the condition is stamped before the drain.
processKillTaskFailed(w, n) ==
    LET status == n.conds["NodeDegraded"].status
        recovered == status = "False" /\ DrainedBeforeRecovery(w, n)
    IN  \/ status = "True" /\ Skip(w)
        \/ recovered /\ Undrain(w)
        \/ /\ status # "True" /\ ~recovered
           /\ DrainSlurmNodes(OnNode(n.gen), "NodeReboot")
           /\ s' = [s EXCEPT !.pc = "drained", !.stamp = now, !.gen = n.gen,
                             !.queue = @ \ {w}]
           /\ UNCHANGED node

processSlurmNodeMaintenance(w, n) ==
    IF IsConditionFalseOrEmpty(maintenanceCondition(n))
    THEN Undrain(w) ELSE Skip(w)

getSlurmNodeAssignmentTime(w) == IF pod[w].on THEN pod[w].at ELSE 0

\* Undrain if the instance changed since the drain, else mark it unhealthy once
\* all its Slurm nodes are drained.
processSetUnhealthy(w, n) ==
    LET drainedAt == s.listed[w].changedAt
        c == newNodeCondition("HardwareIssuesSuspected", "True",
                              "GPUHealthCheckFailed", now)
        replaced == \/ drainedAt < n.created
                    \/ getSlurmNodeAssignmentTime(w) > drainedAt
    IN  \/ ~EnabledNodeReplacement /\ Skip(w)
        \/ EnabledNodeReplacement /\ replaced /\ Undrain(w)
        \/ /\ EnabledNodeReplacement /\ ~replaced
           /\ node' = IF \/ IsConditionTrue(n.conds["HardwareIssuesSuspected"])
                         \/ ~slurmNodesFullyDrained(n.gen)
                      THEN node
                      ELSE setK8SNodeCondition(n.gen, "HardwareIssuesSuspected", c)
           /\ s' = Dequeued(w)
           /\ UNCHANGED slurm

ProcessDegraded(w) ==
    LET reason == s.listed[w].reason
        known == Cached(s.listed[w].instance)
    IN  /\ s.pc = "degraded" /\ w \in s.queue
        /\ \/ ~known /\ Skip(w)
           \/ /\ known /\ reason \in {"KillTaskFailed", "NodeReboot"}
              /\ processKillTaskFailed(w, mcache)
           \/ /\ known /\ reason = "NodeReplacement"
              /\ processSlurmNodeMaintenance(w, mcache)
           \/ /\ known /\ reason \in {"NodeProblem", "HardwareProblem"}
              /\ processSetUnhealthy(w, mcache)
        /\ UNCHANGED <<now, mcache, pod>>

\* The rest of drainSlurmNodesWithConditionUpdate for a reboot drain.  An error
\* is only joined to the others.
DegradedDrained ==
    LET c == newNodeCondition("NodeDegraded", "True", "NeedReboot", s.stamp)
    IN  /\ s.pc = "drained"
        /\ node' = IF slurmNodesFullyDrained(s.gen)
                   THEN setK8SNodeCondition(s.gen, "NodeDegraded", c)
                   ELSE node
        /\ s' = Continued(s.queue)
        /\ UNCHANGED <<now, mcache, pod, slurm>>

\* A call fails, or the manager restarts: the pass ends where it is.
SlurmPassFails ==
    /\ s.pc # "idle"
    /\ s' = IdlePass
    /\ UNCHANGED <<boardVars, slurm>>

\* drainSlurmNodes fails for some pods of the node: the others are drained and
\* no condition is set.
DrainPartlyFails ==
    /\ \/ /\ s.pc = "idle" /\ MaintenanceNeeded
          /\ \E ws \in SUBSET OnNode(node.gen) :
               /\ ws # OnNode(node.gen)
               /\ DrainSlurmNodes(ws, "NodeReplacement")
          /\ s' = IdlePass
       \/ /\ s.pc = "degraded"
          /\ \E w \in s.queue :
               /\ Cached(s.listed[w].instance)
               /\ s.listed[w].reason \in {"KillTaskFailed", "NodeReboot"}
               /\ IsConditionFalseOrEmpty(mcache.conds["NodeDegraded"])
               /\ ~DrainedBeforeRecovery(w, mcache)
               /\ \E ws \in SUBSET OnNode(mcache.gen) :
                    /\ ws # OnNode(mcache.gen)
                    /\ DrainSlurmNodes(ws, "NodeReboot")
               /\ s' = Dequeued(w)
    /\ UNCHANGED boardVars

SlurmController ==
    \/ SlurmReconcile
    \/ MaintenanceDrained
    \/ FindDegraded
    \/ \E w \in Workers : ProcessDegraded(w)
    \/ DegradedDrained

=============================================================================
