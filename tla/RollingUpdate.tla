----------------------------- MODULE RollingUpdate -----------------------------
(***************************************************************************)
(* RollingUpdateReconciler.  A pass reads the StatefulSet and its pods,    *)
(* then makes its calls one by one, on what it has read; any of them may   *)
(* fail and end the pass.                                                  *)
(***************************************************************************)
EXTENDS WorkerState, FiniteSetsExt

CONSTANTS MaxUnavailable, \* spec.scaleStrategy.maxUnavailable
          InPercent       \* whether it is a percentage

ASSUME BudgetAssumption == MaxUnavailable \in Nat /\ InPercent \in BOOLEAN

VARIABLE ru \* the pass in progress

\* operationID, ready and pods are what the pass has read; todo are the workers
\* it still makes a call for, undrain those of them it undrains, and picked the
\* ones whose reboot it schedules.
Idle == [pc |-> "idle", operationID |-> 0, ready |-> 0, pods |-> <<>>,
         todo |-> {}, undrain |-> {}, picked |-> {}]

RollingUpdateInit == ru = Idle

-----------------------------------------------------------------------------
rebootBudget ==
    LET scaled == IF InPercent THEN (MaxUnavailable * Replicas) \div 100
                               ELSE MaxUnavailable
    IN  IF Replicas = 0 THEN 0
        ELSE IF scaled < 1 THEN 1
        ELSE IF scaled > Replicas THEN Replicas
        ELSE scaled

\* Mutant: workers that are not ready do not use up the budget.
UnavailableNotCounted == 0

unavailableReplicas == Replicas - ru.ready

hasRollingUpdateReason(n) == n.reason = "update"

staleRollingUpdateDrain(n) ==
    /\ n.drain /\ IsIdleState(n) /\ n.responding /\ ~IsCompletingState(n)
    /\ ~IsRebootState(n)
    /\ hasRollingUpdateReason(n)

\* Mutant: allocations are not looked at.
OfflineIgnoringJobs(n) == n.down \/ ~n.responding

safeToDeleteOfflineSlurmNode(n) ==
    /\ n.job = "none"
    /\ n.down \/ (IsIdleState(n) /\ ~n.responding)

\* Mutant: the label, and not Slurm, tells whether a reboot is in flight.
DecideByLabel(p, n, operationID) ==
    IF staleRollingUpdateDrain(n) THEN "Undrain"
    ELSE IF safeToDeleteOfflineSlurmNode(n) THEN "Delete"
    ELSE IF workerOperationPhase(p, operationID) = "stopping" THEN "TrackInFlight"
    ELSE "ScheduleReboot"

decideWorkerUpdateAction(p, n, operationID) ==
    LET handoffInProgress ==
            IsRebootState(n) /\ workerOperationPhase(p, operationID) = "stopping"
        managedReboot == IsRebootState(n) /\ hasRollingUpdateReason(n)
        crashLooping == p.run = "crashLoop"
    IN  IF staleRollingUpdateDrain(n) THEN "Undrain"
        ELSE IF /\ crashLooping \/ handoffInProgress \/ managedReboot
                /\ safeToDeleteOfflineSlurmNode(n) THEN "Delete"
        ELSE IF crashLooping THEN "Wait"
        ELSE IF IsRebootState(n) THEN "TrackInFlight"
        ELSE "ScheduleReboot"

-----------------------------------------------------------------------------
(* The calls.                                                              *)

\* r.Delete names the pod and nothing else: it deletes the pod of that name.
DeletePod(w) == pods' = [pods EXCEPT ![w] = NoPod]

UndrainNode(w) ==
    nodes' = [nodes EXCEPT ![w].drain = FALSE,
                           ![w].reason = IF nodes[w].drain THEN "none" ELSE @]

\* scontrol reboot ASAP: the nodes take no new jobs and reboot once empty.
RebootNodes(ws) ==
    nodes' = [w \in Workers |->
                 IF w \in ws THEN [nodes[w] EXCEPT !.drain = TRUE,
                                                   !.reason = "update",
                                                   !.reboot = "requested"]
                             ELSE nodes[w]]

-----------------------------------------------------------------------------
(* A pass.                                                                 *)

End == ru' = Idle

First == Min(ru.todo)

\* The pass goes on: with its next call, then with the reboots, then it ends.
Goes(r) ==
    ru' = IF r.todo # {} THEN r
          ELSE IF r.pc # "label" /\ r.picked # {}
               THEN [r EXCEPT !.pc = "label", !.todo = r.picked]
          ELSE IF r.pc = "label" THEN [Idle EXCEPT !.pc = "reboot", !.picked = r.picked]
          ELSE Idle

Done == [ru EXCEPT !.todo = @ \ {First}]

\* The outdated pods whose handoff is completed, those whose worker-init
\* crashes, and the updated pods whose node may be left drained.
Finished(updateRevision) ==
    {w \in filterOutdatedPods(pods, updateRevision) :
        workerOperationPhase(pods[w], updateRevision) = "ready"}

InitCrashing(updateRevision) ==
    {w \in filterOutdatedPods(pods, updateRevision) : pods[w].run = "initCrash"}

eligibleNodeNames(updateRevision) ==
    {w \in Workers : pods[w].rev = updateRevision /\ podReady(pods[w])}

\* Reconcile, and processRollingUpdate up to its first call, with the status
\* sts of the StatefulSet in the cache.
Reconcile(sts) ==
    LET outdated == filterOutdatedPods(pods, sts.revision)
        finished == Finished(sts.revision)
        initCrashing == InitCrashing(sts.revision)
    IN  /\ ru.pc = "idle"
        /\ \/ /\ sts.updated = Replicas
              /\ eligibleNodeNames(sts.revision) # {}
              /\ ru' = [Idle EXCEPT !.pc = "cleanup",
                                    !.todo = eligibleNodeNames(sts.revision)]
           \/ /\ sts.updated # Replicas /\ finished # {}
              /\ ru' = [Idle EXCEPT !.pc = "delete", !.todo = finished]
           \/ /\ sts.updated # Replicas /\ finished = {} /\ initCrashing # {}
              /\ ru' = [Idle EXCEPT !.pc = "delete", !.todo = {Min(initCrashing)}]
           \/ /\ sts.updated # Replicas /\ finished = {} /\ initCrashing = {}
              /\ outdated # {}
              /\ ru' = [Idle EXCEPT !.pc = "list", !.operationID = sts.revision,
                                    !.ready = sts.ready, !.pods = pods,
                                    !.todo = outdated]
        /\ status' = sts
        /\ UNCHANGED <<pods, nodes, revision>>

\* Pods with a completed handoff, or the first whose worker-init crashes.
DeleteFinished ==
    /\ ru.pc = "delete"
    /\ DeletePod(First)
    /\ Goes(Done)
    /\ UNCHANGED <<nodes, revision, status>>

\* cleanupStaleRollingUpdateDrains lists the nodes and undrains.
cleanupStaleRollingUpdateDrains ==
    /\ ru.pc = "cleanup"
    /\ LET stale == {w \in ru.todo : staleRollingUpdateDrain(nodes[w])}
       IN  Goes([ru EXCEPT !.pc = "call", !.todo = stale, !.undrain = stale])
    /\ UNCHANGED workerVars

\* The first candidates in the order of their names, as many as there are slots.
FirstOf(candidates, availableSlots) ==
    {w \in candidates :
        Cardinality({v \in candidates : v < w}) < availableSlots}

\* ListNodes; the loop over the outdated pods decides on what has been read.
ListNodes ==
    /\ ru.pc = "list"
    /\ LET decided(action) ==
               {w \in ru.todo :
                   decideWorkerUpdateAction(ru.pods[w], nodes[w], ru.operationID) = action}
           readyPodsConsumingBudget ==
               Cardinality({w \in decided("Undrain") \cup decided("Delete")
                                     \cup decided("TrackInFlight") :
                              podReady(ru.pods[w])})
           availableSlots ==
               rebootBudget - unavailableReplicas - readyPodsConsumingBudget
       IN  Goes([ru EXCEPT !.pc = "call", !.ready = 0,
                           !.todo = decided("Undrain") \cup decided("Delete"),
                           !.undrain = decided("Undrain"),
                           !.picked = FirstOf(decided("ScheduleReboot"), availableSlots)])
    /\ UNCHANGED workerVars

\* The calls of the loop, in the order of the names.
Call ==
    /\ ru.pc = "call"
    /\ \/ First \in ru.undrain /\ UndrainNode(First) /\ UNCHANGED pods
       \/ First \notin ru.undrain /\ DeletePod(First) /\ UNCHANGED nodes
    /\ Goes(Done)
    /\ UNCHANGED <<revision, status>>

\* The patch carries the resource version of the pod the pass has read.
Label ==
    /\ ru.pc = "label"
    /\ \/ /\ workerOperationPhase(ru.pods[First], ru.operationID) = "stopping"
          /\ Goes(Done)
          /\ UNCHANGED pods
       \/ /\ workerOperationPhase(ru.pods[First], ru.operationID) # "stopping"
          /\ pods[First] = ru.pods[First]
          /\ pods' = [pods EXCEPT ![First].op = ru.operationID,
                                  ![First].phase = "stopping"]
          /\ Goes(Done)
       \/ /\ workerOperationPhase(ru.pods[First], ru.operationID) # "stopping"
          /\ pods[First] # ru.pods[First]
          /\ End
          /\ UNCHANGED pods
    /\ UNCHANGED <<nodes, revision, status>>

Reboot ==
    /\ ru.pc = "reboot"
    /\ RebootNodes(ru.picked)
    /\ End
    /\ UNCHANGED <<pods, revision, status>>

\* A call that fails, or a restart of the operator.
PassFails ==
    /\ ru.pc # "idle"
    /\ End
    /\ UNCHANGED workerVars

RollingUpdateNext ==
    \/ Reconcile(ActualStatus)
    \/ DeleteFinished
    \/ ListNodes
    \/ cleanupStaleRollingUpdateDrains
    \/ Call
    \/ Label
    \/ Reboot
=============================================================================
