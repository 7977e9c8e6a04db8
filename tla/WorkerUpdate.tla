----------------------------- MODULE WorkerUpdate -----------------------------
(***************************************************************************)
(* The rolling update of a NodeSet: RollingUpdateReconciler and the        *)
(* handoff program in the worker pods, with the advanced StatefulSet that  *)
(* recreates deleted pods, Slurm that runs jobs and reboots nodes, and     *)
(* slurmd failing in the pods.                                             *)
(***************************************************************************)
EXTENDS RollingUpdate, WorkerHandoff

CONSTANTS Scenarios,  \* what the environment may do, as bounds
          PromptPass  \* a pass makes its calls, and deletes a pod that has
                      \* handed off, before slurmd is back and gets a job

\* changes: of the pod template; faults: failed calls and restarts of the
\* operator; crashes: times worker-init or slurmd fails; stale: passes that
\* read an old status of the StatefulSet; troubles: faults, crashes and stale
\* together; returns: times slurmd comes back in the same pod.
Bounds == {"changes", "faults", "crashes", "stale", "troubles", "returns"}

ASSUME UpdateAssumption ==
    Scenarios \subseteq [Bounds -> Nat] /\ PromptPass \in BOOLEAN

VARIABLE left \* what is left of the bounds

vars == <<workerVars, handoff, ru, left>>

TypeOK ==
    /\ WorkerTypeOK
    /\ HandoffTypeOK
    /\ ru.pc \in {"idle", "delete", "list", "cleanup", "call", "label", "reboot"}
    /\ ru.operationID \in Revision /\ ru.ready \in 0 .. Replicas
    /\ {ru.todo, ru.undrain, ru.picked} \subseteq SUBSET Workers
    /\ left \in [Bounds -> Nat]

Init ==
    /\ WorkerInit
    /\ HandoffInit
    /\ RollingUpdateInit
    /\ left \in Scenarios

\* One unit of each of the bounds bs.
SpendAll(bs) ==
    /\ \A b \in bs : left[b] > 0
    /\ left' = [b \in Bounds |-> IF b \in bs THEN left[b] - 1 ELSE left[b]]

Spend(b) == SpendAll({b})

Trouble(b) == SpendAll({b, "troubles"})

-----------------------------------------------------------------------------
(* The advanced StatefulSet, with the OnDelete strategy.                   *)

ChangeTemplate ==
    /\ Spend("changes")
    /\ revision' \in Revision /\ revision' = revision + 1
    /\ UNCHANGED <<pods, nodes, status, handoff, ru>>

RecreatePod(w) ==
    /\ ~Exists(w)
    /\ pods' = [pods EXCEPT ![w] = NewPod]
    /\ UNCHANGED <<nodes, revision, status, handoff, ru, left>>

-----------------------------------------------------------------------------
(* The pods.                                                               *)

PodUp(w) ==
    /\ Exists(w) /\ pods[w].run = "starting"
    /\ pods' = [pods EXCEPT ![w].run = "up"]
    /\ UNCHANGED <<nodes, revision, status, handoff, ru, left>>

\* The program slurmd runs dies with it.
Fail(w) ==
    /\ Exists(w)
    /\ Trouble("crashes")
    /\ \/ /\ pods[w].run = "starting"
          /\ pods' = [pods EXCEPT ![w].run = "initCrash"]
       \/ /\ pods[w].run = "up"
          /\ \E r \in {"crashLoop", "hung"} : pods' = [pods EXCEPT ![w].run = r]
    /\ Exit(w)
    /\ UNCHANGED <<nodes, revision, status, ru>>

\* slurmd is started with -b: its first registration counts as a boot.
Return(w) ==
    /\ Exists(w) /\ pods[w].run \in {"initCrash", "crashLoop", "hung"}
    /\ PromptPass => workerOperationPhase(pods[w], revision) # "ready"
    /\ Spend("returns")
    /\ pods' = [pods EXCEPT ![w].run = IF @ = "initCrash" THEN "starting" ELSE "up",
                            ![w].registered = FALSE]
    /\ UNCHANGED <<nodes, revision, status, handoff, ru>>

-----------------------------------------------------------------------------
(* slurmctld.                                                              *)

SlurmdRuns(w) == Exists(w) /\ pods[w].run = "up"

StartJob(w) ==
    /\ PromptPass => ru.pc \notin {"call", "delete"}
    /\ SlurmdRuns(w) /\ pods[w].registered
    /\ nodes[w].responding /\ ~nodes[w].down /\ ~nodes[w].drain
    /\ nodes[w].reboot = "none" /\ nodes[w].job = "none"
    /\ nodes' = [nodes EXCEPT ![w].job = "running"]
    /\ UNCHANGED <<pods, revision, status, handoff, ru, left>>

EndJob(w) ==
    /\ nodes[w].job # "none"
    /\ nodes' = [nodes EXCEPT ![w].job =
                    IF @ = "running" THEN "completing" ELSE "none"]
    /\ UNCHANGED <<pods, revision, status, handoff, ru, left>>

\* A node whose slurmd is silent is first not responding, then down.
Silent(w) ==
    /\ ~(SlurmdRuns(w) /\ pods[w].registered)
    /\ \/ /\ nodes[w].responding
          /\ nodes' = [nodes EXCEPT ![w].responding = FALSE]
       \/ /\ ~nodes[w].responding /\ ~nodes[w].down
          /\ nodes' = [nodes EXCEPT ![w].down = TRUE,
                          ![w].job = IF @ = "running" THEN "completing" ELSE @]
    /\ UNCHANGED <<pods, revision, status, handoff, ru, left>>

\* ReturnToService=2.  A reboot ends with the boot that slurmd reports; the
\* drain that ASAP has set may stay behind.
Register(w) ==
    /\ SlurmdRuns(w)
    /\ \/ /\ ~pods[w].registered /\ nodes[w].reboot = "issued"
          /\ \E stays \in BOOLEAN :
                nodes' = [nodes EXCEPT ![w].responding = TRUE, ![w].down = FALSE,
                                       ![w].reboot = "none", ![w].drain = stays,
                                       ![w].reason = IF stays THEN @ ELSE "none"]
       \/ /\ nodes[w].reboot # "issued"
          /\ ~pods[w].registered \/ nodes[w].down \/ ~nodes[w].responding
          /\ nodes' = [nodes EXCEPT ![w].responding = TRUE, ![w].down = FALSE]
    /\ pods' = [pods EXCEPT ![w].registered = TRUE]
    /\ UNCHANGED <<revision, status, handoff, ru, left>>

\* slurmctld sends the power action to an empty node.
IssueReboot(w) ==
    /\ nodes[w].reboot = "requested" /\ nodes[w].responding
    /\ nodes[w].job = "none" /\ handoff[w].pc = "off"
    /\ \E down \in BOOLEAN :
          nodes' = [nodes EXCEPT ![w].reboot = "issued", ![w].down = down]
    /\ handoff' = IF SlurmdRuns(w) /\ pods[w].registered
                  THEN [handoff EXCEPT ![w] = Started] ELSE handoff
    /\ UNCHANGED <<pods, revision, status, ru, left>>

\* ResumeTimeout is longer than the attempts of a handoff, a pass, the minute
\* after which the next one starts and the time the cache is behind.
RebootTimesOut(w) ==
    /\ nodes[w].reboot = "issued"
    /\ handoff[w].pc = "off" /\ ru.pc = "idle" /\ status.revision = revision
    /\ Exists(w) /\ workerOperationPhase(pods[w], revision) # "ready"
    /\ pods[w].registered
    /\ nodes' = [nodes EXCEPT ![w].reboot = "none", ![w].down = TRUE]
    /\ UNCHANGED <<pods, revision, status, handoff, ru, left>>

-----------------------------------------------------------------------------
\* A pod takes the program that runs in it along.
UpdateStep ==
    /\ RollingUpdateNext
    /\ handoff' = [w \in Workers |-> IF pods'[w] = NoPod THEN Off ELSE handoff[w]]
    /\ UNCHANGED left

\* The cache has not seen a newer status than the last pass did.
StalePass ==
    /\ status # ActualStatus
    /\ Trouble("stale")
    /\ Reconcile(status)
    /\ UNCHANGED handoff

HandoffStep(w) ==
    /\ get_worker_operation(w) \/ mark_ready(w)
    /\ UNCHANGED <<ru, left>>

Fault ==
    /\ Trouble("faults")
    /\ \/ PassFails /\ UNCHANGED handoff
       \/ (\E w \in Workers : HandoffRequestFails(w)) /\ UNCHANGED ru

Next ==
    \/ ChangeTemplate
    \/ UpdateStep
    \/ StalePass
    \/ Fault
    \/ \E w \in Workers :
          \/ RecreatePod(w)
          \/ PodUp(w)
          \/ Fail(w)
          \/ Return(w)
          \/ StartJob(w)
          \/ EndJob(w)
          \/ Silent(w)
          \/ Register(w)
          \/ IssueReboot(w)
          \/ RebootTimesOut(w)
          \/ HandoffStep(w)

Spec == Init /\ [][Next]_vars

\* Controllers, kubelets, slurmd and slurmctld keep working; jobs end; a failed
\* container need not come back.
Fairness ==
    /\ WF_vars(UpdateStep)
    /\ \A w \in Workers :
          /\ WF_vars(RecreatePod(w))
          /\ WF_vars(PodUp(w))
          /\ WF_vars(EndJob(w))
          /\ WF_vars(Silent(w))
          /\ WF_vars(Register(w))
          /\ WF_vars(IssueReboot(w))
          /\ SF_vars(RebootTimesOut(w))
          /\ WF_vars(HandoffStep(w))

FairSpec == Spec /\ Fairness

-----------------------------------------------------------------------------
(* Properties.                                                             *)

\* A pod is deleted only when its Slurm node has no job, running or completing:
\* the rolling update coordinates each replacement with Slurm.
JobsSurviveUpdate ==
    [][\A w \in Workers :
          Exists(w) /\ pods'[w] = NoPod => nodes[w].job = "none"]_vars

\* Workers whose pod is not ready, or is to be rebooted.
Disrupted ==
    {w \in Workers : podReady(pods[w]) =>
                        pods[w].registered /\ IsRebootState(nodes[w])}

\* Never more workers are unavailable or on their way to a reboot than
\* maxUnavailable allows.
WithinBudget == Cardinality(Disrupted) <= rebootBudget

\* Workers that have failed and have not been replaced or come back.
Failed ==
    {w \in Workers : Exists(w) /\ pods[w].run \in {"initCrash", "crashLoop"}}

Completed ==
    \A w \in Workers :
        /\ Exists(w) /\ pods[w].rev = revision
        /\ SlurmdRuns(w) => ~(nodes[w].drain /\ nodes[w].reason = "update")

\* Once the template no longer changes, every worker gets to run the last one,
\* and no running node is left drained by the update, whatever call failed and wherever
\* the operator was restarted; unless workers that stay failed use up the budget.
UpdateCompletes == <>[](Cardinality(Failed) < rebootBudget) => <>[]Completed
=============================================================================
