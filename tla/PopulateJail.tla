---------------------------- MODULE PopulateJail ----------------------------
(* The Job that fills the jail, the file system all pods of the cluster      *)
(* share, and the part of the cluster controller that creates it, waits for  *)
(* it and removes it (clustercontroller/populate_job.go).                    *)
EXTENDS ClusterController

VARIABLES
    job,    \* the Job: absent, running, failed or succeeded, and its OVERWRITE
    jail,   \* whether it has been filled, and the request to fill it again
    pods    \* the pods of each workload: none, starting or ready

populateVars == <<job, jail, pods>>

NoJob == [state |-> "absent", overwrite |-> FALSE]

isConditionNonOverwrite ==
    pass.mode \notin {"unset", "downscaleAndOverwritePopulateJail"}

\* Pods that failed or completed have been replaced or removed.
hasNonTerminalLoginOrWorkerPods ==
    pods["login"] # "none" \/ pods["workers"] # "none"

RenderPopulateJailJob(v) ==
    [state |-> "running",
     overwrite |-> \/ v.PopulateJail.overwrite
                   \/ IsModeDownscaleAndOverwritePopulate(v.maintenance)]

GoOn(requeue) ==
    pass' = [pass EXCEPT !.at = Head(ResourceSteps), !.requeue = requeue]

\* Mutant: a Job that exists is deleted whatever the condition says, and the
\* pass returns.
JobExistsReturns ==
    LET delete == IsModeDownscaleAndOverwritePopulate(pass.spec.maintenance)
    IN /\ job.state # "absent"
       /\ job' = IF delete THEN NoJob ELSE job
       /\ pass' = Idle
       /\ queued' = (queued \/ delete \/ job.state # "succeeded")

\* The Job exists.  Deleting it starts another pass.  Whether it has succeeded
\* is read from the copy that was fetched before it was deleted.
JobExists ==
    LET delete == \/ IsModeDownscaleAndDeletePopulate(pass.spec.maintenance)
                  \/ /\ IsModeDownscaleAndOverwritePopulate(pass.spec.maintenance)
                     /\ isConditionNonOverwrite
        ready  == \/ IsModeDownscaleAndDeletePopulate(pass.spec.maintenance)
                  \/ job.state = "succeeded"
    IN /\ job.state # "absent"
       /\ job' = IF delete THEN NoJob ELSE job
       /\ IF ready THEN GoOn(FALSE) ELSE pass' = Idle
       /\ queued' = (queued \/ delete \/ ~ready)

\* No Job is created in maintenance that removes it, or over running pods.
JobNotNeeded ==
    /\ job.state = "absent"
    /\ \/ IsModeDownscaleAndDeletePopulate(pass.spec.maintenance)
       \/ hasNonTerminalLoginOrWorkerPods
    /\ GoOn(IsModeDownscaleAndOverwritePopulate(pass.spec.maintenance))
    /\ UNCHANGED <<job, queued>>

\* Mutant: the pass does not wait for the Job it creates.
JobCreatedWithoutWait ==
    /\ job.state = "absent"
    /\ ~IsModeDownscaleAndDeletePopulate(pass.spec.maintenance)
    /\ ~hasNonTerminalLoginOrWorkerPods
    /\ job' = RenderPopulateJailJob(Values)
    /\ GoOn(FALSE) /\ queued' = TRUE

\* Rendering the Job panics when a name is not found in the spec.
JobCreated ==
    LET v == Values
        renders == /\ NodeFilterFound(v, v.PopulateJail)
                   /\ VolumeSourcesFound(v, v.PopulateJail)
    IN /\ job.state = "absent"
       /\ ~IsModeDownscaleAndDeletePopulate(pass.spec.maintenance)
       /\ ~hasNonTerminalLoginOrWorkerPods
       /\ job' = IF renders THEN RenderPopulateJailJob(v) ELSE job
       /\ pass' = IF renders THEN [pass EXCEPT !.at = "poll"] ELSE Idle
       /\ queued' = TRUE

ReconcilePopulateJail ==
    /\ pass.at = "populate"
    /\ JobExists \/ JobNotNeeded \/ JobCreated

\* The pass waits until the Job has succeeded; nothing else ends the wait, but
\* an error of the read.
PollSucceeded ==
    /\ pass.at = "poll" /\ job.state = "succeeded"
    /\ GoOn(FALSE) /\ UNCHANGED <<job, queued>>

PollFails ==
    /\ pass.at = "poll" /\ job.state = "absent"
    /\ pass' = Idle /\ queued' = TRUE /\ UNCHANGED job

\* A request fails, or the cache does not show the new Job to the first read.
PopulateFails ==
    /\ pass.at \in {"populate", "poll"}
    /\ pass' = Idle /\ queued' = TRUE /\ UNCHANGED job

----------------------------------------------------------------------------
(* The Job's pod.                                                            *)

JobSucceeds ==
    /\ job.state = "running"
    /\ job' = [job EXCEPT !.state = "succeeded"]
    /\ jail' = [populated |-> TRUE,
                asked |-> IF job.overwrite /\ jail.asked = "asked" THEN "done" ELSE jail.asked]

JobFails ==
    /\ job.state = "running"
    /\ job' = [job EXCEPT !.state = "failed"]
    /\ UNCHANGED jail

JobDeleted ==
    /\ job.state # "absent"
    /\ job' = NoJob
    /\ UNCHANGED jail
=============================================================================
