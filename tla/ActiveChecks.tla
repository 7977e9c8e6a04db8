----------------------------- MODULE ActiveChecks -----------------------------
(***************************************************************************)
(* Active checks end to end: the user, the two controllers, the CronJob    *)
(* controller, the pods that submit Slurm jobs, slurmctld and slurmdbd.    *)
(***************************************************************************)
EXTENDS ActiveCheckJobs

CONSTANTS Scenarios, \* how often the environment may do what it does: checks
                     \* are deleted, the schedule starts a run, finished Jobs
                     \* are pruned, the cluster leaves Available, pods fail,
                     \* calls fail or the controllers restart (faults), also
                     \* between the two writes of a pass (lost), slurmdbd does
                     \* not answer, Slurm jobs do not complete, copies of
                     \* the check are old (stale)
          Suspend    \* spec.suspend

Bounds == {"delete", "schedule", "prune", "cluster", "pods", "faults", "lost", "answers",
           "bad", "stale"}

ASSUME ScenariosAssumption ==
    /\ Scenarios \subseteq [Bounds -> Nat]
    /\ Suspend \in [Checks -> BOOLEAN]

VARIABLE left \* what the environment may still do

vars == <<runVars, checkVars, status, jobVars, left>>

\* Every variable has the type its declaration says.
TypeOK == RunsTypeOK /\ CheckTypeOK /\ JobsTypeOK /\ left \in [Bounds -> Nat]

Init == RunsInit /\ CheckInit /\ JobsInit /\ left \in Scenarios

Spend(b) ==
    /\ left[b] > 0
    /\ left' = [left EXCEPT ![b] = @ - 1]

\* Jobs that are created or updated are put into the queue.
JobEvents ==
    /\ jobQueue' = jobQueue \cup {j \in Checks \X Runs : /\ jobs'[j] # jobs[j]
                                                         /\ jobs'[j].phase # "none"}
    /\ UNCHANGED <<jobPass, posts>>

\* An update of the check by others makes the copies of it old.
CheckEvents(c) == jobPass' = Outdated(c) /\ UNCHANGED <<jobQueue, posts>>

-----------------------------------------------------------------------------
User == \E c \in Checks :
    \/ CreateCheck(c) /\ UNCHANGED <<jobVars, left>>
    \/ DeleteCheck(c) /\ Spend("delete") /\ CheckEvents(c)

Cluster ==
    /\ UNCHANGED jobVars
    /\ \/ ClusterBecomes("Available") /\ UNCHANGED left
       \/ \E st \in {"Not available", "Maintenance"} :
            cluster = "Available" /\ ClusterBecomes(st) /\ Spend("cluster")

CronJobs == \E c \in Checks, r \in Runs :
    /\ \/ ~Suspend[c] /\ Schedule(c, r) /\ Spend("schedule")
       \/ CollectJob(c, r) /\ UNCHANGED left
    /\ JobEvents

\* The history limits keep the last finished Job.  Those before it have been
\* reconciled long ago.
Prune(c, r) ==
    /\ Ended(c, r) /\ jobPass[<<c, r>>] = IdlePass /\ <<c, r>> \notin jobQueue
    /\ \E s \in Runs : s > r /\ Ended(c, s)
    /\ jobs' = [jobs EXCEPT ![<<c, r>>] = NoJob]
    /\ Spend("prune") /\ JobEvents
    /\ UNCHANGED <<slurmJobs, dbd, gpuNodes, now, checkVars, status>>

Pods == \E c \in Checks, r \in Runs :
    /\ \/ PodStarts(c, r) /\ UNCHANGED left
       \/ PodFails(c, r) /\ Spend("pods")
       \/ PodCompletes(c, r) /\ UNCHANGED left
       \/ Skip(c, r) /\ UNCHANGED left
       \/ Submit(c, r, TRUE) /\ UNCHANGED left
       \/ Submit(c, r, FALSE) /\ Spend("pods")
    /\ JobEvents /\ UNCHANGED <<checkVars, status>>

Slurm == \E i \in {k \in Ids : slurmJobs[k] # NoSlurmJob} :
    /\ \/ SlurmJobEnds(i, "COMPLETED") /\ UNCHANGED left
       \/ \E st \in Finished \ {"COMPLETED"} : SlurmJobEnds(i, st) /\ Spend("bad")
       \/ Recorded(i) /\ UNCHANGED left
    /\ UNCHANGED <<checkVars, status, jobVars>>

CheckController == \E c \in Checks :
    \/ Reconcile(c) /\ UNCHANGED left
       /\ IF check[c] = "new" THEN CheckEvents(c) ELSE UNCHANGED jobVars
    \/ Deploy(c) /\ UNCHANGED <<left, jobVars>>
    \/ runAfterCreation(c) /\ UNCHANGED left /\ JobEvents
    \/ reconcileDelete(c) /\ UNCHANGED left /\ CheckEvents(c)
    \/ ReconcileGone(c) /\ UNCHANGED <<left, jobVars>>
    \/ CheckPassFails(c) /\ Spend("faults") /\ UNCHANGED jobVars

\* The result of Slurm jobs that are marked handled is not in the status yet.
Unreported(c, r) == CheckType[c] = "slurmJob" /\ jobPass[<<c, r>>].pc = "report"
                    /\ jobPass[<<c, r>>].status.run = {r}

JobController == \E c \in Checks, r \in Runs :
    \/ JobReconcile(c, r, TRUE) /\ UNCHANGED left
    \/ JobReconcile(c, r, FALSE) /\ Spend("stale")
    \/ \E i \in jobPass[<<c, r>>].todo :
         \/ QueryJob(c, r, i) /\ UNCHANGED left
         \/ QueryFails(c, r, i) /\ Spend("answers")
         \/ ReactionFails(c, r, i) /\ Spend("faults")
    \/ PatchJob(c, r) /\ UNCHANGED left
    \/ UpdateStatus(c, r) /\ UNCHANGED left
    \/ MarkSkipped(c, r) /\ UNCHANGED left
    \/ WriteRefused(c, r) /\ UNCHANGED left
    \/ JobPassFails(c, r) /\ Spend(IF Unreported(c, r) THEN "lost" ELSE "faults")

\* The pod with the controllers restarts: everything is reconciled again.
Restart ==
    /\ Spend(IF \E c \in Checks, r \in Runs : Unreported(c, r) THEN "lost" ELSE "faults")
    /\ checkPass' = [c \in Checks |-> "idle"]
    /\ checkQueue' = {c \in Checks : check[c] \in {"new", "live", "deleting"}}
    /\ jobPass' = [j \in Checks \X Runs |-> IdlePass]
    /\ jobQueue' = {j \in Checks \X Runs : jobs[j].phase # "none"}
    /\ UNCHANGED <<runVars, check, cronJobs, scripts, cluster, status, posts>>

Next ==
    \/ User \/ Cluster \/ CronJobs \/ Pods \/ Slurm \/ CheckController \/ JobController
    \/ Restart
    \/ \E c \in Checks, r \in Runs : Prune(c, r)

Spec == Init /\ [][Next]_vars

\* What happens without trouble: the user creates the checks, the cluster is
\* available, pods and Slurm jobs make progress, and the controllers run.
Progress ==
    \/ User /\ left' = left
    \/ Cluster /\ left' = left
    \/ CronJobs /\ left' = left
    \/ Pods /\ left' = left

FairSpec ==
    /\ Spec
    /\ WF_vars(Progress)
    /\ WF_vars(Slurm /\ left' = left)
    /\ WF_vars(CheckController /\ left' = left)
    /\ WF_vars(JobController /\ left' = left)

-----------------------------------------------------------------------------
\* A run of a check that did what it was to do.
Succeeded(c, r) ==
    \/ CheckType[c] = "k8sJob" /\ jobs[<<c, r>>].phase = "Complete"
    \/ jobs[<<c, r>>].skipped
    \/ /\ jobs[<<c, r>>].ids # {}
       /\ \A i \in jobs[<<c, r>>].ids : slurmJobs[i].state = "COMPLETED"

\* Reconcile starts the first run of a check after a run of each of its
\* live prerequisites that run after creation has succeeded, whatever was retried,
\* restarted or reconciled again on the way (dependenciesReady).
PrerequisitesSucceedFirst ==
    [][\A c \in Checks :
         jobs'[<<c, initial>>].phase = "Pending" /\ jobs[<<c, initial>>].phase = "none" =>
           \A p \in DependsOn[c] :
              RunAfterCreation[p] /\ check[p] = "live" => \E r \in Runs : Succeeded(p, r)]_vars

\* A status that says Complete for a run is about a run all of whose Slurm
\* jobs have completed (deriveSlurmRunStatus over several passes).
CompleteRunsSucceeded ==
    \A c \in Checks, r \in Runs :
        CheckType[c] = "slurmJob" /\ status[c].slurm = "Complete" /\ status[c].run = {r}
        /\ jobs[<<c, r>>].phase # "none" =>
            Succeeded(c, r)

\* A check that is gone leaves no CronJob and no ConfigMap behind, although
\* both belong to the SlurmCluster, and a pass may be deploying them when the
\* check is deleted (reconcileDelete).
NothingLeftBehind ==
    \A c \in Checks : check[c] = "gone" => c \notin cronJobs /\ c \notin scripts

\* The nodes of a Slurm job that failed get the failure reactions of the
\* check, if the run was announced and its check is not deleted
\* (executeFailureReactions).
FailuresHaveReactions ==
    \A i \in Ids :
        LET j == <<i[1], i[2]>> IN
        slurmJobs[i].state = "FAILED" /\ i \in jobs[j].ids ~>
            \/ Reaction("fail", i) \subseteq posts
            \/ jobs[j].phase \in {"Failed", "none"} \/ check[i[1]] \in {"deleting", "gone"}

Reported(c) ==
    \/ status[c].k8s \in {"Complete", "Failed"}
    \/ status[c].slurm \in {"Complete", "Failed", "Error", "Cancelled", "Skipped"}

\* Every check that runs after creation reports the end of a run in the end,
\* unless it is deleted or waits for a prerequisite that does not succeed.
ChecksReport ==
    \A c \in Checks : RunAfterCreation[c] =>
        <>[](\/ Reported(c) \/ check[c] = "gone"
             \/ \E p \in DependsOn[c] : RunAfterCreation[p]
                                        /\ (~PrerequisiteReady(p) \/ check[p] = "gone"))
=============================================================================
