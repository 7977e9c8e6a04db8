------------------------- MODULE ActiveCheckController -------------------------
(***************************************************************************)
(* The ActiveCheck controller: a CronJob (and the ConfigMap of an inline   *)
(* sbatch script) for each check whose prerequisites are ready, one run    *)
(* right after the CronJob is created, and the finalizer that removes both.*)
(* Job and status of a check are written by others.                        *)
(***************************************************************************)
EXTENDS CheckRuns

CONSTANTS DependsOn,        \* spec.dependsOn
          RunAfterCreation, \* spec.runAfterCreation
          InlineScript      \* spec.slurmJobSpec.sbatchScript is set

ASSUME DependsAssumption ==
    /\ DependsOn \in [Checks -> SUBSET Checks]
    /\ {RunAfterCreation, InlineScript} \subseteq [Checks -> BOOLEAN]

VARIABLES check,     \* the ActiveCheck: absent, without finalizer, live, ...
          cronJobs,  \* the checks that have a CronJob
          scripts,   \* the checks that have a ConfigMap with their script
          status,    \* the status of each ActiveCheck
          cluster,   \* the SlurmCluster: its phase, or in maintenance
          checkPass, \* the step of the pass of Reconcile over each check
          checkQueue \* the work queue

checkVars == <<check, cronJobs, scripts, cluster, checkPass, checkQueue>>

\* ActiveCheckStatus: the fields of both kinds of check that are read again.
NoStatus == [k8s |-> "", transition |-> FALSE, run |-> {}, slurm |-> "",
             fail |-> {}, error |-> {}, cancelled |-> {}]

CheckTypeOK ==
    /\ check \in [Checks -> {"absent", "new", "live", "deleting", "gone"}]
    /\ cronJobs \subseteq Checks /\ scripts \subseteq Checks
    /\ status \in [Checks ->
         [k8s : {"", "Active", "Complete", "Failed", "Pending"}, transition : BOOLEAN,
          run : SUBSET Runs,
          slurm : {"", "InProgress", "Complete", "Failed", "Error", "Cancelled", "Skipped"},
          fail : SUBSET Ids, error : SUBSET Ids, cancelled : SUBSET Ids]]
    /\ cluster \in {"nil", "Not available", "Available", "Maintenance"}
    /\ checkPass \in [Checks -> {"idle", "deploy", "run"}]
    /\ checkQueue \subseteq Checks

CheckInit ==
    /\ check = [c \in Checks |-> "absent"]
    /\ cronJobs = {} /\ scripts = {}
    /\ status = [c \in Checks |-> NoStatus]
    /\ cluster = "nil"
    /\ checkPass = [c \in Checks |-> "idle"]
    /\ checkQueue = {}

-----------------------------------------------------------------------------
(* The user, and the SlurmCluster.                                         *)

CreateCheck(c) ==
    /\ check[c] = "absent"
    /\ check' = [check EXCEPT ![c] = "new"]
    /\ checkQueue' = checkQueue \cup {c}
    /\ UNCHANGED <<cronJobs, scripts, cluster, checkPass, status, runVars>>

\* Only a check with the finalizer waits for the controller.
DeleteCheck(c) ==
    /\ check[c] \in {"new", "live"}
    /\ check' = [check EXCEPT ![c] = IF @ = "new" THEN "gone" ELSE "deleting"]
    /\ checkQueue' = checkQueue \cup {c}
    /\ UNCHANGED <<cronJobs, scripts, cluster, checkPass, status, runVars>>

ClusterBecomes(st) ==
    /\ cluster # st
    /\ cluster' = st
    /\ UNCHANGED <<check, cronJobs, scripts, checkPass, checkQueue, status, runVars>>

-----------------------------------------------------------------------------
(* Reconcile.                                                              *)

\* Mutant: a prerequisite that has failed is done, too.
PrerequisiteEnded(p) ==
    CASE CheckType[p] = "k8sJob"   -> status[p].k8s \in {"Complete", "Failed"}
      [] CheckType[p] = "slurmJob" -> status[p].slurm \in {"Complete", "Skipped", "Failed"}

PrerequisiteReady(p) ==
    CASE CheckType[p] = "k8sJob"   -> status[p].k8s = "Complete"
      [] CheckType[p] = "slurmJob" -> status[p].slurm \in {"Complete", "Skipped"}

\* A phase that is not set yet makes the pass fail, which retries it as well.
dependenciesReady(c) ==
    /\ cluster = "Available"
    /\ \A p \in DependsOn[c] :
         /\ check[p] \in {"new", "live", "deleting"}
         /\ RunAfterCreation[p] => PrerequisiteReady(p)

\* Mutant: a check that is not ready waits for its next event.
ReconcileOnce(c) ==
    /\ checkPass[c] = "idle" /\ c \in checkQueue
    /\ check[c] \in {"new", "live"}
    /\ check' = [check EXCEPT ![c] = "live"]
    /\ checkPass' = [checkPass EXCEPT ![c] = IF dependenciesReady(c) THEN "deploy" ELSE "idle"]
    /\ checkQueue' = checkQueue \ {c}
    /\ UNCHANGED <<cronJobs, scripts, cluster, status, runVars>>

\* Reconcile up to the steps: finalizer, then the prerequisites; a check that
\* is not ready is tried again after requeueAfter.
Reconcile(c) ==
    /\ checkPass[c] = "idle" /\ c \in checkQueue
    /\ check[c] \in {"new", "live"}
    /\ check' = [check EXCEPT ![c] = "live"]
    /\ checkPass' = [checkPass EXCEPT ![c] = IF dependenciesReady(c) THEN "deploy" ELSE "idle"]
    /\ checkQueue' = IF dependenciesReady(c) THEN checkQueue \ {c} ELSE checkQueue
    /\ UNCHANGED <<cronJobs, scripts, cluster, status, runVars>>

\* The ConfigMap of the script and the CronJob.
Deploy(c) ==
    /\ checkPass[c] = "deploy"
    /\ scripts' = IF InlineScript[c] THEN scripts \cup {c} ELSE scripts
    /\ cronJobs' = cronJobs \cup {c}
    /\ checkPass' = [checkPass EXCEPT ![c] = "run"]
    /\ UNCHANGED <<check, cluster, checkQueue, status, runVars>>

\* runAfterCreation, which asks the status of Kubernetes checks of all checks.
runAfterCreation(c) ==
    /\ checkPass[c] = "run"
    /\ jobs' = IF RunAfterCreation[c] /\ ~status[c].transition
                  /\ jobs[<<c, initial>>].phase = "none"
               THEN [jobs EXCEPT ![<<c, initial>>] = NewJob] ELSE jobs
    /\ checkPass' = [checkPass EXCEPT ![c] = "idle"]
    /\ UNCHANGED <<check, cronJobs, scripts, cluster, checkQueue, status,
                   slurmJobs, dbd, gpuNodes, now>>

\* An error of a call, or a restart of the pod: the pass starts again.
CheckPassFails(c) ==
    /\ checkPass[c] # "idle"
    /\ checkPass' = [checkPass EXCEPT ![c] = "idle"]
    /\ checkQueue' = checkQueue \cup {c}
    /\ UNCHANGED <<check, cronJobs, scripts, cluster, status, runVars>>

\* Mutant: the script of a deleted check is left behind.
reconcileDeleteCronJob(c) ==
    /\ checkPass[c] = "idle" /\ c \in checkQueue /\ check[c] = "deleting"
    /\ cronJobs' = cronJobs \ {c}
    /\ check' = [check EXCEPT ![c] = "gone"]
    /\ checkQueue' = checkQueue \ {c}
    /\ UNCHANGED <<scripts, cluster, checkPass, status, runVars>>

\* The CronJob, the ConfigMap, then the finalizer.
reconcileDelete(c) ==
    /\ checkPass[c] = "idle" /\ c \in checkQueue /\ check[c] = "deleting"
    /\ cronJobs' = cronJobs \ {c}
    /\ scripts' = IF InlineScript[c] THEN scripts \ {c} ELSE scripts
    /\ check' = [check EXCEPT ![c] = "gone"]
    /\ checkQueue' = checkQueue \ {c}
    /\ UNCHANGED <<cluster, checkPass, status, runVars>>

\* The object is gone: there is nothing to do.
ReconcileGone(c) ==
    /\ checkPass[c] = "idle" /\ c \in checkQueue /\ check[c] = "gone"
    /\ checkQueue' = checkQueue \ {c}
    /\ UNCHANGED <<check, cronJobs, scripts, cluster, checkPass, status, runVars>>

-----------------------------------------------------------------------------
(* The CronJob controller and the garbage collector.                       *)

\* ForbidConcurrent: no run of the check is pending or active.
Schedule(c, r) ==
    /\ c \in cronJobs /\ r # initial /\ jobs[<<c, r>>].phase = "none"
    /\ \A s \in Runs : jobs[<<c, s>>].phase \notin {"Pending", "Active"}
    /\ \A s \in Runs \ {initial} : s < r => jobs[<<c, s>>].phase # "none"
    /\ jobs' = [jobs EXCEPT ![<<c, r>>] = NewJob]
    /\ UNCHANGED <<checkVars, status, slurmJobs, dbd, gpuNodes, now>>

\* The Jobs of a CronJob that was deleted.
CollectJob(c, r) ==
    /\ c \notin cronJobs /\ jobs[<<c, r>>].phase # "none"
    /\ jobs' = [jobs EXCEPT ![<<c, r>>] = NoJob]
    /\ UNCHANGED <<checkVars, status, slurmJobs, dbd, gpuNodes, now>>
=============================================================================
