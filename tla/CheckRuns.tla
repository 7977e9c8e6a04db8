------------------------------- MODULE CheckRuns -------------------------------
(***************************************************************************)
(* The runs of active checks: the Kubernetes Job of a run, the entrypoint  *)
(* its pod executes, the Slurm jobs it submits and what slurmdbd records   *)
(* of them.                                                                *)
(***************************************************************************)
EXTENDS FiniteSetsExt, Integers, TLC

CONSTANTS Checks,         \* the ActiveChecks
          Nodes,          \* the Slurm nodes of the hidden partition
          CheckType,      \* spec.checkType of each check
          EachWorkerJobs, \* spec.slurmJobSpec.eachWorkerJobs of each check
          MaxNumberOfJobs,\* spec.slurmJobSpec.maxNumberOfJobs; 0: no limit
          RequiresGPU,    \* the sbatch script asks for GPUs
          Later           \* how many runs the schedule may start

\* The run after creation, and those of the schedule.
Runs == 0 .. Later

initial == 0

\* A Slurm job: of a check, of a run, and the node it was submitted for.
Ids == {i \in Checks \X Runs \X (Nodes \cup {"batch"}) :
          CheckType[i[1]] = "slurmJob" /\ (EachWorkerJobs[i[1]] <=> i[3] # "batch")}

ASSUME ChecksAssumption ==
    /\ CheckType \in [Checks -> {"k8sJob", "slurmJob"}]
    /\ EachWorkerJobs \in [Checks -> BOOLEAN]
    /\ MaxNumberOfJobs \in [Checks -> Nat]
    /\ RequiresGPU \in [Checks -> BOOLEAN]
    /\ Later \in Nat

VARIABLES jobs,     \* the Kubernetes Job of each run
          slurmJobs,\* the Slurm jobs, as slurmctld has them
          dbd,      \* the state of each Slurm job in accounting
          gpuNodes, \* the nodes with GPUs in the Slurm configuration
          now       \* the second of the clock

runVars == <<jobs, slurmJobs, dbd, gpuNodes, now>>

NoJob == [phase |-> "none", ids |-> {}, unhandled |-> {}, final |-> 0, skipped |-> FALSE]

NoSlurmJob == [state |-> "none", end |-> 0, nodes |-> {}]

Finished == {"COMPLETED", "FAILED", "CANCELLED", "TIMEOUT"}

RunsTypeOK ==
    /\ jobs \in [Checks \X Runs ->
                    [phase : {"none", "Pending", "Active", "Complete", "Failed"},
                     ids : SUBSET Ids, unhandled : SUBSET Ids, final : Nat,
                     skipped : BOOLEAN]]
    /\ slurmJobs \in [Ids -> [state : Finished \cup {"none", "RUNNING"}, end : Nat,
                              nodes : SUBSET Nodes]]
    /\ dbd \in [Ids -> Finished \cup {"none", "RUNNING"}]
    /\ gpuNodes \subseteq Nodes /\ now \in Nat

RunsInit ==
    /\ jobs = [j \in Checks \X Runs |-> NoJob]
    /\ slurmJobs = [i \in Ids |-> NoSlurmJob]
    /\ dbd = [i \in Ids |-> "none"]
    /\ gpuNodes \in SUBSET Nodes
    /\ now = 0

NewJob == [NoJob EXCEPT !.phase = "Pending"]

Ended(c, r) == jobs[<<c, r>>].phase \in {"Complete", "Failed"}

IsTerminalState(st) == st \in Finished

-----------------------------------------------------------------------------
(* The pod of the Job.                                                     *)

PodStarts(c, r) ==
    /\ jobs[<<c, r>>].phase = "Pending"
    /\ jobs' = [jobs EXCEPT ![<<c, r>>].phase = "Active"]
    /\ UNCHANGED <<slurmJobs, dbd, gpuNodes, now>>

\* A pod that fails, or runs into activeDeadlineSeconds; there is no retry.
PodFails(c, r) ==
    /\ jobs[<<c, r>>].phase = "Active"
    /\ jobs' = [jobs EXCEPT ![<<c, r>>].phase = "Failed"]
    /\ UNCHANGED <<slurmJobs, dbd, gpuNodes, now>>

\* The container ends with exit code 0.
PodCompletes(c, r) ==
    /\ jobs[<<c, r>>].phase = "Active"
    /\ \/ CheckType[c] = "k8sJob"
       \/ jobs[<<c, r>>].ids # {}
       \/ jobs[<<c, r>>].skipped
    /\ jobs' = [jobs EXCEPT ![<<c, r>>].phase = "Complete"]
    /\ UNCHANGED <<slurmJobs, dbd, gpuNodes, now>>

\* The entrypoint marks a check that needs GPUs a cluster without them lacks.
Skip(c, r) ==
    /\ CheckType[c] = "slurmJob" /\ jobs[<<c, r>>].phase = "Active"
    /\ RequiresGPU[c] /\ gpuNodes = {} /\ ~jobs[<<c, r>>].skipped
    /\ jobs' = [jobs EXCEPT ![<<c, r>>].skipped = TRUE]
    /\ UNCHANGED <<slurmJobs, dbd, gpuNodes, now>>

\* The nodes slurm_submit_jobs.sh may select.
Candidates(c) == IF RequiresGPU[c] THEN gpuNodes ELSE Nodes

\* slurm_submit_jobs.sh: a job for each selected node that sbatch accepts.
SubmitJobs(c, r) ==
    LET size == IF MaxNumberOfJobs[c] = 0 THEN Cardinality(Candidates(c))
                ELSE Min({MaxNumberOfJobs[c], Cardinality(Candidates(c))})
    IN {[i \in {<<c, r, n>> : n \in S} |-> {i[3]}] :
            S \in {T \in SUBSET Candidates(c) : T # {} /\ Cardinality(T) <= size}}

\* The entrypoint's own sbatch: one job, on nodes slurmctld chooses.
SubmitJob(c, r) == {[i \in {<<c, r, "batch">>} |-> S] : S \in (SUBSET Nodes) \ {{}}}

\* The active jobs with the name of an eachWorkerJobs check are cancelled.
Scancelled(c) ==
    {i \in Ids : i[1] = c /\ EachWorkerJobs[c] /\ slurmJobs[i].state = "RUNNING"}

\* slurm_check_job_entrypoint.sh: submit, then annotate the Job.  When the
\* annotation fails, the Slurm jobs run on and the Job fails.
Submit(c, r, annotated) ==
    /\ CheckType[c] = "slurmJob" /\ jobs[<<c, r>>].phase = "Active"
    /\ jobs[<<c, r>>].ids = {} /\ ~(RequiresGPU[c] /\ gpuNodes = {})
    /\ \E new \in IF EachWorkerJobs[c] THEN SubmitJobs(c, r) ELSE SubmitJob(c, r) :
         /\ \A i \in DOMAIN new : slurmJobs[i] = NoSlurmJob
         /\ slurmJobs' = [i \in Ids |->
              IF i \in DOMAIN new
              THEN [state |-> "RUNNING", end |-> 0, nodes |-> new[i]]
              ELSE IF i \in Scancelled(c)
              THEN [slurmJobs[i] EXCEPT !.state = "CANCELLED", !.end = now + 1]
              ELSE slurmJobs[i]]
         /\ jobs' = IF annotated
                    THEN [jobs EXCEPT ![<<c, r>>].ids = DOMAIN new,
                                      ![<<c, r>>].unhandled = DOMAIN new]
                    ELSE [jobs EXCEPT ![<<c, r>>].phase = "Failed"]
         /\ now' = IF Scancelled(c) = {} THEN now ELSE now + 1
    /\ UNCHANGED <<dbd, gpuNodes>>

-----------------------------------------------------------------------------
(* Slurm.                                                                  *)

\* A job ends, in the second of the job before or in a later one.
SlurmJobEnds(i, st) ==
    /\ slurmJobs[i].state = "RUNNING"
    /\ now' \in {now, now + 1} \ {0}
    /\ slurmJobs' = [slurmJobs EXCEPT ![i].state = st, ![i].end = now']
    /\ UNCHANGED <<jobs, dbd, gpuNodes>>

\* slurmctld's record of a job reaches slurmdbd.
Recorded(i) ==
    /\ dbd[i] # slurmJobs[i].state
    /\ dbd' = [dbd EXCEPT ![i] = slurmJobs[i].state]
    /\ UNCHANGED <<jobs, slurmJobs, gpuNodes, now>>
=============================================================================
