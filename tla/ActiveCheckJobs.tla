---------------------------- MODULE ActiveCheckJobs ----------------------------
(***************************************************************************)
(* The controller of the Jobs of active checks: it follows the Slurm jobs  *)
(* of a run in accounting, applies the reactions of the check to the nodes *)
(* of those that have ended, and writes the status of the check.           *)
(***************************************************************************)
EXTENDS ActiveCheckController

CONSTANT Reactions \* the kinds of reactions each check has

ASSUME ReactionsAssumption == Reactions \in [Checks -> SUBSET {"fail", "success"}]

VARIABLES jobPass,  \* the pass of Reconcile over each Job
          jobQueue, \* the work queue
          posts     \* reactions that reached slurmctld: kind, Slurm job, node

jobVars == <<jobPass, jobQueue, posts>>

IdlePass == [pc |-> "idle", todo |-> {}, last |-> 0, latest |-> 0, unhandled |-> {},
             requeue |-> FALSE, fresh |-> FALSE, status |-> NoStatus]

JobsTypeOK ==
    /\ DOMAIN jobPass = Checks \X Runs
    /\ \A j \in Checks \X Runs :
         /\ jobPass[j].pc \in {"idle", "query", "patch", "report", "mark"}
         /\ jobPass[j].todo \cup jobPass[j].unhandled \subseteq jobs[j].ids \cup Ids
         /\ {jobPass[j].last, jobPass[j].latest} \subseteq Nat
         /\ {jobPass[j].requeue, jobPass[j].fresh} \subseteq BOOLEAN
    /\ jobQueue \subseteq Checks \X Runs
    /\ posts \subseteq {"fail", "success"} \X Ids \X Nodes

JobsInit ==
    /\ jobPass = [j \in Checks \X Runs |-> IdlePass]
    /\ jobQueue = {} /\ posts = {}

getK8sJobStatus(j) == jobs[j].phase

\* The status for a run without Slurm jobs.
NoSlurmRun(c, st) == [status[c] EXCEPT !.run = {}, !.slurm = st, !.fail = {}, !.error = {},
                                       !.cancelled = {}]

deriveSlurmRunStatus(requeue, s) ==
    IF requeue THEN "InProgress"
    ELSE IF s.fail # {} THEN "Failed"
    ELSE IF s.error # {} THEN "Error"
    ELSE IF s.cancelled # {} THEN "Cancelled" ELSE "Complete"

Go(j, p) == jobPass' = [jobPass EXCEPT ![j] = p]

\* The pass ends, and is repeated when it failed or asked for it.
EndPass(j, again) ==
    /\ Go(j, IdlePass)
    /\ jobQueue' = IF again THEN jobQueue \cup {j} ELSE jobQueue \ {j}

-----------------------------------------------------------------------------
(* Reconcile up to the first write; `fresh' says whether the copy of the   *)
(* check that was read is the latest one.                                  *)

\* Mutant: only a Job that is still active is looked at.
IgnoredUnlessActive(c, r) ==
    \/ jobs[<<c, r>>].phase \in {"none", "Pending", "Complete"}
    \/ check[c] \in {"absent", "gone"} \/ c \notin cronJobs
    \/ /\ CheckType[c] = "slurmJob"
       /\ IF jobs[<<c, r>>].skipped THEN jobs[<<c, r>>].final # 0
          ELSE jobs[<<c, r>>].phase # "Failed" /\ jobs[<<c, r>>].ids = {}
    \/ /\ CheckType[c] = "k8sJob" /\ status[c].transition
       /\ status[c].k8s = getK8sJobStatus(<<c, r>>) /\ status[c].run = {r}

\* Nothing to do: no pod or annotation yet, or check or CronJob are gone.
Ignored(c, r) ==
    \/ jobs[<<c, r>>].phase \in {"none", "Pending"}
    \/ check[c] \in {"absent", "gone"} \/ c \notin cronJobs
    \/ /\ CheckType[c] = "slurmJob"
       /\ IF jobs[<<c, r>>].skipped THEN jobs[<<c, r>>].final # 0
          ELSE jobs[<<c, r>>].phase # "Failed" /\ jobs[<<c, r>>].ids = {}
    \/ /\ CheckType[c] = "k8sJob" /\ status[c].transition
       /\ status[c].k8s = getK8sJobStatus(<<c, r>>) /\ status[c].run = {r}

\* A Kubernetes check: the state of its Job.
K8sStatus(c, r) == [status[c] EXCEPT !.k8s = getK8sJobStatus(<<c, r>>), !.run = {r},
                                     !.transition = TRUE]

\* A Slurm check: what is known of this run, or nothing of another one.
StartOfRun(c, r) ==
    IF status[c].run = {r} THEN status[c]
    ELSE [NoStatus EXCEPT !.run = {r}, !.k8s = status[c].k8s, !.transition = status[c].transition]

JobReconcile(c, r, fresh) ==
    LET j == <<c, r>>
        start == [IdlePass EXCEPT !.fresh = fresh]
    IN /\ jobPass[j].pc = "idle" /\ j \in jobQueue
       /\ \/ Ignored(c, r) /\ EndPass(j, FALSE)
          \/ /\ ~Ignored(c, r) /\ jobQueue' = jobQueue \ {j}
             /\ \/ /\ CheckType[c] = "k8sJob"
                   /\ Go(j, [start EXCEPT !.pc = "report", !.status = K8sStatus(c, r)])
                \/ /\ CheckType[c] = "slurmJob" /\ jobs[j].skipped /\ Ended(c, r)
                   /\ Go(j, [start EXCEPT !.pc = "report",
                                          !.status = NoSlurmRun(c, "Skipped")])
                \/ /\ CheckType[c] = "slurmJob" /\ ~jobs[j].skipped
                   /\ IF jobs[j].phase = "Failed"
                      THEN Go(j, [start EXCEPT !.pc = "report",
                                               !.status = NoSlurmRun(c, "Error")])
                      ELSE Go(j, [start EXCEPT !.pc = "query", !.todo = jobs[j].unhandled,
                                               !.last = jobs[j].final,
                                               !.latest = jobs[j].final,
                                               !.status = StartOfRun(c, r)])
          \/ /\ CheckType[c] = "slurmJob" /\ jobs[j].skipped
             /\ ~Ignored(c, r) /\ ~Ended(c, r)
             /\ UNCHANGED <<jobPass, jobQueue>>
       /\ UNCHANGED <<runVars, checkVars, status, posts>>

-----------------------------------------------------------------------------
(* The loop over the unhandled Slurm jobs.                                 *)

\* Mutant: a job without a record has nothing left to handle.
EmptyAnswerHandled(p, i) ==
    IF dbd[i] = "none" THEN [p EXCEPT !.todo = @ \ {i}]
    ELSE [p EXCEPT !.todo = @ \ {i}, !.unhandled = @ \cup {i}, !.requeue = TRUE]

\* An error, an empty answer or a job that runs: the job stays unhandled.
StaysUnhandled(p, i) ==
    [p EXCEPT !.todo = @ \ {i}, !.unhandled = @ \cup {i}, !.requeue = TRUE]

\* executeReactions, then updateSlurmNodeWithReactions for each node.
Reaction(kind, i) ==
    IF kind \in Reactions[i[1]] THEN {<<kind, i, n>> : n \in slurmJobs[i].nodes} ELSE {}

Handled(p, i) ==
    LET st == dbd[i]
        q == [p EXCEPT !.todo = @ \ {i}, !.latest = Max({@, slurmJobs[i].end})]
    IN IF slurmJobs[i].end <= p.last THEN [p EXCEPT !.todo = @ \ {i}]
       ELSE CASE st = "FAILED"    -> [q EXCEPT !.status.fail = @ \cup {i}]
              [] st = "CANCELLED" -> [q EXCEPT !.status.cancelled = @ \cup {i}]
              [] st = "COMPLETED" -> q
              [] OTHER            -> [q EXCEPT !.status.error = @ \cup {i}]

Posted(p, i) ==
    IF slurmJobs[i].end <= p.last THEN {}
    ELSE CASE dbd[i] = "FAILED"    -> Reaction("fail", i)
           [] dbd[i] = "COMPLETED" -> Reaction("success", i)
           [] OTHER                -> {}

QueryJob(c, r, i) ==
    LET j == <<c, r>> IN
    /\ jobPass[j].pc = "query" /\ i \in jobPass[j].todo
    /\ \/ /\ ~IsTerminalState(dbd[i])
          /\ Go(j, StaysUnhandled(jobPass[j], i))
          /\ UNCHANGED posts
       \/ /\ IsTerminalState(dbd[i])
          /\ Go(j, Handled(jobPass[j], i))
          /\ posts' = posts \cup Posted(jobPass[j], i)
    /\ UNCHANGED <<runVars, checkVars, status, jobQueue>>

\* slurmdbd does not answer.
QueryFails(c, r, i) ==
    LET j == <<c, r>> IN
    /\ jobPass[j].pc = "query" /\ i \in jobPass[j].todo
    /\ Go(j, StaysUnhandled(jobPass[j], i))
    /\ UNCHANGED <<runVars, checkVars, status, jobQueue, posts>>

\* slurmctld refuses the update of one of the nodes: some are updated.
ReactionFails(c, r, i) ==
    LET j == <<c, r>> IN
    /\ jobPass[j].pc = "query" /\ i \in jobPass[j].todo /\ IsTerminalState(dbd[i])
    /\ \E some \in SUBSET Posted(jobPass[j], i) :
         /\ some # Posted(jobPass[j], i)
         /\ posts' = posts \cup some
    /\ EndPass(j, TRUE)
    /\ UNCHANGED <<runVars, checkVars, status>>

-----------------------------------------------------------------------------
(* The writes: the annotations of the Job, then the status of the check.   *)

PatchJob(c, r) ==
    LET j == <<c, r>> p == jobPass[j] IN
    /\ p.pc = "query" /\ p.todo = {} /\ jobs[j].phase # "none"
    /\ jobs' = [jobs EXCEPT ![j].unhandled = p.unhandled, ![j].final = p.latest]
    /\ jobQueue' = jobQueue \cup {k \in {j} : jobs'[k] # jobs[k]}
    /\ Go(j, [p EXCEPT !.pc = "report",
                       !.status.slurm = deriveSlurmRunStatus(p.requeue, p.status)])
    /\ UNCHANGED <<slurmJobs, dbd, gpuNodes, now, checkVars, status, posts>>

\* Every other pass has an old copy of the check from now on.
Outdated(c) == [k \in Checks \X Runs |->
                  IF k[1] = c THEN [jobPass[k] EXCEPT !.fresh = FALSE] ELSE jobPass[k]]

\* The update of the status, of the copy the pass has read.
UpdateStatus(c, r) ==
    LET j == <<c, r>> p == jobPass[j] IN
    /\ p.pc = "report" /\ p.fresh /\ check[c] \in {"new", "live", "deleting"}
    /\ status' = [status EXCEPT ![c] = p.status]
    /\ IF p.status.slurm = "Skipped" /\ CheckType[c] = "slurmJob"
       THEN /\ jobPass' = [Outdated(c) EXCEPT ![j] = [p EXCEPT !.pc = "mark"]]
            /\ UNCHANGED jobQueue
       ELSE /\ jobPass' = [Outdated(c) EXCEPT ![j] = IdlePass]
            /\ jobQueue' = IF p.requeue THEN jobQueue \cup {j} ELSE jobQueue
    /\ UNCHANGED <<runVars, checkVars, posts>>

\* A Job whose run was skipped is marked final.
MarkSkipped(c, r) ==
    LET j == <<c, r>> IN
    /\ jobPass[j].pc = "mark" /\ jobs[j].phase # "none"
    /\ jobs' = [jobs EXCEPT ![j].final = now + 1]
    /\ jobQueue' = jobQueue \cup {j}
    /\ Go(j, IdlePass)
    /\ UNCHANGED <<slurmJobs, dbd, gpuNodes, now, checkVars, status, posts>>

\* The copy of the check is old, or the object is gone: the write is refused.
WriteRefused(c, r) ==
    LET j == <<c, r>> p == jobPass[j] IN
    /\ \/ p.pc = "report" /\ (~p.fresh \/ check[c] \in {"absent", "gone"})
       \/ p.pc \in {"query", "mark"} /\ p.todo = {} /\ jobs[j].phase = "none"
    /\ EndPass(j, TRUE)
    /\ UNCHANGED <<runVars, checkVars, status, posts>>

\* A call fails: the pass is repeated.
JobPassFails(c, r) ==
    /\ jobPass[<<c, r>>].pc # "idle"
    /\ EndPass(<<c, r>>, TRUE)
    /\ UNCHANGED <<runVars, checkVars, status, posts>>
=============================================================================
