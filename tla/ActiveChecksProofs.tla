-------------------------- MODULE ActiveChecksProofs --------------------------
(***************************************************************************)
(* Proofs about active checks.                                             *)
(***************************************************************************)
EXTENDS ActiveChecks, TLAPS

\* A check that has a pass in progress, a CronJob or a ConfigMap still has the
\* finalizer, and only a check with an inline script has a ConfigMap.
DeployInv ==
    /\ check \in [Checks -> {"absent", "new", "live", "deleting", "gone"}]
    /\ checkPass \in [Checks -> {"idle", "deploy", "run"}]
    /\ \A c \in Checks :
          /\ checkPass[c] # "idle" => check[c] \in {"live", "deleting"}
          /\ c \in cronJobs \cup scripts => check[c] \in {"live", "deleting"}
          /\ c \in scripts => InlineScript[c]

-----------------------------------------------------------------------------
\* The steps of the user and of the ActiveCheck controller over one check.
LEMMA CheckStepInductive ==
    ASSUME DeployInv, NEW c \in Checks,
           \/ CreateCheck(c) \/ DeleteCheck(c) \/ Reconcile(c) \/ Deploy(c)
           \/ runAfterCreation(c) \/ CheckPassFails(c) \/ reconcileDelete(c)
           \/ ReconcileGone(c)
    PROVE  DeployInv'
<1>1. CASE CreateCheck(c)
  BY <1>1 DEF DeployInv, CreateCheck
<1>2. CASE DeleteCheck(c)
  BY <1>2 DEF DeployInv, DeleteCheck
<1>3. CASE Reconcile(c)
  BY <1>3 DEF DeployInv, Reconcile
<1>4. CASE Deploy(c)
  BY <1>4 DEF DeployInv, Deploy
<1>5. CASE runAfterCreation(c)
  BY <1>5 DEF DeployInv, runAfterCreation
<1>6. CASE CheckPassFails(c)
  BY <1>6 DEF DeployInv, CheckPassFails
<1>7. CASE reconcileDelete(c)
  BY <1>7 DEF DeployInv, reconcileDelete
<1>8. CASE ReconcileGone(c)
  BY <1>8 DEF DeployInv, ReconcileGone
<1> QED
  BY <1>1, <1>2, <1>3, <1>4, <1>5, <1>6, <1>7, <1>8

\* The pods, Slurm, the CronJob controller, the controller of the Jobs and the
\* SlurmCluster leave the checks and what was deployed for them alone.
LEMMA OthersLeaveChecks ==
    ASSUME \/ Cluster \/ CronJobs \/ Pods \/ Slurm \/ JobController
           \/ (\E c \in Checks, r \in Runs : Prune(c, r)) \/ UNCHANGED vars
    PROVE  UNCHANGED <<check, checkPass, cronJobs, scripts>>
<1>1. CASE Cluster
  BY <1>1, Zenon DEF Cluster, ClusterBecomes
<1>2. CASE CronJobs
  BY <1>2 DEF CronJobs, Schedule, CollectJob, checkVars
<1>3. CASE Pods \/ Slurm
  BY <1>3, Zenon DEF Pods, Slurm, checkVars
<1>4. CASE JobController
  <2> PICK c \in Checks, r \in Runs :
        \/ \E fresh \in BOOLEAN : JobReconcile(c, r, fresh)
        \/ \E i \in jobPass[<<c, r>>].todo :
              QueryJob(c, r, i) \/ QueryFails(c, r, i) \/ ReactionFails(c, r, i)
        \/ PatchJob(c, r) \/ UpdateStatus(c, r) \/ MarkSkipped(c, r)
        \/ WriteRefused(c, r) \/ JobPassFails(c, r)
    BY <1>4, ZenonT(40) DEF JobController
  <2> QED
    BY Zenon DEF JobReconcile, QueryJob, QueryFails, ReactionFails, PatchJob, UpdateStatus,
           MarkSkipped, WriteRefused, JobPassFails, checkVars
<1>5. CASE (\E c \in Checks, r \in Runs : Prune(c, r)) \/ UNCHANGED vars
  BY <1>5, Zenon DEF Prune, vars, checkVars
<1> QED
  BY <1>1, <1>2, <1>3, <1>4, <1>5

LEMMA DeployStep == DeployInv /\ [Next]_vars => DeployInv'
<1> SUFFICES ASSUME DeployInv, [Next]_vars PROVE DeployInv'
  OBVIOUS
<1>1. CASE User \/ CheckController
  BY <1>1, CheckStepInductive DEF User, CheckController
<1>2. CASE Restart
  BY <1>2 DEF Restart, DeployInv
<1>3. CASE \/ Cluster \/ CronJobs \/ Pods \/ Slurm \/ JobController
           \/ (\E c \in Checks, r \in Runs : Prune(c, r)) \/ UNCHANGED vars
  BY <1>3, OthersLeaveChecks DEF DeployInv
<1> QED
  BY <1>1, <1>2, <1>3 DEF Next

\* A check that is gone leaves no CronJob and no ConfigMap behind, whenever it
\* was deleted, whatever pass was deploying them, failed or was restarted, and
\* for any set of checks.
THEOREM DeletionIsComplete == Spec => []NothingLeftBehind
<1>1. Init => DeployInv
  BY DEF Init, CheckInit, DeployInv
<1>2. DeployInv /\ [Next]_vars => DeployInv'
  BY DeployStep
<1>3. DeployInv => NothingLeftBehind
  BY DEF DeployInv, NothingLeftBehind
<1> QED
  BY <1>1, <1>2, <1>3, PTL DEF Spec
=============================================================================
