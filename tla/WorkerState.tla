------------------------------ MODULE WorkerState ------------------------------
(***************************************************************************)
(* What the rolling update of a NodeSet works on: the worker pods of its   *)
(* StatefulSet, the Slurm nodes of the same names, and the status the      *)
(* StatefulSet reports.  A worker is the number of its pod.                *)
(***************************************************************************)
EXTENDS Integers, FiniteSets

CONSTANTS Replicas,  \* sts.Spec.Replicas
          MaxRevision \* revisions of the pod template

ASSUME WorkerAssumption == Replicas \in Nat /\ MaxRevision \in Nat

VARIABLES pods,     \* the worker pods
          nodes,    \* the Slurm nodes
          revision, \* of the pod template
          status    \* sts.Status as a pass has last read it

workerVars == <<pods, nodes, revision, status>>

Workers == 1 .. Replicas
Revision == 0 .. MaxRevision

\* Labels worker-operation-id and worker-operation-phase of a pod.
NoOperation == -1
OperationPhase == {"", "stopping", "ready"}

\* "initCrash" and "crashLoop": worker-init or slurmd is in CrashLoopBackOff;
\* "hung": supervisord keeps the pod Ready while slurmd does not run.
PodRun == {"starting", "initCrash", "up", "crashLoop", "hung"}

\* registered: slurmd has registered with slurmctld since it was started.
Pod == [rev : Revision, run : PodRun, op : Revision \cup {NoOperation},
        phase : OperationPhase, registered : BOOLEAN]

NoPod == [rev |-> NoOperation]

NewPod == [rev |-> revision, run |-> "starting", op |-> NoOperation,
           phase |-> "", registered |-> FALSE]

\* reason "update" is defaultRebootReason, with or without a suffix of Slurm.
SlurmNode == [responding : BOOLEAN, down : BOOLEAN, drain : BOOLEAN,
              reboot : {"none", "requested", "issued"},
              reason : {"none", "update", "other"},
              job : {"none", "running", "completing"}]

Exists(w) == pods[w] # NoPod

-----------------------------------------------------------------------------
(* What the code reads from a pod.                                         *)

podReady(p) == p # NoPod /\ p.run \in {"up", "hung"}

workerOperationPhase(p, operationID) ==
    IF p.op # operationID THEN "" ELSE p.phase

filterOutdatedPods(podList, updateRevision) ==
    {w \in Workers : podList[w] # NoPod /\ podList[w].rev # updateRevision}

-----------------------------------------------------------------------------
(* What the code reads from a Slurm node.                                  *)

IsIdleState(n) == ~n.down /\ n.job # "running"
IsRebootState(n) == n.reboot \in {"requested", "issued"}
IsCompletingState(n) == n.job = "completing"

-----------------------------------------------------------------------------
\* sts.Status: UpdateRevision, ReadyReplicas and UpdatedReplicas.
ActualStatus ==
    [revision |-> revision,
     ready |-> Cardinality({w \in Workers : podReady(pods[w])}),
     updated |-> Cardinality({w \in Workers : pods[w].rev = revision})]

WorkerTypeOK ==
    /\ pods \in [Workers -> Pod \cup {NoPod}]
    /\ nodes \in [Workers -> SlurmNode]
    /\ revision \in Revision
    /\ status \in [revision : Revision, ready : 0 .. Replicas, updated : 0 .. Replicas]

WorkerInit ==
    /\ pods = [w \in Workers |->
                  [rev |-> 0, run |-> "up", op |-> NoOperation, phase |-> "",
                   registered |-> TRUE]]
    /\ nodes = [w \in Workers |->
                  [responding |-> TRUE, down |-> FALSE, drain |-> FALSE,
                   reboot |-> "none", reason |-> "none", job |-> "none"]]
    /\ revision = 0
    /\ status = [revision |-> 0, ready |-> Replicas, updated |-> Replicas]
=============================================================================
