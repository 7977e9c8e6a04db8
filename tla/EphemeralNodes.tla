---------------------------- MODULE EphemeralNodes ----------------------------
(***************************************************************************)
(* Ephemeral nodes: slurmctld's power saving, the power-manager program it *)
(* runs, the NodeSet controller and OpenKruise.  slurmctld resumes the     *)
(* nodes a job needs and suspends idle ones; a node that does not register *)
(* in time is given up with ResumeFailProgram, which suspends it.          *)
(***************************************************************************)
EXTENDS NodeSetController

CONSTANTS Scenarios,      \* how often the environment may do what it does:
                          \* the programs slurmctld starts (calls), failing
                          \* calls and restarts of the operator (faults),
                          \* failing calls of the program (progFaults),
                          \* patches of the StatefulSet from an old copy
                          \* (stale), times maintenance starts (maintenance)
          CreatedFirst,   \* the NodeSet controller has created the power state
                          \* before slurmctld resumes a node
          SerialPrograms, \* slurmctld asks nothing of a node for which a
                          \* program is still writing
          PromptPods      \* a suspension has reached the pods before
                          \* SuspendTimeout has passed

Bounds == {"calls", "faults", "progFaults", "stale", "maintenance"}

ASSUME EphemeralAssumption ==
    /\ Scenarios \subseteq [Bounds -> Nat]
    /\ {CreatedFirst, SerialPrograms, PromptPods} \subseteq BOOLEAN

VARIABLES slurm,      \* slurmctld's state of each node
          unfinished, \* nodes of programs that ended without writing them
          left        \* what the environment may still do

vars == <<powerState, prog, nsVars, slurm, unfinished, left>>

\* Every variable has the type its declaration says.
TypeOK ==
    /\ PowerTypeOK
    /\ NodeSetTypeOK
    /\ slurm \in [Nodes -> {"seeded", "down", "resuming", "idle", "busy", "lost",
                            "suspending"}]
    /\ unfinished \subseteq Nodes
    /\ left \in [Bounds -> Nat]

Init ==
    /\ PowerInit
    /\ NodeSetInit
    /\ slurm = [n \in Nodes |-> IF n[2] \in Seeds[n[1]] THEN "seeded" ELSE "down"]
    /\ unfinished = {}
    /\ left \in Scenarios

Spend(b) ==
    /\ left[b] > 0
    /\ left' = [left EXCEPT ![b] = @ - 1]

-----------------------------------------------------------------------------
(* slurmctld.                                                              *)

HasPod(n) == n[2] \in pods[n[1]]

Writing(p, n) == prog[p].pc \in {"get", "create", "update"} /\ n[2] \in prog[p].want[n[1]]

Quiet(n) == SerialPrograms => \A p \in Programs : ~Writing(p, n)

\* A program is started for the nodes S, whose state becomes st.
Run(op, S, st) ==
    /\ S # {} /\ \A n \in S : Quiet(n)
    /\ CreatedFirst => \A ns \in NodeSets : powerState[ns].exists
    /\ Spend("calls")
    /\ \E p \in Programs : runPowerAction(p, op, S)
    /\ slurm' = [n \in Nodes |-> IF n \in S THEN st ELSE slurm[n]]
    /\ UNCHANGED <<powerState, nsVars, unfinished>>

ResumeProgram == \E S \in SUBSET {n \in Nodes : slurm[n] = "down"} :
                    Run("resume", S, "resuming")

SuspendProgram == \E S \in SUBSET {n \in Nodes : slurm[n] \in {"idle", "lost"}} :
                    Run("suspend", S, "suspending")

\* ResumeTimeout: the node is given up.
ResumeFailProgram == \E n \in Nodes : slurm[n] = "resuming"
                                      /\ Run("suspend", {n}, "suspending")

Set(n, st) ==
    /\ slurm' = [slurm EXCEPT ![n] = st]
    /\ UNCHANGED <<powerState, prog, nsVars, unfinished, left>>

\* slurmd starts in the pod and registers.
Register(n) == slurm[n] \in {"resuming", "seeded", "lost"} /\ HasPod(n) /\ Set(n, "idle")

\* The suspension has reached the pods, by way of the StatefulSet.
Stopped(n) ==
    /\ ~HasPod(n)
    /\ n[2] \notin psCache[n[1]].activeNodes \cup pass[n[1]].active
                   \cup Selected(sts[n[1]])

\* SuspendTimeout: the node may be resumed again.
SuspendTimeout(n) ==
    /\ slurm[n] = "suspending" /\ Quiet(n)
    /\ PromptPods => Stopped(n) \/ n \in unfinished
    /\ Set(n, "down")

StartJob(n) == slurm[n] = "idle" /\ HasPod(n) /\ Set(n, "busy")

EndJob(n) == slurm[n] = "busy" /\ Set(n, "idle")

\* The pod of a node in service is gone.
LoseNode(n) == slurm[n] \in {"idle", "busy"} /\ ~HasPod(n) /\ Set(n, "lost")

-----------------------------------------------------------------------------
(* The programs, and the NodeSet controller.                               *)

Wanted(r) == {n \in Nodes : n[2] \in r.want[n[1]]}

\* A program that ends with something left to write has failed; one that
\* creates the object writes none of its nodes, and does not fail.
Programmed(p) ==
    /\ unfinished' = IF prog[p].pc = "create" \/ (prog'[p].pc = "idle" /\ prog[p].todo # {})
                     THEN unfinished \cup Wanted(prog[p]) ELSE unfinished
    /\ UNCHANGED <<nsVars, slurm>>

ProgramStep(p) ==
    /\ \/ \E ns \in NodeSets : Get(p, ns)
       \/ Create(p)
       \/ Update(p)
       \/ waitForNodes(p)
    /\ Programmed(p)
    /\ UNCHANGED left

ProgramFault(p) ==
    /\ Spend("progFaults")
    /\ ProgramFails(p)
    /\ Programmed(p)

\* Whether the StatefulSet would be patched from an old copy.
FromOldCopy(ns) == [stsCache[ns] EXCEPT !.available = sts[ns].available] # sts[ns]

ReconcileWorkers(ns) ==
    /\ executeReconciliation(ns)
    /\ IF stsCache[ns].exists /\ FromOldCopy(ns)
       THEN Spend("stale") ELSE UNCHANGED left

ControllerStep(ns) ==
    \/ /\ \/ reconcileNodeSetPowerState(ns)
          \/ GetCreated(ns)
          \/ ReportStatus(ns)
       /\ UNCHANGED <<slurm, unfinished, left>>
    \/ ReconcileWorkers(ns) /\ UNCHANGED <<slurm, unfinished>>

ControllerFault ==
    /\ Spend("faults")
    /\ OperatorRestarts \/ \E ns \in NodeSets : PassFails(ns)
    /\ UNCHANGED <<slurm, unfinished>>

Sync(ns) ==
    /\ SyncPowerState(ns) \/ SyncStatefulSet(ns)
    /\ UNCHANGED <<slurm, unfinished, left>>

Kruise(ns) ==
    /\ \E o \in 0 .. Replicas[ns] : CreatePod(ns, o) \/ DeletePod(ns, o)
    /\ UNCHANGED <<slurm, unfinished, left>>

Maintain ==
    /\ IF maintenance THEN UNCHANGED left ELSE Spend("maintenance")
    /\ SetMaintenance
    /\ UNCHANGED <<slurm, unfinished>>

Next ==
    \/ ResumeProgram \/ SuspendProgram \/ ResumeFailProgram
    \/ \E n \in Nodes : \/ Register(n) \/ SuspendTimeout(n)
                        \/ StartJob(n) \/ EndJob(n) \/ LoseNode(n)
    \/ \E p \in Programs : ProgramStep(p) \/ ProgramFault(p)
    \/ \E ns \in NodeSets : ControllerStep(ns) \/ Sync(ns) \/ Kruise(ns)
    \/ ControllerFault \/ Maintain

Spec == Init /\ [][Next]_vars

\* The programs, the informers, OpenKruise, slurmd and slurmctld's timeout.
Progress ==
    \/ \E n \in Nodes : Register(n) \/ SuspendTimeout(n)
    \/ \E p \in Programs : ProgramStep(p)
    \/ \E ns \in NodeSets : Sync(ns) \/ Kruise(ns)

\* The controller works off its queue, and something of the rest that can go on
\* does.  Each of those can go on only finitely often by itself.
FairSpec ==
    /\ Spec
    /\ WF_vars(Progress)
    /\ \A ns \in NodeSets : WF_vars(ControllerStep(ns))

-----------------------------------------------------------------------------
(* Properties.                                                             *)

PN == INSTANCE PoweredNodes WITH
        active <- [ns \in NodeSets |-> powerState[ns].activeNodes],
        known <- {ns \in NodeSets : powerState[ns].exists},
        request <- [p \in Programs |-> [op |-> prog[p].op, nodes |-> prog[p].want,
                                        todo |-> prog[p].todo]]

\* updateNodeSetPowerState and reconcileNodeSetPowerState implement
\* PoweredNodes: however the runs of the program and the passes interleave,
\* every request takes effect on a NodeSet once, at one moment, on what the
\* requests before it left, and the seeds are set once, before all of them.
RequestsTakeEffectOnce == PN!Spec

\* The pod of a node stays while the node has a job: neither the programs nor
\* the controller's passes take an ordinal with a job out of the StatefulSet.
JobsKeepTheirPods ==
    [][\A n \in Nodes : slurm[n] = "busy" /\ HasPod(n) => HasPod(n)']_vars

\* When a pass has written the StatefulSet, the ordinals that OpenKruise runs
\* are the active nodes the pass has read, no more and no fewer.
OnlyActiveOrdinals ==
    \A ns \in NodeSets : pass[ns].pc = "status" => Selected(sts[ns]) = pass[ns].active

\* Once slurmctld asks for nothing any more, the worker pods are those of the
\* active ordinals (none in maintenance), and the status of the NodeSet says so.
PodsFollowPower ==
    <>[](\A ns \in NodeSets :
             /\ pods[ns] = IF maintenance THEN {} ELSE powerState[ns].activeNodes
             /\ status[ns].phase = IF maintenance THEN "Terminating" ELSE "Ready"
             /\ ~maintenance => status[ns].replicas = Cardinality(pods[ns])
             /\ powerState[ns].activeCount = Cardinality(powerState[ns].activeNodes))

\* What slurmctld asks of the nodes happens, unless the program it has run ended
\* without writing it: a resumed node registers, or slurmctld gives it up or the
\* cluster is in maintenance, and no pod is left behind a node powered down.
NodesFollowSlurm ==
    /\ \A n \in Nodes :
          slurm[n] = "resuming" ~> (slurm[n] # "resuming" \/ n \in unfinished
                                    \/ maintenance)
    /\ <>[](\A n \in Nodes : slurm[n] = "down" /\ n \notin unfinished => ~HasPod(n))
=============================================================================
