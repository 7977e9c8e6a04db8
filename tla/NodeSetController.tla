--------------------------- MODULE NodeSetController ---------------------------
(***************************************************************************)
(* The NodeSet controller for NodeSets with ephemeral nodes: it creates    *)
(* the NodeSetPowerState, turns its active ordinals into the replicas and  *)
(* reserved ordinals of the advanced StatefulSet, and reports the phase.   *)
(* It reads both objects from the caches of its two informers.             *)
(***************************************************************************)
EXTENDS PowerManager, FiniteSetsExt

CONSTANT InitialNumber \* spec.initialNumberEphemeralNodes

ASSUME InitialAssumption == InitialNumber \in [NodeSets -> Nat]

VARIABLES psCache,     \* the NodeSetPowerState in the informer's cache
          sts,         \* the advanced StatefulSet of each NodeSet
          stsCache,    \* the StatefulSet in the informer's cache
          pass,        \* the pass of Reconcile over each NodeSet
          queue,       \* the NodeSets in the controller's work queue
          status,      \* status of each NodeSet
          pods,        \* the ordinals that have a worker pod
          maintenance  \* IsMaintenanceActive of the SlurmCluster

nsVars == <<psCache, sts, stsCache, pass, queue, status, pods, maintenance>>

NoSts == [exists |-> FALSE, replicas |-> 0, reserve |-> {}, available |-> 0]

NoPass == [pc |-> "idle", active |-> {}]

Seeds == [ns \in NodeSets |-> 0 .. (InitialNumber[ns] - 1)]

NodeSetTypeOK ==
    LET Sts == [exists : BOOLEAN, replicas : Nat, reserve : SUBSET Nat, available : Nat]
    IN /\ psCache \in [NodeSets -> [exists : BOOLEAN, activeNodes : SUBSET Nat,
                                    activeCount : Int]]
       /\ {sts, stsCache} \subseteq [NodeSets -> Sts]
       /\ pass \in [NodeSets -> [pc : {"idle", "created", "workers", "status"},
                                 active : SUBSET Nat]]
       /\ queue \subseteq NodeSets
       /\ status \in [NodeSets -> [terminated : {"Unknown", "True", "False"},
                                   podsReady : {"Unknown", "True", "False"},
                                   replicas : Nat,
                                   phase : {"", "Pending", "Provisioning", "Ready",
                                            "Terminating"}]]
       /\ pods \in [NodeSets -> SUBSET Nat]
       /\ maintenance \in BOOLEAN

\* The conditions of a NodeSet that has none yet.
setUpConditions == [terminated |-> "Unknown", podsReady |-> "Unknown",
                    replicas |-> 0, phase |-> ""]

NodeSetInit ==
    /\ psCache = [ns \in NodeSets |-> Absent]
    /\ sts = [ns \in NodeSets |-> NoSts]
    /\ stsCache = sts
    /\ pass = [ns \in NodeSets |-> NoPass]
    /\ queue = NodeSets
    /\ status = [ns \in NodeSets |-> setUpConditions]
    /\ pods = [ns \in NodeSets |-> {}]
    /\ maintenance = FALSE

-----------------------------------------------------------------------------
(* From active ordinals to the fields of the StatefulSet, and back.        *)

\* Mutant: no ordinal is reserved.
calculateReplicasOnly(active) == [replicas |-> Cardinality(active), reserve |-> {}]

calculateReplicasAndReserveOrdinals(active) ==
    IF active = {} THEN [replicas |-> 0, reserve |-> {}]
    ELSE [replicas |-> Cardinality(active), reserve |-> (0 .. Max(active)) \ active]

\* RenderNodeSetStatefulSet: maintenance scales the workers to zero.
RenderedSize(active) ==
    IF maintenance THEN [replicas |-> 0, reserve |-> {}]
    ELSE calculateReplicasAndReserveOrdinals(active)

\* OpenKruise runs the first `replicas' ordinals that are not reserved.
Selected(s) ==
    {o \in 0 .. (s.replicas + Cardinality(s.reserve)) :
        /\ o \notin s.reserve
        /\ Cardinality((0 .. (o - 1)) \ s.reserve) < s.replicas}

-----------------------------------------------------------------------------
(* The steps of a pass.  An error puts the NodeSet back into the queue.    *)

Fail(ns) ==
    /\ pass' = [pass EXCEPT ![ns] = NoPass]
    /\ queue' = queue \cup {ns}

\* The second half of reconcileNodeSetPowerState: the active ordinals as the
\* cache has them, and the status, which is patched when it differs.
ReadPowerState(ns) ==
    LET count == Cardinality(psCache[ns].activeNodes)
    IN /\ psCache[ns].exists
       /\ pass' = [pass EXCEPT ![ns] = [pc |-> "workers",
                                        active |-> psCache[ns].activeNodes]]
       /\ IF psCache[ns].activeCount = count \/ powerState[ns].activeCount = count
          THEN UNCHANGED <<powerState, prog>>
          ELSE /\ powerState' = [powerState EXCEPT ![ns].activeCount = count]
               /\ prog' = Stale(ns, prog)

\* reconcileNodeSetPowerState: a missing object is created with the seeds.
reconcileNodeSetPowerState(ns) ==
    /\ pass[ns].pc = "idle" /\ ns \in queue
    /\ \/ /\ ReadPowerState(ns)
          /\ queue' = queue \ {ns}
       \/ /\ ~psCache[ns].exists /\ ~powerState[ns].exists
          /\ powerState' = [powerState EXCEPT ![ns].exists = TRUE,
                                              ![ns].activeNodes = Seeds[ns]]
          /\ pass' = [pass EXCEPT ![ns].pc = "created"]
          /\ queue' = queue \ {ns}
          /\ UNCHANGED prog
       \/ /\ ~psCache[ns].exists /\ powerState[ns].exists
          /\ Fail(ns)
          /\ UNCHANGED <<powerState, prog>>
    /\ UNCHANGED <<psCache, sts, stsCache, status, pods, maintenance>>

\* The object it has created is read from the cache, which may not have it.
GetCreated(ns) ==
    /\ pass[ns].pc = "created"
    /\ \/ ReadPowerState(ns) /\ UNCHANGED queue
       \/ ~psCache[ns].exists /\ Fail(ns) /\ UNCHANGED <<powerState, prog>>
    /\ UNCHANGED <<psCache, sts, stsCache, status, pods, maintenance>>

\* A merge patch holds the fields that differ from the cached object.
Patch(old, cached, desired) ==
    [old EXCEPT !.replicas = IF desired.replicas = cached.replicas THEN @
                             ELSE desired.replicas,
                !.reserve = IF desired.reserve = cached.reserve THEN @
                            ELSE desired.reserve]

\* The step of executeReconciliation for the StatefulSet.  After a Create the
\* object is read again, and the pass fails when the cache does not have it.
executeReconciliation(ns) ==
    LET desired == RenderedSize(pass[ns].active)
        next == [pass EXCEPT ![ns].pc = "status"]
    IN /\ pass[ns].pc = "workers"
       /\ \/ /\ stsCache[ns].exists
             /\ sts' = [sts EXCEPT ![ns] = Patch(@, stsCache[ns], desired)]
             /\ pass' = next /\ UNCHANGED queue
          \/ /\ ~stsCache[ns].exists /\ ~sts[ns].exists
             /\ sts' = [sts EXCEPT ![ns] = [exists |-> TRUE, available |-> 0,
                                            replicas |-> desired.replicas,
                                            reserve |-> desired.reserve]]
             /\ \/ pass' = next /\ UNCHANGED queue
                \/ Fail(ns)
          \/ ~stsCache[ns].exists /\ sts[ns].exists /\ Fail(ns) /\ UNCHANGED sts
       /\ UNCHANGED <<powerState, prog, psCache, stsCache, status, pods, maintenance>>

computePhase(st) ==
    CASE st.terminated = "True" -> "Terminating"
      [] st.terminated # "True" /\ st.podsReady = "True" -> "Ready"
      [] st.terminated # "True" /\ st.podsReady = "False" -> "Provisioning"
      [] OTHER -> "Pending"

expectedReplicas(active) == Cardinality(active)

\* validateResources: the available pods the cache reports, and the condition.
validateResources(ns, st) ==
    IF ~stsCache[ns].exists THEN st
    ELSE [st EXCEPT !.replicas = stsCache[ns].available,
                    !.podsReady = IF stsCache[ns].available
                                       = expectedReplicas(pass[ns].active)
                                  THEN "True" ELSE "False"]

\* Mutant: a NodeSet whose pods are not ready is not looked at again.
requeuesNever(ns) == FALSE

requeues(ns) ==
    \/ ~stsCache[ns].exists
    \/ stsCache[ns].available # expectedReplicas(pass[ns].active)

\* The rest of reconcile: the maintenance condition, validation and phase.
ReportStatus(ns) ==
    LET st == validateResources(ns, [status[ns] EXCEPT !.terminated =
                                       IF maintenance THEN "True" ELSE "False"])
    IN /\ pass[ns].pc = "status"
       /\ status' = [status EXCEPT ![ns] = [st EXCEPT !.phase = computePhase(st)]]
       /\ queue' = IF requeues(ns) THEN queue \cup {ns} ELSE queue
       /\ pass' = [pass EXCEPT ![ns] = NoPass]
       /\ UNCHANGED <<powerState, prog, psCache, sts, stsCache, pods, maintenance>>

\* A call fails, or the operator stops and lists everything again.
PassFails(ns) ==
    /\ pass[ns].pc # "idle"
    /\ Fail(ns)
    /\ UNCHANGED <<powerState, prog, psCache, sts, stsCache, status, pods, maintenance>>

OperatorRestarts ==
    /\ pass' = [ns \in NodeSets |-> NoPass]
    /\ queue' = NodeSets
    /\ psCache' = powerState /\ stsCache' = sts
    /\ UNCHANGED <<powerState, prog, sts, status, pods, maintenance>>

-----------------------------------------------------------------------------
(* The informers, and which of their events put a NodeSet into the queue.  *)

\* ResourceVersionChangedPredicate: every change of the NodeSetPowerState.
SyncPowerState(ns) ==
    /\ psCache[ns] # powerState[ns]
    /\ psCache' = [psCache EXCEPT ![ns] = powerState[ns]]
    /\ queue' = queue \cup {ns}
    /\ UNCHANGED <<powerState, prog, sts, stsCache, pass, status, pods, maintenance>>

\* GenerationChangedPredicate: not a change of the StatefulSet's status only.
SyncStatefulSet(ns) ==
    /\ stsCache[ns] # sts[ns]
    /\ stsCache' = [stsCache EXCEPT ![ns] = sts[ns]]
    /\ queue' = IF [stsCache[ns] EXCEPT !.available = 0] # [sts[ns] EXCEPT !.available = 0]
                THEN queue \cup {ns} ELSE queue
    /\ UNCHANGED <<powerState, prog, psCache, sts, pass, status, pods, maintenance>>

\* The SlurmCluster enters or leaves maintenance, and its event arrives.
SetMaintenance ==
    /\ maintenance' = ~maintenance
    /\ queue' = NodeSets
    /\ UNCHANGED <<powerState, prog, psCache, sts, stsCache, pass, status, pods>>

-----------------------------------------------------------------------------
(* OpenKruise: one pod at a time, and the number of pods in the status.    *)

StatefulSetPods(ns, new) ==
    /\ pods' = [pods EXCEPT ![ns] = new]
    /\ sts' = [sts EXCEPT ![ns].available = Cardinality(new)]
    /\ UNCHANGED <<powerState, prog, psCache, stsCache, pass, queue, status, maintenance>>

CreatePod(ns, o) ==
    /\ o \in Selected(sts[ns]) \ pods[ns]
    /\ StatefulSetPods(ns, pods[ns] \cup {o})

DeletePod(ns, o) ==
    /\ o \in pods[ns] \ Selected(sts[ns])
    /\ StatefulSetPods(ns, pods[ns] \ {o})
=============================================================================
