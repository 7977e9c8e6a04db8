--------------------------- MODULE WorkerTopology ---------------------------
(***************************************************************************)
(* The worker topology controller: it renders topology.conf from the       *)
(* recorded labels and the nodes the GPU pods run on into a ConfigMap and  *)
(* has it written into the jail by a JailedConfig; and worker_init.py,     *)
(* which a worker pod runs before slurmd.                                  *)
(***************************************************************************)
EXTENDS TopologyConfig, NodeTopology, JailedConfigs

CONSTANTS
  GPUWorkers,    \* the workers whose NodeSet has GPUs
  Fabrics,       \* the explicit fabric of workers: spec.topology.fabric
  TopologyPath   \* the path of topology.conf

ASSUME TopologyAssumption ==
  /\ GPUWorkers \subseteq Readers /\ DOMAIN Fabrics \subseteq Readers
  /\ TopologyPath \in Paths
  /\ "topology" \in Configs /\ FilesOf["topology"] = {TopologyPath}

VARIABLES
  plugin,      \* "tree" or "block": SlurmConfig.TopologyPlugin, which stays
  scheduled,   \* [Readers -> set of the one K8S node its pod is on, or {}]
  init,        \* [Readers -> step of worker_init.py]
  asked        \* [Readers -> [labels, conf]]: the topology the worker asked for

workerVars == <<plugin, scheduled, init, asked>>

NotAsked == [labels |-> Unlabelled, conf |-> {}]

-----------------------------------------------------------------------------
Rendered(content) == [p \in Paths |-> IF p = TopologyPath THEN content ELSE Missing]
DefaultTopology == {<<"root", "">>}

\* EnsureWorkerTopologyConfigMap creates what is missing.
EnsureWorkerTopologyConfigMap ==
  /\ "topology" \notin jailed \/ ~configMaps["topology"].exists
  /\ configMaps' = IF configMaps["topology"].exists THEN configMaps
                   ELSE [configMaps EXCEPT !["topology"] =
                           [exists |-> TRUE, data |-> Rendered(DefaultTopology)]]
  /\ jailed' = jailed \cup {"topology"}
  /\ configQueue' = configQueue \cup {"topology"}
  /\ UNCHANGED <<written, completed, pass>>

GPUPodsByNode == [k \in K8SNodes |-> {w \in GPUWorkers : scheduled[w] = {k}}]

buildNodeSetTopologyConfig(plug, labels, podsByNode) ==
  IF plug = "block"
  THEN RenderBlockLines(BuildTopologyBlocks(labels, podsByNode, Readers, Fabrics))
  ELSE RenderGraphLines(BuildTopologyGraph(labels, podsByNode, Readers, Fabrics))

DesiredTopology == buildNodeSetTopologyConfig(plugin, labelsMap.data, GPUPodsByNode)

\* The rest of Reconcile.  It runs at least every minute; without the labels
\* it fails.
ReconcileTopology ==
  /\ "topology" \in jailed /\ configMaps["topology"].exists
  /\ labelsMap.exists
  /\ DesiredTopology # configMaps["topology"].data[TopologyPath]
  /\ WriteConfigMap("topology", Rendered(DesiredTopology))
  /\ UNCHANGED <<jailed, written, completed, pass>>

-----------------------------------------------------------------------------
\* Mutant: workers without GPUs wait for labels, too.
ScheduleWaiting(w, k) ==
  /\ scheduled[w] = {} /\ k \in k8sNodes
  /\ scheduled' = [scheduled EXCEPT ![w] = {k}]
  /\ init' = [init EXCEPT ![w] = "labels"]
  /\ asked' = [asked EXCEPT ![w] = NotAsked]
  /\ UNCHANGED plugin

\* The pods of the workers.
Schedule(w, k) ==
  /\ scheduled[w] = {} /\ k \in k8sNodes
  /\ scheduled' = [scheduled EXCEPT ![w] = {k}]
  /\ init' = [init EXCEPT ![w] = IF w \in GPUWorkers THEN "labels" ELSE "conf"]
  /\ asked' = [asked EXCEPT ![w] = NotAsked]
  /\ UNCHANGED plugin

Evict(w) ==
  /\ scheduled[w] # {}
  /\ scheduled' = [scheduled EXCEPT ![w] = {}]
  /\ init' = [init EXCEPT ![w] = "none"]
  /\ asked' = [asked EXCEPT ![w] = NotAsked]
  /\ UNCHANGED plugin

LabelsFor(w) ==
  LET recorded == scheduled[w] \cap DOMAIN labelsMap.data
  IN IF recorded = {} THEN Unlabelled ELSE labelsMap.data[CHOOSE k \in recorded : TRUE]

\* format_slurm_topology fails for a block topology without tier-0.
Formats(labels) == plugin = "tree" \/ 0 \in DOMAIN labels

TopologyToAskFor(w) ==
  LET fabric == fabricOf(Fabrics, w) IN
  IF plugin = "block" THEN {}
  ELSE IF w \notin GPUWorkers THEN unknown_topology(fabric, w)
  ELSE format_tier_topology(asked[w].labels, fabric, w)

\* wait_for_topology: the labels of the worker's node appear in the mounted
\* ConfigMap.
FindsLabels(w) ==
  /\ init[w] = "labels" /\ LabelsFor(w) # Unlabelled /\ Formats(LabelsFor(w))
  /\ init' = [init EXCEPT ![w] = "conf"]
  /\ asked' = [asked EXCEPT ![w] = [labels |-> LabelsFor(w), conf |-> {}]]
  /\ UNCHANGED <<plugin, scheduled>>

\* wait_for_hostname_in_topology_conf.
FindsHostname(w) ==
  /\ init[w] = "conf" /\ w \in ListedNodes(Opens(w, TopologyPath))
  /\ init' = [init EXCEPT ![w] = "apply"]
  /\ UNCHANGED <<plugin, scheduled, asked>>

\* apply_node_topology: slurmctld may not know the node yet.
AppliesTopology(w, registered) ==
  /\ init[w] = "apply"
  /\ init' = [init EXCEPT ![w] = "done"]
  /\ asked' = IF registered THEN [asked EXCEPT ![w].conf = TopologyToAskFor(w)] ELSE asked
  /\ UNCHANGED <<plugin, scheduled>>

\* A wait that takes too long, labels that cannot be formatted or a failing
\* scontrol end the container; it is started again.
InitFails(w) ==
  /\ init[w] \in {"labels", "conf", "apply"}
  /\ init' = [init EXCEPT ![w] = IF w \in GPUWorkers THEN "labels" ELSE "conf"]
  /\ asked' = [asked EXCEPT ![w] = NotAsked]
  /\ UNCHANGED <<plugin, scheduled>>
=============================================================================
