---------------------------- MODULE NodeTopology ----------------------------
(***************************************************************************)
(* The node topology controller: the tier labels of the Kubernetes nodes   *)
(* are collected in a ResourceDistribution, which OpenKruise turns into a  *)
(* ConfigMap in the namespace of the operator and of every SlurmCluster.   *)
(***************************************************************************)
EXTENDS Integers, FiniteSets, Functions

CONSTANTS K8SNodes

VARIABLES
  nodeLabels,    \* [K8SNodes -> labels]: a function from tiers to switches
  k8sNodes,      \* the nodes that exist
  distribution,  \* [exists, data]: the ResourceDistribution
  labelsMap,     \* [exists, data]: the ConfigMap topology-node-labels
  nodeQueue,     \* the nodes to reconcile
  recreate       \* an event of the deletion of the ResourceDistribution waits

topologyVars == <<nodeLabels, k8sNodes, distribution, labelsMap, nodeQueue, recreate>>

Unlabelled == [t \in {} |-> ""]
Nothing == [k \in {} |-> Unlabelled]
TierOne(labels) == IF 1 \in DOMAIN labels THEN {labels[1]} ELSE {}

\* The predicates of SetupWithManager look at the tier-1 label only.
NodeAppears(k, labels) ==
  /\ k \notin k8sNodes
  /\ k8sNodes' = k8sNodes \cup {k}
  /\ nodeLabels' = [nodeLabels EXCEPT ![k] = labels]
  /\ nodeQueue' = nodeQueue \cup (IF TierOne(labels) # {} THEN {k} ELSE {})
  /\ UNCHANGED <<distribution, labelsMap, recreate>>

NodeRelabelled(k, labels) ==
  /\ k \in k8sNodes /\ labels # nodeLabels[k]
  /\ nodeLabels' = [nodeLabels EXCEPT ![k] = labels]
  /\ nodeQueue' = nodeQueue \cup (IF TierOne(labels) # TierOne(nodeLabels[k]) THEN {k} ELSE {})
  /\ UNCHANGED <<k8sNodes, distribution, labelsMap, recreate>>

NodeDisappears(k) ==
  /\ k \in k8sNodes
  /\ k8sNodes' = k8sNodes \ {k}
  /\ nodeQueue' = nodeQueue \cup (IF TierOne(nodeLabels[k]) # {} THEN {k} ELSE {})
  /\ nodeLabels' = [nodeLabels EXCEPT ![k] = Unlabelled]
  /\ UNCHANGED <<distribution, labelsMap, recreate>>

DistributionDeleted ==
  /\ distribution.exists
  /\ distribution' = [exists |-> FALSE, data |-> Nothing]
  /\ recreate' = TRUE
  /\ UNCHANGED <<nodeLabels, k8sNodes, labelsMap, nodeQueue>>

-----------------------------------------------------------------------------
\* initializeResourceDistributionWithAllNodes: the nodes with a tier-1 label.
AllNodes ==
  [k \in {n \in k8sNodes : TierOne(nodeLabels[n]) # {}} |-> nodeLabels[k]]

\* GetOrCreateTopologyResourceDistribution.
Distributed == IF distribution.exists THEN distribution.data ELSE AllNodes

shouldProcessNode(k) == DOMAIN nodeLabels[k] \cap {0, 1} # {}

\* Mutant: the record of a deleted node is kept.
ReconcileNodeKeeping(k) ==
  /\ k \in nodeQueue
  /\ nodeQueue' = nodeQueue \ {k}
  /\ distribution' = [exists |-> TRUE, data |->
       IF k \notin k8sNodes \/ ~shouldProcessNode(k) THEN Distributed
       ELSE [n \in DOMAIN Distributed \cup {k} |->
               IF n = k THEN nodeLabels[k] ELSE Distributed[n]]]
  /\ UNCHANGED <<nodeLabels, k8sNodes, labelsMap, recreate>>

\* Updates are refused for an old copy and tried again with the latest one.
ReconcileNode(k) ==
  /\ k \in nodeQueue
  /\ nodeQueue' = nodeQueue \ {k}
  /\ distribution' = [exists |-> TRUE, data |->
       CASE k \notin k8sNodes -> Restrict(Distributed, DOMAIN Distributed \ {k})
         [] k \in k8sNodes /\ ~shouldProcessNode(k) -> Distributed
         [] OTHER -> [n \in DOMAIN Distributed \cup {k} |->
                        IF n = k THEN nodeLabels[k] ELSE Distributed[n]]]
  /\ UNCHANGED <<nodeLabels, k8sNodes, labelsMap, recreate>>

\* An error leaves the request in the queue, after the ResourceDistribution
\* may have been created.
ReconcileNodeFails(k) ==
  /\ k \in nodeQueue /\ ~distribution.exists
  /\ distribution' = [exists |-> TRUE, data |-> AllNodes]
  /\ UNCHANGED <<nodeLabels, k8sNodes, labelsMap, nodeQueue, recreate>>

\* Start, when the manager starts.
EnsureDistribution ==
  /\ ~distribution.exists
  /\ distribution' = [exists |-> TRUE, data |-> AllNodes]
  /\ UNCHANGED <<nodeLabels, k8sNodes, labelsMap, nodeQueue, recreate>>

\* reconcileResourceDistributionToRequests: a failure is only logged.
RecreateDistribution ==
  /\ recreate
  /\ recreate' = FALSE
  /\ distribution' = [exists |-> TRUE, data |-> Distributed]
  /\ UNCHANGED <<nodeLabels, k8sNodes, labelsMap, nodeQueue>>

RecreateDistributionFails ==
  /\ recreate
  /\ recreate' = FALSE
  /\ UNCHANGED <<nodeLabels, k8sNodes, distribution, labelsMap, nodeQueue>>

\* OpenKruise makes the ConfigMaps equal to the ResourceDistribution, and
\* deletes them with it.
Distribute ==
  /\ labelsMap # distribution
  /\ labelsMap' = distribution
  /\ UNCHANGED <<nodeLabels, k8sNodes, distribution, nodeQueue, recreate>>
=============================================================================
