--------------------------- MODULE TopologyConfig ---------------------------
(***************************************************************************)
(* What the operator writes into topology.conf (topology_graph.go,         *)
(* topology_blocks.go, switch_name.go) and the topology a worker asks      *)
(* slurmctld for when it starts (worker_init.py).  The labels of a         *)
(* Kubernetes node are a function from tiers to switch names, a            *)
(* configuration is the set of its pairs <<switch or block, member>>.      *)
(***************************************************************************)
EXTENDS Integers, FiniteSets, Sequences

CONSTANTS
  LongNames   \* the switch names that end in more than maxSafeTrailingDigits digits

defaultFabric == "root"

fabricOf(fabrics, w) == IF w \in DOMAIN fabrics THEN fabrics[w] ELSE defaultFabric

unknownSwitchName(fabric) ==
  IF fabric = defaultFabric THEN "unknown" ELSE fabric \o ".unknown"

slurmSafeSwitchName(name) == IF name \in LongNames THEN name \o "_" ELSE name

-----------------------------------------------------------------------------
\* labelsToPath: the path from the leaf switch up, for contiguous tiers.
NumOfTiers(labels) == Cardinality(DOMAIN labels \ {0})
HasPath(labels) == NumOfTiers(labels) > 0 /\ 1..NumOfTiers(labels) \subseteq DOMAIN labels
labelsToPath(labels) == [i \in 1..NumOfTiers(labels) |-> labels[i]]

\* labelsByNode: labels of the recorded Kubernetes nodes; podsByNode: the GPU
\* pods scheduled to each of them; fabrics: the explicit fabrics.
PathEdges(path, workers) ==
  {<<path[1], w>> : w \in workers} \cup {<<path[i + 1], path[i]>> : i \in 1..(Len(path) - 1)}

attachFabricRoots(edges, tops) ==
  LET hasParent == {e[2] : e \in edges} IN
  edges \cup {t \in tops : t[2] \notin hasParent}

\* Mutant: nodes on a switch stay below unknown as well.
BuildGraphKeepingUnknown(labelsByNode, podsByNode, allNodeNames, fabrics) ==
  LET used == {k \in DOMAIN labelsByNode : podsByNode[k] # {} /\ HasPath(labelsByNode[k])}
      path == [k \in used |-> labelsToPath(labelsByNode[k])]
  IN (UNION {PathEdges(path[k], podsByNode[k]) : k \in used})
     \cup {<<unknownSwitchName(fabricOf(fabrics, w)), w>> : w \in allNodeNames}

BuildTopologyGraph(labelsByNode, podsByNode, allNodeNames, fabrics) ==
  LET used == {k \in DOMAIN labelsByNode : podsByNode[k] # {} /\ HasPath(labelsByNode[k])}
      path == [k \in used |-> labelsToPath(labelsByNode[k])]
      placed == UNION {podsByNode[k] : k \in used}
      unplaced == {w \in allNodeNames : w \notin placed}
      edges == (UNION {PathEdges(path[k], podsByNode[k]) : k \in used})
               \cup {<<unknownSwitchName(fabricOf(fabrics, w)), w>> : w \in unplaced}
      tops == (UNION {{<<fabricOf(fabrics, w), path[k][Len(path[k])]>> : w \in podsByNode[k]} : k \in used})
              \cup {<<fabricOf(fabrics, w), unknownSwitchName(fabricOf(fabrics, w))>> : w \in unplaced}
  IN attachFabricRoots(edges, tops)

Children(edges, sw) == {e[2] : e \in {d \in edges : d[1] = sw}}

hasGrandChildren(edges, sw) == \E c \in Children(edges, sw) : Children(edges, c) # {}

\* A line has Switches= if a child of its switch has children, else Nodes=.
RenderGraphLines(edges) ==
  {<<slurmSafeSwitchName(e[1]),
     IF hasGrandChildren(edges, e[1]) THEN slurmSafeSwitchName(e[2]) ELSE e[2]>> : e \in edges}

BuildTopologyBlocks(labelsByNode, podsByNode, allNodeNames, fabrics) ==
  LET used == {k \in DOMAIN labelsByNode : podsByNode[k] # {} /\ 0 \in DOMAIN labelsByNode[k]}
      placed == UNION {podsByNode[k] : k \in used}
  IN  (UNION {{labelsByNode[k][0]} \X podsByNode[k] : k \in used})
      \cup {<<unknownSwitchName(fabricOf(fabrics, w)), w>> : w \in allNodeNames \ placed}

RenderBlockLines(blocks) == {<<slurmSafeSwitchName(b[1]), b[2]>> : b \in blocks}

-----------------------------------------------------------------------------
\* What a reader of the file makes of it.

\* The nodes in Nodes= lists (topology_conf_contains_hostname).
ListedNodes(conf) == {e[2] : e \in {d \in conf : ~hasGrandChildren(conf, d[1])}}

\* The part of the tree above a node, as the pairs it consists of.
Ancestry(conf, w) ==
  LET above[i \in 0..Cardinality(conf)] ==
        IF i = 0 THEN {w}
        ELSE LET lower == above[i - 1] IN lower \cup {e[1] : e \in {d \in conf : d[2] \in lower}}
  IN  {e \in conf : e[2] \in above[Cardinality(conf)]}

-----------------------------------------------------------------------------
\* format_slurm_topology for the JSON the operator records: every tier, the
\* highest first, under the root of the fabric; as the same set of pairs.
TiersBelow(labels, t) == {u \in DOMAIN labels : u < t}
MaxTier(tiers) == CHOOSE t \in tiers : \A u \in tiers : u <= t

\* Mutant: every fabric has the default root.
format_default_root(labels, fabric, w) ==
  LET next(t) == IF TiersBelow(labels, t) = {} THEN w ELSE labels[MaxTier(TiersBelow(labels, t))]
  IN  {<<defaultFabric, labels[MaxTier(DOMAIN labels)]>>} \cup {<<labels[t], next(t)>> : t \in DOMAIN labels}

format_tier_topology(labels, fabric, w) ==
  LET tiers == DOMAIN labels
      next(t) == IF TiersBelow(labels, t) = {} THEN w ELSE labels[MaxTier(TiersBelow(labels, t))]
  IN  {<<fabric, labels[MaxTier(tiers)]>>} \cup {<<labels[t], next(t)>> : t \in tiers}

unknown_topology(fabric, w) ==
  {<<fabric, unknownSwitchName(fabric)>>, <<unknownSwitchName(fabric), w>>}
=============================================================================
