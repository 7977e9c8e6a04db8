----------------------------- MODULE SlurmConf -----------------------------
(* What the cluster controller renders into the slurm-configs ConfigMap      *)
(* (internal/render/common), reduced to the parts that refer to each other:  *)
(* the node, NodeSet and partition lines, the nodes power saving must leave  *)
(* alone, and the switches that follow the NodeSets and the spec.            *)
(*                                                                           *)
(* `v` are the cluster's values (ClusterValues), `ns` the NodeSets listed    *)
(* from the API server: name -> [replicas, gpu, ephemeral, ...].             *)
EXTENDS Integers, Sequences, FiniteSets, FiniteSetsExt

CONSTANTS
    MinNodeCount,   \* the floor of MaxNodeCount, 1024 in the code
    IgnoredEntry,   \* the size of a message entry on an ignored reference,
    NoNodesEntry,   \* of one on a partition without nodes,
    TailEntry,      \* and of "and N more"
    MessageLimit    \* the size the message of a condition may have

----------------------------------------------------------------------------
HasEphemeralNodes(ns) == \E n \in DOMAIN ns : ns[n].ephemeral

BuildClusterWithGPUFromNodeSets(ns) == \E n \in DOMAIN ns : ns[n].gpu

totalWorkerNodes(ns) == MapThenSumSet(LAMBDA n : ns[n].replicas, DOMAIN ns)

\* 1 << bits.Len(n - 1), the least power of two that is not below n.
nextPow2(n) ==
    IF n <= 1 THEN 1 ELSE 2 ^ Min({k \in 0..n : 2 ^ k > n - 1})

nodeRange(n, ns) == [nodeSet |-> n, last |-> ns[n].replicas - 1]

\* NodeSet=<name> Nodes=<name>-[0-<last>]
AddNodeSetsToSlurmConfig(ns) ==
    {nodeRange(n, ns) : n \in {m \in DOMAIN ns : ns[m].replicas >= 1}}

\* NodeName=<name>-[0-<last>] State=CLOUD ...
AddNodesToSlurmConfig(ns) ==
    {nodeRange(n, ns) : n \in {m \in DOMAIN ns : ns[m].replicas # 0}}

AddNodesToGresConfig(ns) ==
    {nodeRange(n, ns) : n \in {m \in DOMAIN ns : ns[m].replicas # 0 /\ ns[m].gpu}}

buildSuspendExcNodes(ns) ==
    {nodeRange(n, ns) :
        n \in {m \in DOMAIN ns : ~ns[m].ephemeral /\ ns[m].replicas # 0}}

----------------------------------------------------------------------------
(* Partitions refer to NodeSets.  slurmctld rejects a config with a          *)
(* reference to a NodeSet that has no line of its own.                       *)

\* Mutant: a NodeSet scaled to zero is still referred to.
resolveExistingRefs(partition, ns) == partition.nodeSetRefs \cap DOMAIN ns

resolvePartitionNodeSetRefs(partition, ns) ==
    {r \in partition.nodeSetRefs : r \in DOMAIN ns /\ ns[r].replicas > 0}

PartitionLine(partition, ns) ==
    [name |-> partition.name, all |-> partition.isAll,
     nodes |-> IF partition.isAll
               THEN {} ELSE resolvePartitionNodeSetRefs(partition, ns)]

\* A partition that loses all its references keeps a line without nodes; one
\* that never had any is left out.
AddPartitionsToSlurmConfig(partitions, ns) ==
    {PartitionLine(p, ns) :
        p \in {q \in partitions : q.isAll \/ q.nodeSetRefs # {}}}

\* The resolution the status reports.
ResolveNodeSetRefs(v, ns) ==
    LET candidates == IF v.configType = "structured"
                      THEN {p \in v.partitions : ~p.isAll /\ p.nodeSetRefs # {}}
                      ELSE {}
    IN [ignored |->
            UNION {{<<p.name, r>> :
                      r \in p.nodeSetRefs \ resolvePartitionNodeSetRefs(p, ns)} :
                   p \in candidates},
        withoutNodes |->
            {p.name : p \in {q \in candidates :
                               resolvePartitionNodeSetRefs(q, ns) = {}}}]

\* Joins entries, given by their sizes, with "; " (2 bytes) until the next one
\* would leave no room for the tail.
joinWithinLimit(entries, limit) ==
    LET Separator(res) == IF res.size > 0 THEN 2 ELSE 0
        AppendPart(res, entry) ==
            CASE res.cut -> res
              [] ~res.cut /\ res.size + 2 + entry + 2 + TailEntry > limit ->
                    [res EXCEPT !.cut = TRUE,
                                !.size = @ + Separator(res) + TailEntry]
              [] OTHER ->
                    [res EXCEPT !.shown = @ + 1,
                                !.size = @ + Separator(res) + entry]
        joined[k \in 0 .. Len(entries)] ==
            IF k = 0 THEN [size |-> 0, shown |-> 0, cut |-> FALSE]
                     ELSE AppendPart(joined[k - 1], entries[k])
    IN joined[Len(entries)]

FormatIgnoredNodeSetRefs(resolution, limit) ==
    LET ignored == Cardinality(resolution.ignored)
        total   == ignored + Cardinality(resolution.withoutNodes)
    IN joinWithinLimit([i \in 1..total |-> IF i <= ignored THEN IgnoredEntry
                                           ELSE NoNodesEntry], limit)

----------------------------------------------------------------------------
\* The lines of nodes and partitions.  Only the structured form has lines of
\* nodes; users may write their own partition lines, and there are two
\* partitions of all nodes by default.
PartitionConfiguration(v, ns) ==
    LET lines(nodeNames, sets, partitions) ==
            [nodeNames |-> nodeNames, nodeSets |-> sets, partitions |-> partitions]
        ofAll(names) == {[name |-> n, all |-> TRUE, nodes |-> {}] : n \in names}
    IN CASE v.configType = "custom" ->
              lines({}, {}, ofAll({l \in Range(v.rawConfig) : l = "PartitionName"}))
         [] v.configType = "structured" ->
              lines(AddNodesToSlurmConfig(ns), AddNodeSetsToSlurmConfig(ns),
                    AddPartitionsToSlurmConfig(v.partitions, ns))
         [] OTHER -> lines({}, {}, ofAll({"main", "hidden"}))

\* `gpu` was computed from an earlier list of the NodeSets than `ns`.
generateSlurmConfig(v, ns, gpu) ==
    [text            |-> v.text,
     gresTypes       |-> gpu,
     metrics         |-> v.openMetrics,
     cloudDns        |-> HasEphemeralNodes(ns),
     maxNodeCount    |-> Max({MinNodeCount, nextPow2(2 * totalWorkerNodes(ns))}),
     suspendExcNodes |-> buildSuspendExcNodes(ns),
     compute         |-> PartitionConfiguration(v, ns),
     accounting      |-> v.accounting,
     authAlt         |-> v.accounting /\ v.rest]

generateGresConfig(v, ns, gpu) ==
    [autoDetect |-> gpu,
     nodes      |-> IF v.configType = "structured"
                    THEN AddNodesToGresConfig(ns) ELSE {}]

RenderConfigMapSlurmConfigs(v, ns, gpu) ==
    [data |-> [slurm |-> generateSlurmConfig(v, ns, gpu),
               gres  |-> generateGresConfig(v, ns, gpu)]]

\* Every key of the ConfigMap becomes a file of the jail.
RenderJailedConfigSlurmConfigs == [items |-> {"slurm", "gres"}]
=============================================================================
