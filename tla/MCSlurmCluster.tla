--------------------------- MODULE MCSlurmCluster ---------------------------
(* Small instances of SlurmCluster. *)
EXTENDS SlurmCluster

\* The partition "gpu" refers to one NodeSet, "mixed" to two, "all" to all.
Partition(name, refs) == [name |-> name, isAll |-> refs = {}, nodeSetRefs |-> refs]
MCPartitions == {Partition("all", {}), Partition("gpu", {"g"}), Partition("mixed", {"c", "g"})}

NodeSet(replicas, gpu, ephemeral) ==
    [replicas |-> replicas, gpu |-> gpu, ephemeral |-> ephemeral, sssd |-> gpu, docker |-> ~gpu,
     sshd |-> ""]
NoNodeSets == [n \in {} |-> NodeSet(0, FALSE, FALSE)]
CPU == [n \in {"c"} |-> NodeSet(2, FALSE, FALSE)]
Both == [n \in {"c", "g"} |-> IF n = "c" THEN NodeSet(2, FALSE, FALSE) ELSE NodeSet(3, TRUE, TRUE)]
CustomCPU == [CPU EXCEPT !["c"].sshd = "custom-sshd"]
NoGPUs == [Both EXCEPT !["g"].replicas = 0]

Source(name) == [name |-> name, sources |-> {"pvc"}]

Basic ==
    [maintenance |-> "none", text |-> "a", configType |-> "structured", partitions |-> MCPartitions,
     rawConfig |-> <<>>, nodeFilters |-> <<"cpu", "gpu">>,
     volumeSources |-> <<Source("jail"), Source("spool")>>,
     openMetrics |-> FALSE, apparmor |-> FALSE, topology |-> FALSE, accounting |-> FALSE,
     db |-> "none", replication |-> FALSE, rest |-> FALSE, sssd |-> FALSE, userIsolation |-> FALSE,
     exporter |-> FALSE, overwrite |-> FALSE, sshdConfigMapRefName |-> "", loginSize |-> 1,
     rootKeys |-> TRUE, serviceType |-> "LoadBalancer", nodePort |-> 0, loginSubMounts |-> {},
     controllerVolumes |-> {"jail", "spool"},
     filterOf |-> [controller |-> "cpu", accounting |-> "cpu", rest |-> "cpu", sconfig |-> "cpu",
                   login |-> "cpu", populateJail |-> "cpu"]]

Full == [Basic EXCEPT !.openMetrics = TRUE, !.apparmor = TRUE, !.topology = TRUE,
                      !.accounting = TRUE, !.db = "mariadb", !.rest = TRUE,
                      !.sssd = TRUE, !.userIsolation = TRUE, !.exporter = TRUE]

In(mode) == [Basic EXCEPT !.maintenance = mode]
Overwriting == In("downscaleAndOverwritePopulateJail")
Deleting == In("downscaleAndDeletePopulateJail")

Times(b) == [x \in Bounds |-> IF x \in DOMAIN b THEN b[x] ELSE 0]
Nothing == [x \in {} |-> 0]

Start(budget, s, ns, p) ==
    [left |-> Times(budget), spec |-> s, nodeSets |-> ns, settled |-> TRUE, owned |-> {}, plan |-> p]
Fresh(scenario) == [scenario EXCEPT !.settled = FALSE]
Owning(scenario, owned) == [scenario EXCEPT !.owned = owned]

ToSpec(s) == [do |-> "spec", spec |-> s]
ToNodeSets(ns) == [do |-> "nodeSets", nodeSets |-> ns]
Deletes(o) == [do |-> "delete", object |-> o]
Edits(o) == [do |-> "edit", object |-> o]

FullB == [Full EXCEPT !.text = "b"]
BasicB == [Basic EXCEPT !.text = "b"]
Custom == [Basic EXCEPT !.sshdConfigMapRefName = "custom-sshd"]
External == [Full EXCEPT !.db = "external"]
Protected == [Basic EXCEPT !.accounting = TRUE, !.db = "protected"]
Invalid == [Basic EXCEPT !.nodeFilters = <<"gpu">>]
BadLogin == [Basic EXCEPT !.filterOf.login = "typo"]
BadJail == [Basic EXCEPT !.filterOf.populateJail = "typo"]
Raw == [Basic EXCEPT !.configType = "custom", !.rawConfig = <<"PartitionName">>]
Default == [Basic EXCEPT !.configType = "default"]
NodePort == [Basic EXCEPT !.serviceType = "NodePort", !.nodePort = 30022]

\* A new cluster, with everything switched on or next to nothing.
New == {
    Fresh(Start([crash |-> 1], Basic, NoNodeSets, <<>>)),
    Fresh(Start([lag |-> 1], Protected, NoNodeSets, <<>>)),
    Fresh(Start([faults |-> 1], Basic, NoNodeSets, <<>>)),
    Fresh(Start(Nothing, Full, NoNodeSets, <<>>)),
    Fresh(Start([jobFails |-> 1], Basic, NoNodeSets, <<>>)),
    Fresh(Start([jobDeleted |-> 1], Basic, NoNodeSets, <<>>)),
    Fresh(Start(Nothing, BadJail, CPU, <<ToSpec(Basic)>>)),
    Fresh(Start(Nothing, Basic, NoNodeSets, <<ToNodeSets(Both)>>))}

\* Switches of the spec and contents change while passes run.
Switches == {
    Start(Nothing, Basic, Both, <<ToSpec(Full)>>),
    Start(Nothing, Full, Both, <<ToSpec(Basic)>>),
    Start(Nothing, Full, Both, <<ToSpec(FullB), ToNodeSets(NoGPUs), ToSpec(Basic)>>),
    Start(Nothing, Full, CPU, <<ToSpec(FullB), ToSpec(Full)>>),
    Start(Nothing, Basic, NoGPUs, <<ToNodeSets(Both), ToSpec(Raw), ToSpec(Default)>>),
    Start(Nothing, Basic, CPU, <<ToSpec(Invalid), ToSpec(NodePort)>>),
    Start(Nothing, Basic, CPU, <<ToSpec(BadLogin), ToSpec(BasicB)>>),
    Start(Nothing, Basic, CPU, <<ToSpec(Custom), Edits("custom-sshd"), ToNodeSets(CustomCPU), Edits("custom-sshd")>>),
    Owning(Start(Nothing, Full, CPU, <<ToSpec(External), Edits("db-password")>>), {"db-password"})}

\* Requests fail, the cache lags, the operator restarts, objects are deleted.
Failing == {
    Start([lag |-> 1], Full, CPU, <<ToSpec(FullB)>>),
    Start([lag |-> 1], Full, CPU, <<ToSpec(Basic)>>),
    Start([faults |-> 1], Full, CPU, <<ToSpec(FullB)>>),
    Start([crash |-> 1], Full, CPU, <<ToSpec(FullB)>>),
    Start(Nothing, Full, CPU, <<Deletes("munge"), ToSpec(FullB)>>),
    Start(Nothing, Full, CPU, <<ToSpec(FullB), Deletes("accounting"), Deletes("sconfig")>>),
    Start(Nothing, Full, CPU, <<ToSpec(FullB), Deletes("mariadb"), Deletes("controller")>>),
    Start(Nothing, Basic, CPU, <<ToSpec(BasicB), Deletes("login")>>),
    Start([crash |-> 1], Full, CPU, <<Deletes("slurm-configs"), Deletes("rest-jwt")>>),
    Start([lag |-> 1], Full, CPU, <<Deletes("login"), Deletes("munge")>>)}

\* Maintenance begins and ends.
Maintaining == {
    Start(Nothing, Full, CPU, <<ToSpec([Full EXCEPT !.maintenance = "downscale"]), ToSpec(FullB)>>),
    Start([crash |-> 1], Basic, NoNodeSets, <<ToSpec(Overwriting)>>),
    Start([faults |-> 1], Basic, NoNodeSets, <<ToSpec(Overwriting)>>),
    Start(Nothing, Basic, CPU, <<ToSpec(Overwriting), ToSpec(Basic)>>),
    Start(Nothing, Basic, NoNodeSets, <<ToSpec(Deleting), ToSpec(Basic)>>),
    Start(Nothing, Basic, CPU, <<ToSpec(In("skipPopulateJail")), ToSpec(Overwriting)>>),
    Start([jobFails |-> 1], Basic, NoNodeSets, <<ToSpec(Overwriting)>>),
    Start([jobDeleted |-> 1], Basic, CPU, <<ToSpec(Overwriting)>>),
    Start([evict |-> 1], Basic, CPU, <<ToSpec(Overwriting)>>)}

\* Maintenance that removed the Job ends, in a cluster with workers.
EndOfMaintenance == {Start(Nothing, Deleting, CPU, <<ToSpec(Basic)>>)}

MCAll == New \cup Switches \cup Failing \cup Maintaining
=============================================================================
