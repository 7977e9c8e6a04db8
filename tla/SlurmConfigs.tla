---------------------------- MODULE SlurmConfigs ----------------------------
(***************************************************************************)
(* How configuration reaches the daemons: ConfigMaps of the cluster        *)
(* controller and of the topology controllers, the files the JailedConfig  *)
(* controller writes from them, and the worker pods that wait for them,    *)
(* start slurmd and reload.                                                *)
(***************************************************************************)
EXTENDS WorkerTopology

CONSTANTS
  Versions,   \* contents of the ConfigMaps other than the topology
  Labellings, \* the labels Kubernetes nodes may have
  Scenarios   \* the situations to start from, see Init

Bounds == {"create", "update", "bad", "delete", "faults", "crash", "timeout", "poll", "silent",
           "pods", "evict", "init", "unregistered", "nodes", "relabel", "distribution", "lost"}

ASSUME ScenariosAssumption ==
  \A s \in Scenarios :
    /\ s.plugin \in {"tree", "block"} /\ s.left \in [Bounds -> Nat]
    /\ s.jailed \subseteq Configs /\ s.running \subseteq Readers
    /\ s.nodes \in [DOMAIN s.nodes -> Labellings] /\ DOMAIN s.nodes \subseteq K8SNodes

VARIABLES
  left,      \* how often the environment may still do each thing
  happened   \* what it has done

vars == <<fileVars, configVars, slurmdVars, topologyVars, workerVars, left, happened>>

Contents(c, v) == [p \in Paths |-> IF p \in FilesOf[c] THEN {<<p, v>>} ELSE Missing]
Recorded(nodes) ==
  [exists |-> TRUE, data |-> Restrict(nodes, {k \in DOMAIN nodes : 1 \in DOMAIN nodes[k]})]

\* The JailedConfigs of the scenario have been applied and its workers run;
\* the other files are there as well, except a topology nobody has rendered.
Init ==
  \E s \in Scenarios :
    LET first == CHOOSE v \in Versions : TRUE
        labels == [k \in K8SNodes |-> IF k \in DOMAIN s.nodes THEN s.nodes[k] ELSE Unlabelled]
        topology == buildNodeSetTopologyConfig(s.plugin, Nothing, <<>>)
        data == [c \in Configs |-> IF c # "topology" THEN Contents(c, first)
                                   ELSE Rendered(IF c \in s.jailed THEN topology ELSE Missing)]
        files == [p \in Paths |-> UNION {data[c][p] : c \in Configs}]
    IN
    /\ FilesInit(files)
    /\ jailed = s.jailed
    /\ configMaps = [c \in Configs |-> [exists |-> c \in s.jailed, data |-> data[c]]]
    /\ written = [c \in Configs |-> IF c \in s.jailed THEN "True" ELSE ""]
    /\ completed = written
    /\ configQueue = {} /\ pass = Idle
    /\ slurmd = [n \in Readers |->
         IF n \in s.running
         THEN [phase |-> "up", toRead |-> {}, loaded |-> Restrict(files, SlurmdFiles), reload |-> FALSE]
         ELSE [phase |-> "absent", toRead |-> {}, loaded |-> NothingLoaded, reload |-> FALSE]]
    /\ restarted = {}
    /\ k8sNodes = DOMAIN s.nodes /\ nodeLabels = labels
    /\ distribution = Recorded(s.nodes) /\ labelsMap = distribution
    /\ nodeQueue = {} /\ recreate = FALSE
    /\ scheduled = [w \in Readers |-> IF w \in s.running THEN {CHOOSE k \in k8sNodes : TRUE} ELSE {}]
    /\ plugin = s.plugin
    /\ init = [w \in Readers |-> IF w \in s.running THEN "done" ELSE "none"]
    /\ asked = [w \in Readers |-> NotAsked]
    /\ left = s.left /\ happened = {}

Spend(b) ==
  /\ left[b] > 0
  /\ left' = [left EXCEPT ![b] = @ - 1]
  /\ happened' = happened \cup {b}

Free == UNCHANGED <<left, happened>>

-----------------------------------------------------------------------------
\* The cluster controller and users write ConfigMaps.
ConfigMapsChange ==
  /\ \E c \in Configs \ {"topology"} :
       \/ /\ Spend("create") /\ c \notin jailed /\ CreateJailedConfig(c)
          /\ configMaps' = [configMaps EXCEPT ![c].exists = TRUE]
       \/ \E v \in Versions :
            /\ c \in jailed /\ Contents(c, v) # configMaps[c].data
            /\ Spend("update") /\ WriteConfigMap(c, Contents(c, v)) /\ UNCHANGED jailed
       \/ \E p \in FilesOf[c] :
            /\ c \in jailed /\ configMaps[c].data[p] # Missing
            /\ Spend("bad")
            /\ WriteConfigMap(c, [configMaps[c].data EXCEPT ![p] = Missing]) /\ UNCHANGED jailed
       \/ c \in jailed /\ Spend("delete") /\ DeleteConfigMap(c) /\ UNCHANGED jailed
  /\ UNCHANGED <<fileVars, written, completed, pass, slurmdVars, topologyVars, workerVars>>

ConfigController ==
  /\ \/ \E c \in Configs : \/ Reconcile(c) \/ NextConfig(c) \/ ConfigMapMissing(c)
                           \/ PayloadInvalid(c) \/ FilesAreWritten(c)
     \/ \E p \in Paths : WriteFile(p)
     \/ FinishStarts \/ FinishRemoves \/ ActionsCompleted
  /\ Free /\ UNCHANGED <<slurmdVars, topologyVars, workerVars>>

FinishWaits == FinishSyncs /\ Free /\ UNCHANGED <<slurmdVars, topologyVars, workerVars>>

Reconfigure ==
  /\ ReadStartTimes \/ RequestReconfigure \/ pollSlurmNodesRestart
  /\ Free /\ UNCHANGED <<topologyVars, workerVars>>

ConfigFaults ==
  /\ \/ (CallFails \/ FinishRemoveFails) /\ Spend("faults") /\ UNCHANGED slurmdVars
     \/ ReconfigureAnswerLost /\ Spend("faults")
     \/ PollTimesOut /\ Spend("timeout")
     \/ PollFails /\ Spend("poll")
     \/ ControllerRestarts /\ Spend("crash") /\ UNCHANGED slurmdVars
  /\ UNCHANGED <<topologyVars, workerVars>>

-----------------------------------------------------------------------------
Slurmd(n) ==
  /\ \/ init[n] = "done" /\ SlurmdStarts(n)
     \/ SlurmdReloads(n) \/ SlurmdRegisters(n) \/ SlurmdAnswers(n)
     \/ \E p \in Paths : SlurmdReads(n, p)
  /\ Free /\ UNCHANGED <<fileVars, configVars, topologyVars, workerVars>>

Silence(n) ==
  /\ SlurmdIsSilent(n) /\ Spend("silent")
  /\ UNCHANGED <<fileVars, configVars, topologyVars, workerVars>>

Caches ==
  /\ \E n \in Readers, p \in Paths : EntryExpires(n, p)
  /\ Free /\ UNCHANGED <<configVars, slurmdVars, topologyVars, workerVars>>

-----------------------------------------------------------------------------
Nodes ==
  /\ \E k \in K8SNodes :
       \/ \E labels \in Labellings : NodeAppears(k, labels) /\ Spend("nodes")
       \/ \E labels \in Labellings : NodeRelabelled(k, labels) /\ Spend("relabel")
       \/ (\A w \in Readers : scheduled[w] # {k}) /\ NodeDisappears(k) /\ Spend("nodes")
  /\ UNCHANGED <<fileVars, configVars, slurmdVars, workerVars>>

DistributionFaults ==
  /\ \/ DistributionDeleted /\ Spend("distribution")
     \/ RecreateDistributionFails /\ Spend("lost")
     \/ \E k \in K8SNodes : ReconcileNodeFails(k) /\ Spend("lost")
  /\ UNCHANGED <<fileVars, configVars, slurmdVars, workerVars>>

\* Start runs again only when the controllers restart.
NodeTopologyController ==
  /\ \/ (\E k \in K8SNodes : ReconcileNode(k)) /\ Free
     \/ RecreateDistribution /\ Free
     \/ EnsureDistribution /\ Spend("crash")
  /\ UNCHANGED <<fileVars, configVars, slurmdVars, workerVars>>

OpenKruise == Distribute /\ Free /\ UNCHANGED <<fileVars, configVars, slurmdVars, workerVars>>

WorkerTopologyController ==
  /\ EnsureWorkerTopologyConfigMap \/ ReconcileTopology
  /\ Free /\ UNCHANGED <<fileVars, slurmdVars, topologyVars, workerVars>>

Pods ==
  /\ \E w \in Readers :
       \/ /\ (\E k \in K8SNodes : Schedule(w, k)) /\ Spend("pods")
          /\ slurmd' = [slurmd EXCEPT ![w].phase = "down"]
       \/ /\ Evict(w) /\ Spend("evict")
          /\ slurmd' = [slurmd EXCEPT ![w] = [phase |-> "absent", toRead |-> {},
                                              loaded |-> NothingLoaded, reload |-> FALSE]]
  /\ UNCHANGED <<restarted, fileVars, configVars, topologyVars>>

WorkerInit(w) ==
  /\ FindsLabels(w) \/ FindsHostname(w) \/ AppliesTopology(w, TRUE)
  /\ Free /\ UNCHANGED <<fileVars, configVars, slurmdVars, topologyVars>>

WorkerInitFaults ==
  /\ \E w \in Readers : \/ InitFails(w) /\ Spend("init")
                        \/ AppliesTopology(w, FALSE) /\ Spend("unregistered")
  /\ UNCHANGED <<fileVars, configVars, slurmdVars, topologyVars>>

Next ==
  \/ ConfigMapsChange \/ ConfigController \/ FinishWaits \/ Reconfigure \/ ConfigFaults
  \/ \E n \in Readers : Slurmd(n) \/ Silence(n) \/ WorkerInit(n)
  \/ Caches \/ Nodes \/ DistributionFaults \/ NodeTopologyController \/ OpenKruise
  \/ WorkerTopologyController \/ Pods \/ WorkerInitFaults

Spec == Init /\ [][Next]_vars

\* Workqueues and pollers keep running; a wait of fixed length ends.
Fairness ==
  /\ WF_vars(ConfigController) /\ SF_vars(FinishWaits) /\ WF_vars(Reconfigure)
  /\ WF_vars(Caches) /\ WF_vars(NodeTopologyController /\ Free) /\ WF_vars(OpenKruise)
  /\ WF_vars(WorkerTopologyController)
  /\ \A n \in Readers : WF_vars(Slurmd(n)) /\ WF_vars(WorkerInit(n))

FairSpec == Spec /\ Fairness

-----------------------------------------------------------------------------
\* No pass works on c or is going to.
Settled(c) == pass.pc = "idle" /\ configQueue = {}

InJail(c) == \A p \in FilesOf[c] : file[p] = configMaps[c].data[p]
LoadedBy(n, c) == \A p \in FilesOf[c] : slurmd[n].loaded[p] = file[p]

\* The conditions of a JailedConfig say what is so once the controller is done.
\* "FilesWritten indicates whether all files from this config were written to
\* jail": the jail has what the ConfigMap holds, although a failing pass puts
\* back the files of configs it has already marked.  "`Reconfigure` will call
\* reconfigure endpoint and wait until slurmd restarts on every node": when the
\* update actions are completed, the nodes that respond have loaded the files in
\* the jail, whenever they started and whatever their directory caches held; not
\* so after a failed poll (which reconfigureCluster does not report) and for a
\* node that did not answer for a while (which the poll stops waiting for).
\* Neither holds in a group with a config that cannot be rendered, which ends
\* the pass without a retry.
ConditionsHold ==
  "bad" \notin happened =>
    \A c \in jailed : Settled(c) /\ configMaps[c].exists =>
      /\ written[c] = "True" => InJail(c)
      /\ c \in Reconfigures /\ completed[c] = "True" /\ happened \cap {"poll", "silent"} = {} =>
           \A n \in Readers : slurmd[n].phase = "up" => LoadedBy(n, c)

\* A slurmd that reloads reads all files of a config in one version: the next
\* pass does not replace files while the nodes restart ("worker can observe
\* inconsistent FS state"), unless a pass gave up waiting for them.
ReloadsReadOneVersion ==
  [][\A n \in Readers, c \in Reconfigures :
       /\ slurmd[n].phase = "reloading" /\ slurmd'[n].phase = "up"
       /\ happened \cap {"faults", "crash", "timeout", "poll", "silent"} = {}
       => \E v \in Versions : \A p \in FilesOf[c] : slurmd'[n].loaded[p] = {<<p, v>>}]_vars

\* No daemon finds a directory entry whose file has been removed, because
\* replaced files stay until the caches have expired ("Deleting earlier can
\* lead to "file not found" errors").  Cleanup removes the new files of a pass
\* that fails at once.
ReadersFindFiles ==
  happened \cap {"faults", "bad"} = {} =>
    \A n \in Readers, p \in Paths : cache[n][p] # Gone

\* topology.conf lists every Slurm node below exactly one switch or block,
\* with or without a pod and with or without labels ("so the topology stays
\* complete and stable regardless of pod lifecycle").
EveryNodeListedOnce ==
  LET conf == configMaps["topology"].data[TopologyPath] IN
  conf \notin {Missing, DefaultTopology} =>
    /\ Readers \subseteq ListedNodes(conf)
    /\ \A w \in Readers : Cardinality({e \in conf : e[2] = w}) = 1

\* w asked for the topology topology.conf gives it, if both come from the same
\* labels.
AsksForItsPlace(w) ==
  LET conf == configMaps["topology"].data[TopologyPath] IN
  /\ asked[w].conf # {} /\ labelsMap.exists /\ conf = DesiredTopology
  /\ w \in GPUWorkers => LabelsFor(w) = asked[w].labels
  => asked[w].conf = Ancestry(conf, w)

\* The topology a worker asks slurmctld for is its place in topology.conf
\* (worker_init.py: "Must match the operator's per-fabric root switch"), for
\* nodes without the tier-0 label.
AskedTopologyMatches ==
  \A w \in Readers : 0 \notin DOMAIN asked[w].labels => AsksForItsPlace(w)

\* The configs that can be applied are: their files are in the jail, both
\* conditions say so and the daemons have loaded them.
Applied ==
  \A c \in jailed :
    configMaps[c].exists =>
      /\ InJail(c) /\ written[c] = "True" /\ completed[c] = "True"
      /\ c \in Reconfigures => \A n \in Readers : slurmd[n].phase = "up" => LoadedBy(n, c)

\* Whatever fails, configs are eventually applied: every error leads to a
\* retry and a ConfigMap that appears later to another pass.
ConfigsApplied == <>[](happened \cap {"poll", "silent", "bad"} = {} => Applied)

\* The nodes whose record follows their labels: changes that leave the tier-1
\* label alone are not noticed and its removal leaves the record as it was.
Tracked == {k \in k8sNodes : 1 \in DOMAIN nodeLabels[k]}

\* The labels of the Kubernetes nodes end up in topology.conf in the jail,
\* also when the ResourceDistribution is deleted on the way.
TopologyReachesJail ==
  <>[](happened \cap {"lost", "bad"} = {} =>
         /\ \A k \in Tracked : labelsMap.exists /\ k \in DOMAIN labelsMap.data
                               /\ labelsMap.data[k] = nodeLabels[k]
         /\ DOMAIN labelsMap.data \subseteq k8sNodes
         /\ file[TopologyPath] = DesiredTopology)

\* A worker whose pod is scheduled to a node with the labels the plugin needs (any
\* node if it has no GPUs) gets through worker_init.py and starts slurmd.
WorkersStart ==
  <>[](happened \cap {"lost", "bad"} = {} =>
         \A w \in Readers :
           /\ scheduled[w] # {}
           /\ w \in GPUWorkers => scheduled[w] \subseteq {k \in Tracked : Formats(nodeLabels[k])}
           => slurmd[w].phase = "up")
=============================================================================
