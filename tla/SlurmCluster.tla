---------------------------- MODULE SlurmCluster ----------------------------
(***************************************************************************)
(* The control plane of a Slurm cluster: the cluster controller, the       *)
(* objects it keeps, the pods that start from them, the Job that fills the *)
(* jail, and the users who change the spec, the NodeSets and the objects   *)
(* while passes run.                                                       *)
(***************************************************************************)
EXTENDS ClusterStatus, WorkerPods, TLC

CONSTANT Scenarios   \* the situations to start from, see Init

Bounds == {"lag", "faults", "crash", "jobFails", "jobDeleted", "evict"}

\* What users do is a sequence of changes, each made at any time.
Changes == {"spec", "nodeSets", "delete", "edit"}

Keys == {"rest-jwt", "munge", "sshd-keys"}
DatabaseSecrets == {"mariadb-password", "mariadb-root"}
UserObjects == {"custom-sshd", "db-password"}

ASSUME SecretsAssumption == Keys \cup DatabaseSecrets \subseteq Secrets

ASSUME ScenariosAssumption ==
    \A s \in Scenarios :
        /\ s.left \in [Bounds -> Nat] /\ s.settled \in BOOLEAN
        /\ s.spec.maintenance \in Modes /\ s.owned \subseteq Objects
        /\ s.plan \in Seq(Range(s.plan))
        /\ \A c \in Range(s.plan) :
              c.do \in Changes /\ (c.do = "edit" => c.object \in UserObjects)

VARIABLES
    plan,       \* the changes users are going to make
    left,       \* how often the environment may still do each thing
    happened    \* what it has done

vars == <<resourceVars, spec, nodeSets, status, passVars, populateVars, plan, left, happened>>

PodKinds == {"controller", "login", "accounting", "sconfig", "mariadb", "workers"}

----------------------------------------------------------------------------
(* What a spec asks for, stated without the steps that bring it about.       *)

If(condition, set) == IF condition THEN set ELSE {}

Always == {"rest-jwt", "slurm-configs", "jailed-config", "munge", "sysctl", "sshd-keys", "sconfig",
           "controller-limits", "controller-svc", "controller", "ssh-root-keys", "login-limits",
           "user-isolation", "login-svc", "login-headless", "login"}

Asked(v) ==
    Always
      \cup If(v.apparmor, {"apparmor"})
      \cup If(v.NodeLogin.sssd, {"sssd-conf"})
      \cup If(v.NodeLogin.isSSHDConfigMapDefault, {"sshd-login"})
      \cup If(v.openMetrics, {"service-monitor"})
      \cup If(v.SlurmExporter.enabled, {"pod-monitor", "exporter"})
      \cup If(v.accounting, {"slurmdbd", "accounting-svc", "accounting"})
      \cup If(v.accounting /\ v.NodeAccounting.mariaDb, {"mariadb", "grant"} \cup DatabaseSecrets)
      \cup If(v.accounting /\ v.rest, {"rest-svc", "rest"})

\* What is removed when it is no longer asked for.
Removed == {"service-monitor", "pod-monitor", "exporter", "accounting-svc", "accounting",
            "mariadb", "grant"}

\* The object in the form the spec asks for.
Wanted(o, v, ns, passwords) ==
    CASE o \in Keys \cup DatabaseSecrets -> GeneratedSecret(1)
      [] o \in UserObjects -> [data |-> <<"user", 1>>]
      [] OTHER -> Desired(o, v, ns, BuildClusterWithGPUFromNodeSets(ns), passwords)

----------------------------------------------------------------------------
\* A cluster whose last pass left nothing to do.
SettledObject(o, s) ==
    LET v == BuildSlurmClusterFrom(s.spec)
        passwords == {Wanted(p, v, s.nodeSets, {}).data : p \in PasswordSecret(v)}
    IN IF o \in Asked(v) \cup s.owned
       THEN [exists |-> TRUE, rv |-> 1, body |-> Wanted(o, v, s.nodeSets, passwords),
             versions |-> [d \in Dependencies(o, v) |-> 1]]
       ELSE Missing(0)

SettledStatus(s) ==
    LET v == BuildSlurmClusterFrom(s.spec)
        on(condition) == IF condition THEN "True" ELSE "False"
        up == ~IsMaintenanceActive(v.maintenance)
    IN [phase |-> "Available", mode |-> v.maintenance,
        refs |-> [reported   |-> TRUE,
                  resolution |-> ResolveNodeSetRefs(v, s.nodeSets),
                  message    |-> FormatIgnoredNodeSetRefs(
                                    ResolveNodeSetRefs(v, s.nodeSets), MessageLimit)],
        conditions |-> [c \in Conditions |->
            CASE c = "accounting" -> on(up /\ v.accounting)
              [] c = "sconfig" -> "True"
              [] OTHER -> on(up)]]

SettledPods(s) ==
    [k \in PodKinds |->
        LET runs == IF k = "workers" THEN DOMAIN s.nodeSets # {} ELSE SettledObject(k, s).exists
        IN IF ~IsMaintenanceActive(s.spec.maintenance) /\ runs THEN "ready" ELSE "none"]

\* In a new cluster there are only the users' own objects.
Init ==
    \E s \in Scenarios :
        /\ spec = s.spec /\ nodeSets = s.nodeSets
        /\ objects = [o \in Objects |->
               IF s.settled \/ o \in s.owned THEN SettledObject(o, s) ELSE Missing(0)]
        /\ stale = NoVersions
        /\ status = IF s.settled THEN SettledStatus(s) ELSE NoStatus
        /\ job = IF s.settled /\ ~IsModeDownscaleAndDeletePopulate(s.spec.maintenance)
                 THEN [NoJob EXCEPT !.state = "succeeded"] ELSE NoJob
        /\ jail = [populated |-> s.settled, asked |-> "no"]
        /\ pods = IF s.settled THEN SettledPods(s) ELSE [k \in PodKinds |-> "none"]
        /\ pass = Idle /\ queued = ~s.settled
        /\ plan = s.plan /\ left = s.left /\ happened = {}

Spend(b) ==
    /\ left[b] > 0
    /\ left' = [left EXCEPT ![b] = @ - 1]
    /\ happened' = happened \cup {b}
    /\ UNCHANGED plan

Free == UNCHANGED <<plan, left, happened>>

----------------------------------------------------------------------------
(* The controller.                                                           *)

Controller ==
    /\ \/ ReconcileStep /\ UNCHANGED job
       \/ StartPass \/ Validation \/ ValidateAccountingPanics \/ Availability
       \/ /\ ReconcilePopulateJail \/ PollSucceeded \/ PollFails
          /\ UNCHANGED <<resourceVars, status>>
    /\ Free /\ UNCHANGED <<spec, nodeSets, jail, pods>>

\* An operator that restarts lists everything and reconciles every cluster.
Restart ==
    /\ pass' = Idle /\ queued' = TRUE /\ stale' = NoVersions
    /\ UNCHANGED <<objects, status, job>>

ControllerFaults ==
    /\ \/ Spend("lag") /\ LaggingStep /\ UNCHANGED job
       \/ Spend("faults") /\ (StepFails \/ ReportFails) /\ UNCHANGED job
       \/ Spend("faults") /\ PopulateFails /\ UNCHANGED <<resourceVars, status>>
       \/ Spend("faults") /\ (ConditionFails \/ PhaseFails)
       \/ Spend("crash") /\ Restart
    /\ UNCHANGED <<spec, nodeSets, jail, pods>>

Cache ==
    /\ \E o \in Objects : CatchUp(o)
    /\ Free /\ UNCHANGED <<spec, nodeSets, populateVars>>

----------------------------------------------------------------------------
(* Users.                                                                    *)

\* The objects of users a change of which starts a pass (the indexers).
Referenced ==
    {spec.sshdConfigMapRefName} \cup If(spec.db = "external", {"db-password"})

ChangeSpec(new) ==
    /\ spec' = new /\ queued' = TRUE
    /\ jail' = IF IsModeDownscaleAndOverwritePopulate(new.maintenance)
                THEN [jail EXCEPT !.asked = "asked"] ELSE jail
    /\ UNCHANGED <<nodeSets, objects>>

ChangeNodeSets(new) ==
    /\ nodeSets' = new /\ queued' = TRUE
    /\ UNCHANGED <<spec, objects, jail>>

DeleteObject(o) ==
    /\ Exists(o)
    /\ objects' = [objects EXCEPT ![o] = Missing(@.rv)]
    /\ queued' = (queued \/ o \notin UserObjects \/ o \in Referenced)
    /\ UNCHANGED <<spec, nodeSets, jail>>

EditObject(o) ==
    LET rv == objects[o].rv + 1
    IN /\ objects' = [objects EXCEPT ![o] =
              [exists |-> TRUE, rv |-> rv, body |-> [data |-> <<"user", rv>>],
               versions |-> NoVersions]]
       /\ queued' = (queued \/ o \in Referenced)
       /\ UNCHANGED <<spec, nodeSets, jail>>

Users ==
    /\ plan # <<>> /\ plan' = Tail(plan)
    /\ \/ Head(plan).do = "spec" /\ ChangeSpec(Head(plan).spec)
       \/ Head(plan).do = "nodeSets" /\ ChangeNodeSets(Head(plan).nodeSets)
       \/ Head(plan).do = "delete" /\ DeleteObject(Head(plan).object)
       \/ Head(plan).do = "edit" /\ EditObject(Head(plan).object)
    /\ UNCHANGED <<stale, status, pass, job, pods, left, happened>>

----------------------------------------------------------------------------
(* Pods.  The controller looks at them in these places only; what they do    *)
(* while it renders objects is done before or after.                         *)

Observed == pass.at \in {"idle", "populate", "poll", "validate-controllers", "validate-login",
                         "validate-accounting", "validate-sconfig"}

\* The NodeSet controller does not look at the Job that fills the jail.
WantsPods(k) ==
    IF k = "workers" THEN DOMAIN nodeSets # {} /\ ~IsMaintenanceActive(spec.maintenance)
    ELSE Exists(k) /\ objects[k].body.replicas > 0

WaitsFor(what) ==
    IF what = "jail" THEN jail.populated ELSE pods[what] = "ready"

\* The NodeSet controller deploys the workers of these NodeSets.
Deployable ==
    {n \in DOMAIN nodeSets :
        \A o \in getWorkersStatefulSetDependencies(nodeSets[n], BuildSlurmClusterFrom(spec)) :
            Exists(o)}

\* A pod of one of the NodeSets can.
WorkersCanStart ==
    \E n \in Deployable :
        LET v == BuildSlurmClusterFrom(spec)
        IN /\ \A o \in WorkerNeeds(nodeSets[n], v) : Exists(o)
           /\ \A w \in RenderNodeSetStatefulSet(nodeSets[n], v).waits : WaitsFor(w)

CanStart(k) ==
    CASE k = "workers" -> WorkersCanStart
      [] k = "mariadb" -> \A s \in DatabaseSecrets : Exists(s)
      [] OTHER -> LET template == objects[k].body.template
                  IN /\ \A o \in Needs(template) : Exists(o)
                     /\ MountsDeclared(template)
                     /\ \A w \in template.waits : WaitsFor(w)

\* Only the pods whose start and readiness are told apart have both.
PodStarts(k) ==
    /\ WantsPods(k) /\ pods[k] = "none" /\ k \in {"login", "workers"}
    /\ k = "workers" => Deployable # {}
    /\ pods' = [pods EXCEPT ![k] = "starting"]

PodReady(k) ==
    /\ WantsPods(k) /\ CanStart(k)
    /\ pods[k] = IF k \in {"login", "workers"} THEN "starting" ELSE "none"
    /\ pods' = [pods EXCEPT ![k] = "ready"]

PodStops(k) ==
    /\ ~WantsPods(k) /\ pods[k] # "none"
    /\ pods' = [pods EXCEPT ![k] = "none"]

Pods ==
    /\ Observed
    /\ \E k \in PodKinds : PodStarts(k) \/ PodReady(k) \/ PodStops(k)
    /\ Free
    /\ UNCHANGED <<resourceVars, spec, nodeSets, status, passVars, job, jail>>

\* A node is drained, a pod dies: its workload starts another one.
PodFaults ==
    /\ Observed /\ Spend("evict")
    /\ \E k \in PodKinds : pods[k] # "none" /\ pods' = [pods EXCEPT ![k] = "none"]
    /\ UNCHANGED <<resourceVars, spec, nodeSets, status, passVars, job, jail>>

\* The MariaDB operator generates the passwords it is asked to generate.
MariaDBOperator ==
    /\ \E s \in DatabaseSecrets :
          /\ Exists("mariadb") /\ objects["mariadb"].body.generate /\ ~Exists(s)
          /\ objects' = [objects EXCEPT ![s] =
                 [exists |-> TRUE, rv |-> @.rv + 1, body |-> GeneratedSecret(@.rv + 1),
                  versions |-> NoVersions]]
    /\ Free /\ UNCHANGED <<stale, spec, nodeSets, status, passVars, populateVars>>

Job == JobSucceeds /\ Free /\ UNCHANGED <<resourceVars, spec, nodeSets, status, passVars, pods>>

\* Its deletion starts a pass, its failure does not.
JobFaults ==
    /\ \/ Spend("jobFails") /\ JobFails /\ UNCHANGED queued
       \/ Spend("jobDeleted") /\ JobDeleted /\ queued' = TRUE
    /\ UNCHANGED <<resourceVars, spec, nodeSets, status, pass, pods>>

Next ==
    \/ Controller \/ ControllerFaults \/ Cache \/ Users \/ Pods \/ PodFaults
    \/ MariaDBOperator \/ Job \/ JobFaults

Spec == Init /\ [][Next]_vars

\* Work queues, watches, the controllers of Kubernetes and the operator of the
\* database keep running; the Job ends.  Nobody has to change anything.
Fairness ==
    /\ WF_vars(Controller) /\ WF_vars(Cache) /\ SF_vars(Pods)
    /\ WF_vars(MariaDBOperator) /\ WF_vars(Job)

FairSpec == Spec /\ Fairness

----------------------------------------------------------------------------
\* No pass runs or is going to, and the operator's cache is current.
AtRest == pass = Idle /\ ~queued /\ stale = NoVersions

Now == BuildSlurmClusterFrom(spec)

\* An object is as the spec asks for, but for what the patch of a MariaDB
\* leaves as it was when the object was created.
AsAsked(o) ==
    LET body == Desired(o, Now, nodeSets, BuildClusterWithGPUFromNodeSets(nodeSets),
                        {objects[p].body.data : p \in PasswordSecret(Now)})
        frozen == IF o \in MariaDbs THEN {"replication"} ELSE {}
    IN \A f \in DOMAIN body \ frozen : objects[o].body[f] = body[f]

\* No pod waits for an object that does not exist, and no template mounts a
\* volume it does not declare: the switches of the spec that add a mount, its
\* volume and the object behind it agree.
PodsCanStart ==
    /\ \A o \in {w \in Deployments \cup AdvancedStatefulSets : WantsPods(w)} :
          LET template == objects[o].body.template
          IN (\A d \in Needs(template) : Exists(d)) /\ MountsDeclared(template)
    /\ \A n \in Deployable :
          /\ \A d \in WorkerNeeds(nodeSets[n], Now) : Exists(d)
          /\ MountsDeclared(RenderNodeSetStatefulSet(nodeSets[n], Now))

\* The status names exactly the references that are missing from the
\* partitions of slurm.conf, in a message the API server accepts.
StatusExplainsPartitions ==
    status.refs.reported =>
        LET lines == objects["slurm-configs"].body.data.slurm.compute.partitions
            asked == {p \in Now.partitions : ~p.isAll /\ p.nodeSetRefs # {}}
        IN /\ status.refs.message.size <= MessageLimit
           /\ status.refs.resolution.withoutNodes = {l.name : l \in {m \in lines : ~m.all /\ m.nodes = {}}}
           /\ Now.configType = "structured" =>
                status.refs.resolution.ignored =
                  UNION {{<<p.name, r>> : r \in p.nodeSetRefs \ UNION {l.nodes : l \in {m \in lines : m.name = p.name}}} : p \in asked}

\* Level-triggered: whatever changed while passes ran, failed and were retried,
\* once the operator is at rest every object the current spec asks for exists
\* and is as rendered from the current spec, NodeSets and passwords, what it no
\* longer asks for is gone, the pods can start and the status is about this
\* spec.  No change is lost between two passes.
SettledMatchesSpec ==
    AtRest =>
        /\ \A o \in Asked(Now) : Exists(o)
        /\ \A o \in Asked(Now) \ (Keys \cup DatabaseSecrets) : AsAsked(o)
        /\ \A o \in Removed \ Asked(Now) : ~Exists(o)
        /\ PodsCanStart
        /\ StatusExplainsPartitions

\* "Important: this service will restart every time slurm-configs ConfigMap
\* changes": at rest a workload has been replaced since its dependencies last
\* changed.  A cache that lags behind the operator's own write of a dependency
\* makes it miss that.
RestartedOnChange ==
    AtRest /\ "lag" \notin happened =>
        \A o \in Asked(Now) \cap (Deployments \cup AdvancedStatefulSets) :
            \A d \in DOMAIN objects[o].versions : objects[o].versions[d] = objects[d].rv

\* slurmctld accepts slurm.conf as it is at any time: every NodeSet a partition
\* names has a line, every range of nodes a line uses is declared, and there is
\* room for all nodes; at rest the GPUs of gres.conf have a declared type.
ConfigAccepted ==
    Exists("slurm-configs") =>
        LET conf == objects["slurm-configs"].body.data.slurm
            gres == objects["slurm-configs"].body.data.gres
        IN /\ UNION {p.nodes : p \in conf.compute.partitions} \subseteq {r.nodeSet : r \in conf.compute.nodeSets}
           /\ conf.compute.nodeSets \cup gres.nodes \subseteq conf.compute.nodeNames
           /\ MapThenSumSet(LAMBDA r : r.last + 1, conf.compute.nodeNames) <= conf.maxNodeCount
           /\ AtRest /\ gres.nodes # {} => conf.gresTypes /\ gres.autoDetect
           /\ AtRest => objects["jailed-config"].body.items = DOMAIN objects["slurm-configs"].body.data

\* A generated key or password is never replaced by another one, whatever the
\* cache shows: pods and jobs that use the old one would be cut off.
KeysSurvive ==
    [][\A o \in Keys \cup DatabaseSecrets :
          Exists(o) /\ objects'[o].exists => objects'[o].body = objects[o].body]_vars

\* "login/worker pods must not be created while restic restore is still
\* running": true of the login pods, unless one is evicted or the Job deleted
\* just when the controller looks for them.
LoginWaitsForRestore ==
    job.state = "running" /\ happened \cap {"evict", "jobDeleted"} = {} => pods["login"] = "none"

\* The same, of the worker pods.
WorkersWaitForRestore ==
    job.state = "running" /\ happened \cap {"evict", "jobDeleted"} = {} => pods["workers"] = "none"

\* At rest, "Available" means that the pods the spec asks for are up.
AvailableMeansReady ==
    /\ AtRest /\ status.phase = "Available" /\ "evict" \notin happened
    /\ ~IsMaintenanceActive(spec.maintenance)
    => \A k \in (PodKinds \ {"workers"}) \cap Asked(Now) : WantsPods(k) => pods[k] = "ready"

\* The specs that can be brought about: valid, every name found, and accounting
\* only with a database of the operator's own.
Sound ==
    /\ \A v \in {Now} :
         /\ Validate(v)
         /\ \A c \in {v.NodeController, v.NodeLogin, v.SConfigController, v.PopulateJail} :
               NodeFilterFound(v, c) /\ VolumeSourcesFound(v, c)
         /\ v.accounting => NodeFilterFound(v, v.NodeAccounting)
         /\ v.accounting = v.NodeAccounting.mariaDb
    /\ \A o \in Referenced \ {""} : Exists(o)

\* Whatever users change and whatever fails on the way, a cluster whose spec
\* can be brought about comes to rest and is Available.
BecomesAvailable ==
    <>[](Sound /\ "jobFails" \notin happened => AtRest /\ status.phase = "Available")

\* A request to overwrite the jail is carried out, and once: no second Job
\* empties it again, as long as passes are neither cut off nor fail, and in the
\* end no request is left that has not been withdrawn.
OverwrittenOnce ==
    /\ [](jail.asked = "done" /\ happened \cap {"crash", "faults", "lag", "jobDeleted"} = {} =>
             ~(job.state = "running" /\ job.overwrite))
    /\ <>[](/\ jail.asked = "asked" /\ IsModeDownscaleAndOverwritePopulate(spec.maintenance)
            => ~Sound \/ "jobFails" \in happened)
=============================================================================
