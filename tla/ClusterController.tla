-------------------------- MODULE ClusterController --------------------------
(* One pass of the SlurmCluster controller                                   *)
(* (internal/controller/clustercontroller): which objects a spec asks for,   *)
(* what each must look like and depend on, and the steps that bring them     *)
(* there, in the order of the code.                                          *)
EXTENDS ReconcileResources, SlurmConf, PodTemplates

VARIABLES
    spec,       \* the spec of the SlurmCluster
    nodeSets,   \* the NodeSets of the cluster: name -> its replicas and switches
    status,     \* the status of the SlurmCluster
    pass,       \* what the running pass has read and done
    queued      \* the cluster is in the controller's work queue

passVars == <<pass, queued>>

Idle == [at |-> "idle"]

----------------------------------------------------------------------------
(* The dependencies of the workloads: objects that must exist first and      *)
(* whose changes restart the workload.                                       *)

getAccountingDeploymentDependencies(v) ==
    {"slurm-configs", "slurmdbd", "munge"}
      \cup (IF v.NodeAccounting.externalDB THEN {"db-password"} ELSE {})

getControllersStatefulSetDependencies(v) ==
    {"munge"} \cup (IF v.accounting THEN {"slurmdbd"} ELSE {})

\* The default sshd ConfigMap is among them even when the user has their own.
getLoginStatefulSetDependencies(v) ==
    {"ssh-root-keys", "munge", "sshd-login", v.NodeLogin.sshdConfigMapName}
      \cup (IF v.NodeLogin.userIsolation THEN {"user-isolation"} ELSE {})
      \cup (IF v.accounting THEN {"slurmdbd"} ELSE {})

getRESTDeploymentDependencies == {"slurm-configs", "slurmdbd", "rest-jwt"}

Dependencies(o, v) ==
    CASE o = "accounting" -> getAccountingDeploymentDependencies(v)
      [] o = "controller" -> getControllersStatefulSetDependencies(v)
      [] o = "login" -> getLoginStatefulSetDependencies(v)
      [] o = "rest" -> getRESTDeploymentDependencies
      [] OTHER -> {}

----------------------------------------------------------------------------
(* Rendered objects.  Keys are generated once: `serial` tells one generated  *)
(* key from another.                                                         *)

GeneratedSecret(serial) == [data |-> <<"generated", serial>>]

RenderSecretDefaultSSSDConf == [data |-> <<"sssd", 0>>]

RenderConfigMap(v) == [data |-> v.text]

RenderConfigMapUserIsolation(v) ==
    [data |-> <<v.text, v.NodeLogin.userIsolation>>]

RenderService(v) == [ports |-> v.text]

RenderAppArmorProfile(v) == [policy |-> v.text]

RenderServiceMonitor(v) == [endpoints |-> v.text]

RenderPodMonitor(v) == [endpoints |-> v.text]

\* The Secret whose password slurmdbd gets.
PasswordSecret(v) ==
    IF v.NodeAccounting.mariaDb THEN {"mariadb-password"}
    ELSE IF v.NodeAccounting.externalDB THEN {"db-password"} ELSE {}

\* The passwords in it, as the operator sees them.
Passwords(v) == {Seen(s).body.data : s \in PasswordSecret(v)}

RenderSecretSlurmdbd(v, passwords) ==
    [data |-> [text |-> v.text, rest |-> v.rest,
               host |-> IF v.NodeAccounting.mariaDb THEN "mariadb" ELSE "external",
               passwords |-> passwords]]

RenderMariaDbGrant == [privileges |-> "ALL"]

RenderMariaDb(v) ==
    [replicas |-> Replicas(v, v.NodeAccounting), server |-> v.text,
     generate |-> ~v.NodeAccounting.protectedSecret,
     replication |-> v.NodeAccounting.replication]

Desired(o, v, ns, gpu, passwords) ==
    CASE o = "slurm-configs" -> RenderConfigMapSlurmConfigs(v, ns, gpu)
      [] o = "jailed-config" -> RenderJailedConfigSlurmConfigs
      [] o = "apparmor" -> RenderAppArmorProfile(v)
      [] o = "slurmdbd" -> RenderSecretSlurmdbd(v, passwords)
      [] o = "grant" -> RenderMariaDbGrant
      [] o = "mariadb" -> RenderMariaDb(v)
      [] o = "user-isolation" -> RenderConfigMapUserIsolation(v)
      [] o = "sssd-conf" -> RenderSecretDefaultSSSDConf
      [] o = "service-monitor" -> RenderServiceMonitor(v)
      [] o = "pod-monitor" -> RenderPodMonitor(v)
      [] o = "accounting" -> accountingDeployment(v)
      [] o = "sconfig" -> sconfigDeployment(v)
      [] o = "controller" -> controllerStatefulSet(v)
      [] o = "login" -> loginStatefulSet(v, gpu)
      [] o = "rest" -> restDeployment(v)
      [] o = "exporter" -> exporterDeployment(v)
      [] o \in Services -> RenderService(v)
      [] OTHER -> RenderConfigMap(v)

----------------------------------------------------------------------------
(* What the steps do: nothing, fail, bring an object to its rendered form,   *)
(* remove it, or create it and fail all the same.                            *)

Skip == [does |-> "nothing"]
Fail == [does |-> "fail"]
Ensure(o, body, deps) ==
    [does |-> "ensure", object |-> o, body |-> body, deps |-> deps]
Delete(o) == [does |-> "delete", object |-> o]
CreateAndFail(o) == [does |-> "createAndFail", object |-> o]

\* The object as rendered from the values of this pass.  The NodeSets are
\* listed again for slurm-configs; `gpu` is from the list at the start.
Render(o, v) ==
    Ensure(o, Desired(o, v, nodeSets, pass.gpu, IF o = "slurmdbd" THEN Passwords(v) ELSE {}),
           Dependencies(o, v))

\* Mutant: a key is generated in every pass.
RenewSecret(o) == Ensure(o, GeneratedSecret(objects[o].rv + 1), {})

\* A key: the Secret as it is, or a new one.
KeepSecret(o) ==
    Ensure(o, IF Seen(o).exists THEN Seen(o).body
              ELSE GeneratedSecret(objects[o].rv + 1), {})

\* Rendering fails, or panics, when a name is not found in the spec.
RenderWorkload(o, v, component) ==
    IF NodeFilterFound(v, component) /\ VolumeSourcesFound(v, component)
    THEN Render(o, v) ELSE Fail

ReconcileCommon(step, v) ==
    CASE step \in {"rest-jwt", "munge", "sshd-keys"} -> KeepSecret(step)
      [] step = "apparmor" -> IF v.apparmor THEN Render(step, v) ELSE Skip
      [] OTHER -> Render(step, v)

\* The Secret of slurmdbd needs the database's password.
SlurmdbdConfigs(v) ==
    IF ~v.accounting /\ ~v.NodeAccounting.mariaDb /\ ~v.NodeAccounting.externalDB
    THEN Skip
    ELSE IF \A s \in PasswordSecret(v) : Seen(s).exists
         THEN Render("slurmdbd", v) ELSE Fail

\* Creates the Secret of a protected database, and still returns the error of
\* not having found it.
MariaDbPassword(o, v) ==
    IF ~v.NodeAccounting.protectedSecret \/ Seen(o).exists
    THEN Skip ELSE CreateAndFail(o)

\* The database and the grant of slurmdbd's user.
MariaDbSteps(step, v) ==
    IF ~v.NodeAccounting.mariaDb \/ ~v.accounting THEN Delete(step)
    ELSE IF step = "grant" \/ NodeFilterFound(v, v.NodeAccounting) THEN Render(step, v)
    ELSE Fail

AccountingDeployment(step, v) ==
    IF v.accounting THEN RenderWorkload(step, v, v.NodeAccounting) ELSE Delete(step)

ReconcileAccounting(step, v) ==
    CASE step = "slurmdbd" -> SlurmdbdConfigs(v)
      [] step \in {"mariadb-password", "mariadb-root"} -> MariaDbPassword(step, v)
      [] step = "accounting-svc" -> IF v.accounting THEN Render(step, v) ELSE Delete(step)
      [] step \in {"grant", "mariadb"} -> MariaDbSteps(step, v)
      [] step = "accounting" -> AccountingDeployment(step, v)

ReconcileSConfigController(step, v) ==
    RenderWorkload(step, v, v.SConfigController)

ReconcileControllers(step, v) ==
    CASE step = "controller-sssd" ->
           IF v.NodeController.sssd THEN Render("sssd-conf", v) ELSE Skip
      [] step = "service-monitor" ->
           IF v.openMetrics THEN Render(step, v) ELSE Delete(step)
      [] step = "controller" -> RenderWorkload(step, v, v.NodeController)
      [] OTHER -> Render(step, v)

\* The configuration of sshd, root's public keys, the host keys and sssd.
LoginSSHSteps(step, v) ==
    CASE step = "sshd-login" ->
           IF v.NodeLogin.isSSHDConfigMapDefault THEN Render(step, v) ELSE Skip
      [] step = "ssh-root-keys" -> Render(step, v)
      [] step = "login-sshd-keys" -> KeepSecret("sshd-keys")
      [] step = "login-sssd" ->
           IF v.NodeLogin.sssd THEN Render("sssd-conf", v) ELSE Skip

\* The limits, the isolation of users, the services and the login nodes.
ReconcileLogin(step, v) ==
    CASE step \in {"sshd-login", "ssh-root-keys", "login-sshd-keys", "login-sssd"} ->
           LoginSSHSteps(step, v)
      [] step = "login" -> RenderWorkload(step, v, v.NodeLogin)
      [] OTHER -> Render(step, v)

\* What is there stays there when the REST API is switched off.
ReconcileREST(step, v) ==
    IF ~v.rest \/ ~v.accounting THEN Skip
    ELSE IF step = "rest" THEN RenderWorkload(step, v, v.NodeRest)
         ELSE Render(step, v)

ReconcileSoperatorExporter(step, v) ==
    IF v.SlurmExporter.enabled THEN Render(step, v) ELSE Delete(step)

----------------------------------------------------------------------------
(* The order of the steps.  The steps of a group all run; when one of them   *)
(* failed the pass ends with the group.                                      *)

CommonSteps == <<"rest-jwt", "slurm-configs", "jailed-config", "munge", "apparmor", "sysctl",
                 "sshd-keys">>
AccountingSteps == <<"slurmdbd", "mariadb-password", "mariadb-root", "accounting-svc", "grant",
                     "mariadb", "accounting">>
SConfigSteps == <<"sconfig">>
ControllerSteps == <<"controller-sssd", "controller-limits", "controller-svc", "service-monitor",
                     "controller">>
LoginSteps == <<"sshd-login", "ssh-root-keys", "login-sshd-keys", "login-sssd", "login-limits",
                "user-isolation", "login-svc", "login-headless", "login">>
RESTSteps == <<"rest-svc", "rest">>
ExporterSteps == <<"pod-monitor", "exporter">>

Groups == <<CommonSteps, AccountingSteps, SConfigSteps, ControllerSteps, LoginSteps, RESTSteps,
            ExporterSteps>>

ResourceSteps == CommonSteps \o AccountingSteps \o SConfigSteps \o ControllerSteps
                 \o LoginSteps \o RESTSteps \o ExporterSteps

GroupEnds == {Groups[g][Len(Groups[g])] : g \in DOMAIN Groups}

Values == BuildSlurmClusterFrom(pass.spec)

\* What the step does, from the values of the pass and the operator's cache.
StepOutcome(step, v) ==
    LET in(steps) == step \in Range(steps)
    IN CASE in(CommonSteps) -> ReconcileCommon(step, v)
         [] in(AccountingSteps) -> ReconcileAccounting(step, v)
         [] in(SConfigSteps) -> ReconcileSConfigController(step, v)
         [] in(ControllerSteps) -> ReconcileControllers(step, v)
         [] in(LoginSteps) -> ReconcileLogin(step, v)
         [] in(RESTSteps) -> ReconcileREST(step, v)
         [] OTHER -> ReconcileSoperatorExporter(step, v)

\* The object and the error a step leaves behind.
Performed(outcome) ==
    LET o == outcome.object
    IN CASE outcome.does = "ensure" ->
              IF \A d \in outcome.deps : Seen(d).exists
              THEN reconcile(o, outcome.body, setVersionsRecursive(outcome.deps))
              ELSE Refused(o)
         [] outcome.does = "delete" ->
              IF o \in Services \cup MariaDbs \cup Grants
              THEN deleteIfOwnedByController(o) ELSE Cleanup(o)
         [] outcome.does = "createAndFail" ->
              [EnsureDeployed(o, GeneratedSecret(objects[o].rv + 1), NoVersions)
               EXCEPT !.ok = FALSE]

StepAfter(step) ==
    LET i == CHOOSE j \in DOMAIN ResourceSteps : ResourceSteps[j] = step
    IN IF i = Len(ResourceSteps) THEN "validate-common" ELSE ResourceSteps[i + 1]

\* Where the pass goes after a step.  A pass that fails is queued again.
Continue(ok, event) ==
    LET failed == pass.failed \/ ~ok
        over   == pass.at \in GroupEnds /\ failed
    IN /\ pass' = IF over THEN Idle
                  ELSE [pass EXCEPT !.at = StepAfter(pass.at), !.failed = failed]
       /\ queued' = (queued \/ event \/ over)

\* A write reaches the API server; `lagging` says the operator's cache does
\* not show it yet, which makes the read that follows a creation fail.
Write(o, result, lagging) ==
    LET new     == result.object
        created == ~Seen(o).exists /\ new # objects[o] /\ new.exists
    IN /\ lagging => new # objects[o]
       /\ objects' = [objects EXCEPT ![o] = new]
       /\ stale' = IF lagging
                   THEN [x \in DOMAIN stale \cup {o} |-> IF x = o THEN Seen(o) ELSE stale[x]]
                   ELSE stale
       /\ Continue(result.ok /\ ~(lagging /\ created),
                   /\ o \notin DOMAIN stale'
                   /\ StartsAnotherPass(o, objects[o], new))

\* The partitions of slurm.conf and what is missing from them, for the user.
reportNodeSetRefs ==
    status' = [status EXCEPT !.refs =
                  [reported   |-> TRUE,
                   resolution |-> ResolveNodeSetRefs(Values, nodeSets),
                   message    |-> FormatIgnoredNodeSetRefs(
                                     ResolveNodeSetRefs(Values, nodeSets), MessageLimit)]]

\* A step that has nothing to do, or cannot.
StepWithoutWrite(outcome) ==
    /\ outcome.does \in {"nothing", "fail"}
    /\ Continue(outcome.does = "nothing", FALSE)
    /\ UNCHANGED <<resourceVars, status>>

\* One that writes.  The one that renders slurm-configs also reports.
WriteStep(outcome, lagging) ==
    /\ outcome.does \notin {"nothing", "fail"}
    /\ \E result \in {Performed(outcome)} :
         /\ Write(outcome.object, result, lagging)
         /\ IF pass.at = "slurm-configs" /\ result.ok
               /\ (lagging => Seen("slurm-configs").exists)
            THEN reportNodeSetRefs ELSE UNCHANGED status

ReconcileStep ==
    /\ pass.at \in Range(ResourceSteps)
    /\ \E v \in {Values} : \E outcome \in {StepOutcome(pass.at, v)} :
         StepWithoutWrite(outcome) \/ WriteStep(outcome, FALSE)

LaggingStep ==
    /\ pass.at \in Range(ResourceSteps)
    /\ WriteStep(StepOutcome(pass.at, Values), TRUE)

\* The API server does not take the request of a step.
StepFails ==
    /\ pass.at \in Range(ResourceSteps)
    /\ StepOutcome(pass.at, Values).does \notin {"nothing", "fail"}
    /\ Continue(FALSE, FALSE)
    /\ UNCHANGED <<resourceVars, status>>

\* slurm-configs is written, the patch of the status is not taken.
ReportFails ==
    LET outcome == StepOutcome(pass.at, Values)
    IN /\ pass.at = "slurm-configs" /\ Performed(outcome).ok
       /\ Write(outcome.object, [Performed(outcome) EXCEPT !.ok = FALSE], FALSE)
       /\ UNCHANGED status

\* The cache shows the current object, and with it the event of its change.
CatchUp(o) ==
    /\ o \in DOMAIN stale
    /\ stale' = Restrict(stale, DOMAIN stale \ {o})
    /\ queued' = (queued \/ StartsAnotherPass(o, stale[o], objects[o]))
    /\ UNCHANGED <<objects, status, pass>>
=============================================================================
