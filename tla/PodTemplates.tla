---------------------------- MODULE PodTemplates ----------------------------
(* The workloads the cluster controller renders (internal/render): how many  *)
(* pods, which volumes their template declares and which objects those come  *)
(* from, which volumes its containers mount, and what its init containers    *)
(* wait for.                                                                 *)
(*                                                                           *)
(* A template is a record: `volumes` is a set of pairs of a volume and the   *)
(* objects it shows (none for a volume source of the spec or an emptyDir),   *)
(* `mounts` the volumes its containers mount, `env` what its containers get  *)
(* in variables, `secrets` the Secrets variables are read from, `profile`    *)
(* the AppArmor profile it runs under, `waits` what its init containers wait *)
(* for.                                                                      *)
EXTENDS ClusterValues

Volume(name, objs) == [name |-> name, shows |-> objs]

FromSources(component) == {Volume(s, {}) : s \in component.volumes}

Template(v, volumes, mounts) ==
    [text |-> v.text, volumes |-> volumes, mounts |-> mounts,
     env |-> {}, secrets |-> {}, profile |-> {}, waits |-> {}]

Workload(replicas, template) == [replicas |-> replicas, template |-> template]

\* The objects without which a pod of the template does not start.
Needs(template) ==
    UNION {vol.shows : vol \in template.volumes}
        \cup template.secrets \cup template.profile

\* The API server rejects a template that mounts what it does not declare.
MountsDeclared(template) ==
    template.mounts \subseteq {vol.name : vol \in template.volumes}

----------------------------------------------------------------------------
(* Containers several workloads share: the volumes they mount.               *)

RenderContainerMunge == {"munge-key", "munge-socket"}

RenderContainerSSSD == {"sssd-conf", "sssd-socket"}

SSSDVolumes == {Volume("sssd-socket", {}), Volume("sssd-conf", {"sssd-conf"})}

MungeVolumes == {Volume("munge-key", {"munge"}), Volume("munge-socket", {})}

RenderVolumeSlurmConfigs == Volume("slurm-configs", {"slurm-configs"})

\* Both ConfigMap and Secret in one directory.
RenderVolumeProjectedSlurmConfigs == Volume("slurm-configs", {"slurm-configs", "slurmdbd"})

RenderVolumeSecurityLimits(limits) == Volume("limits", {limits})

RenderVolumeRESTJWTKey == Volume("rest-jwt", {"rest-jwt"})

RenderVolumeSshdRootKeys == Volume("root-keys", {"ssh-root-keys"})

RenderVolumeSshdKeys == Volume("sshd-keys", {"sshd-keys"})

RenderVolumeInMemory == Volume("in-memory", {})

RenderVolumeTmpDisk == Volume("tmp-disk", {})

----------------------------------------------------------------------------
(* slurmctld.                                                                *)

renderContainerSlurmctld(v) ==
    v.NodeController.volumes \cup {"munge-socket", "limits", "rest-jwt"}
      \cup (IF v.NodeController.sssd THEN {"sssd-socket", "sssd-conf"} ELSE {})

renderContainerAccountingWaiter == {"jail", "munge-socket"}

controllerVolumes(v) ==
    MungeVolumes \cup FromSources(v.NodeController)
      \cup {RenderVolumeSecurityLimits("controller-limits"), RenderVolumeRESTJWTKey}
      \cup (IF v.NodeController.sssd THEN SSSDVolumes ELSE {})

controllerStatefulSet(v) ==
    Workload(Replicas(v, v.NodeController),
        [Template(v, controllerVolumes(v),
            renderContainerSlurmctld(v) \cup RenderContainerMunge
              \cup (IF v.NodeController.sssd THEN RenderContainerSSSD ELSE {})
              \cup (IF v.accounting THEN renderContainerAccountingWaiter ELSE {}))
         EXCEPT !.waits = IF v.accounting THEN {"accounting"} ELSE {}])

----------------------------------------------------------------------------
(* The login nodes' sshd.                                                    *)

renderContainerSshd(v) ==
    v.NodeLogin.volumes
      \cup {"munge-socket", "limits", "sshd-keys", "root-keys", "in-memory",
            "tmp-disk", "sshd-configs"}
      \cup (IF v.NodeLogin.userIsolation THEN {"user-isolation"} ELSE {})
      \cup (IF v.NodeLogin.sssd THEN {"sssd-socket", "sssd-conf"} ELSE {})

renderVolumeSshdConfigs(v) == Volume("sshd-configs", {v.NodeLogin.sshdConfigMapName})

renderVolumeUserIsolation == Volume("user-isolation", {"user-isolation"})

loginVolumes(v) ==
    MungeVolumes \cup FromSources(v.NodeLogin)
      \cup {RenderVolumeSecurityLimits("login-limits"), RenderVolumeSshdKeys,
            RenderVolumeSshdRootKeys, RenderVolumeInMemory, RenderVolumeTmpDisk,
            renderVolumeSshdConfigs(v)}
      \cup (IF v.NodeLogin.userIsolation THEN {renderVolumeUserIsolation} ELSE {})
      \cup (IF v.NodeLogin.sssd THEN SSSDVolumes ELSE {})

\* `gpu` was computed when the pass listed the NodeSets.
loginStatefulSet(v, gpu) ==
    Workload(Replicas(v, v.NodeLogin),
        [Template(v, loginVolumes(v),
            renderContainerSshd(v) \cup RenderContainerMunge
              \cup (IF v.NodeLogin.sssd THEN RenderContainerSSSD ELSE {}))
         EXCEPT !.env = {<<"SLURM_CLUSTER_WITH_GPU", gpu>>},
                !.profile = IF v.apparmor THEN {"apparmor"} ELSE {}])

----------------------------------------------------------------------------
(* slurmdbd.                                                                 *)

renderContainerAccounting ==
    {"slurm-configs", "rest-jwt", "munge-socket", "slurmdbd-spool"}

\* It waits for the database with the credentials of slurmdbd's Secret.
renderContainerDbwaiter == {"slurmdbd"}

RenderVolumeSlurmdbdSpool == Volume("slurmdbd-spool", {})

accountingVolumes(v) ==
    MungeVolumes \cup FromSources(v.NodeAccounting)
      \cup {RenderVolumeProjectedSlurmConfigs, RenderVolumeRESTJWTKey, RenderVolumeSlurmdbdSpool}

accountingPod(v) ==
    [Template(v, accountingVolumes(v), renderContainerAccounting \cup RenderContainerMunge)
     EXCEPT !.secrets = renderContainerDbwaiter,
            !.waits = IF v.NodeAccounting.mariaDb THEN {"mariadb"} ELSE {}]

accountingDeployment(v) == Workload(Replicas(v, v.NodeAccounting), accountingPod(v))

----------------------------------------------------------------------------
(* slurmrestd, the sconfigcontroller and the exporter.                       *)

renderContainerREST == {"slurm-configs", "jail"}

restPod(v) ==
    Template(v, FromSources(v.NodeRest) \cup {RenderVolumeSlurmConfigs}, renderContainerREST)

restDeployment(v) == Workload(Replicas(v, v.NodeRest), restPod(v))

renderContainerSConfigController == {"jail"}

\* The init container waits for the jail to be populated.
renderInitContainerWait == {"jail"}

sconfigPod(v) ==
    [Template(v, FromSources(v.SConfigController), renderContainerSConfigController)
     EXCEPT !.waits = renderInitContainerWait]

sconfigDeployment(v) == Workload(Replicas(v, v.SConfigController), sconfigPod(v))

exporterPod(v) == Template(v, {}, {})

exporterDeployment(v) == Workload(Replicas(v, v.SlurmExporter), exporterPod(v))
=============================================================================
