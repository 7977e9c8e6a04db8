----------------------------- MODULE WorkerPods -----------------------------
(* The worker pods the NodeSet controller renders (internal/render/worker)   *)
(* from a NodeSet and its cluster, as templates of PodTemplates: which       *)
(* volumes they declare and mount, and the objects those come from.  The     *)
(* switches of a NodeSet are `gpu`, `sssd`, `docker` and `sshd`, the name of *)
(* the user's own ConfigMap for sshd, or "".                                 *)
EXTENDS PodTemplates

\* The NodeSet's values; names of objects are the user's or the default ones.
BuildSlurmNodeSetFrom(nodeSet, v) ==
    [gpu |-> nodeSet.gpu, sssd |-> nodeSet.sssd, docker |-> nodeSet.docker,
     AppArmorProfileUseDefault |-> v.apparmor,
     SSHDConfigMapDefault |-> nodeSet.sshd = "",
     SSHDConfigMapName |-> IF nodeSet.sshd = "" THEN "sshd-worker" ELSE nodeSet.sshd]

----------------------------------------------------------------------------
(* The objects the NodeSet controller makes itself, before the StatefulSet.  *)

RenderConfigMapSecurityLimitsForNodeSet == {"worker-limits"}

RenderDefaultConfigMapSupervisord == {"supervisord"}

RenderConfigMapSSHDConfigs(n) == IF n.SSHDConfigMapDefault THEN {"sshd-worker"} ELSE {}

WorkerSSSDSecret(n) == IF n.sssd THEN {"worker-sssd"} ELSE {}

OwnObjects(n) ==
    RenderConfigMapSecurityLimitsForNodeSet \cup RenderDefaultConfigMapSupervisord
      \cup RenderConfigMapSSHDConfigs(n) \cup WorkerSSSDSecret(n)

----------------------------------------------------------------------------
(* Volumes and mounts.                                                       *)

HostVolumes ==
    {"runtime", "boot", "host-log-journal", "soperator-outputs", "shared-memory"}

RenderVolumesNvidiaIMEX == {"imex-cli", "imex-cli-jail", "imex-config", "imex-config-jail"}

NvidiaVolumes(n) == IF n.gpu THEN {"nvidia"} \cup RenderVolumesNvidiaIMEX ELSE {}

renderVolumeSysctl == Volume("sysctl", {"sysctl"})

renderSupervisordConfigMap == Volume("supervisord", {"supervisord"})

renderVolumeWorkerSshdConfigs(n) == Volume("sshd-configs", {n.SSHDConfigMapName})

renderVolumesAndClaimTemplateSpecsForNodeSet(n) ==
    MungeVolumes
      \cup {Volume(name, {}) : name \in HostVolumes \cup NvidiaVolumes(n) \cup {"spool", "jail"}}
      \cup {RenderVolumeSecurityLimits("worker-limits"), RenderVolumeSshdKeys,
            RenderVolumeSshdRootKeys, RenderVolumeInMemory, RenderVolumeTmpDisk,
            renderVolumeSysctl, renderSupervisordConfigMap, renderVolumeWorkerSshdConfigs(n)}
      \cup (IF n.sssd THEN {Volume("sssd-socket", {}), Volume("sssd-conf", {"worker-sssd"})}
            ELSE {})

\* The ConfigMap with the labels of the Kubernetes nodes is optional.
TopologyVolume(v) == IF v.topology THEN {Volume("topology-node-labels", {})} ELSE {}

TopologyMount(v) == IF v.topology THEN {"topology-node-labels"} ELSE {}

RenderContainerWorkerInit(v) == {"jail", "munge-socket"} \cup TopologyMount(v)

renderContainerNodeSetSlurmd(n, v) ==
    HostVolumes
      \cup {"spool", "jail", "munge-socket", "limits", "sshd-keys", "root-keys", "in-memory",
            "tmp-disk", "sysctl", "supervisord", "sshd-configs"}
      \cup (IF n.sssd THEN {"sssd-socket", "sssd-conf"} ELSE {})
      \cup NvidiaVolumes(n) \cup TopologyMount(v)

renderContainerNodeSetDockerProxy(n) == IF n.docker THEN {"runtime"} ELSE {}

\* worker-init waits for slurmctld to answer.
RenderNodeSetStatefulSet(nodeSet, v) ==
    LET n == BuildSlurmNodeSetFrom(nodeSet, v)
    IN [Template(v, renderVolumesAndClaimTemplateSpecsForNodeSet(n) \cup TopologyVolume(v),
            RenderContainerMunge \cup RenderContainerWorkerInit(v)
              \cup (IF n.sssd THEN RenderContainerSSSD ELSE {})
              \cup renderContainerNodeSetSlurmd(n, v) \cup renderContainerNodeSetDockerProxy(n))
        EXCEPT !.profile = IF n.AppArmorProfileUseDefault THEN {"apparmor"} ELSE {},
               !.waits = {"controller"}]

\* Objects of others that must exist before the StatefulSet is deployed.
getWorkersStatefulSetDependencies(nodeSet, v) ==
    LET n == BuildSlurmNodeSetFrom(nodeSet, v)
    IN ({"munge", n.SSHDConfigMapName} \cup (IF v.accounting THEN {"slurmdbd"} ELSE {}))
         \ OwnObjects(n)

\* Objects of others a worker pod does not start without.
WorkerNeeds(nodeSet, v) ==
    Needs(RenderNodeSetStatefulSet(nodeSet, v)) \ OwnObjects(BuildSlurmNodeSetFrom(nodeSet, v))
=============================================================================
