--------------------------- MODULE ClusterValues ---------------------------
(* The values the cluster controller derives from the spec of a SlurmCluster *)
(* (internal/values) and the checks it makes before it touches anything.     *)
(*                                                                           *)
(* A spec is a record; its fields are the switches that decide which objects *)
(* exist, what they refer to and how many pods they ask for.  `text` stands  *)
(* for everything that is only copied into the objects (images, resources,   *)
(* free-form configuration).                                                 *)
EXTENDS Integers, Sequences, FiniteSets, Functions

Modes == {"none", "downscale", "downscaleAndDeletePopulateJail",
          "downscaleAndOverwritePopulateJail", "skipPopulateJail"}

IsMaintenanceActive(mode) == mode \notin {"none", "skipPopulateJail"}

IsModeDownscaleAndDeletePopulate(mode) ==
    mode = "downscaleAndDeletePopulateJail"

IsModeDownscaleAndOverwritePopulate(mode) ==
    mode = "downscaleAndOverwritePopulateJail"

IsModeSkipPopulateJail(mode) == mode = "skipPopulateJail"

----------------------------------------------------------------------------
buildSlurmControllerFrom(spec) ==
    [replicas |-> 1, filter |-> spec.filterOf.controller, sssd |-> spec.sssd,
     volumes |-> spec.controllerVolumes]

\* Without a database of its own or an external one accounting cannot work;
\* nothing checks that.
buildAccountingFrom(spec) ==
    [enabled |-> spec.accounting, replicas |-> 1,
     filter |-> spec.filterOf.accounting,
     mariaDb |-> spec.db \in {"mariadb", "protected"},
     protectedSecret |-> spec.db = "protected",
     externalDB |-> spec.db = "external",
     replication |-> spec.replication, volumes |-> {"jail"}]

buildRestFrom(spec) ==
    [enabled |-> spec.rest, replicas |-> 1, filter |-> spec.filterOf.rest,
     volumes |-> {"jail"}]

buildSConfigControllerFrom(spec) ==
    [replicas |-> 1, filter |-> spec.filterOf.sconfig, volumes |-> {"jail"}]

\* The name of the ConfigMap with sshd's configuration is the user's, or that
\* of the default one.
buildSlurmLoginFrom(spec) ==
    LET default == spec.sshdConfigMapRefName = ""
    IN [replicas |-> spec.loginSize, filter |-> spec.filterOf.login,
        isSSHDConfigMapDefault |-> default,
        sshdConfigMapName |-> IF default THEN "sshd-login"
                              ELSE spec.sshdConfigMapRefName,
        sssd |-> spec.sssd, userIsolation |-> spec.userIsolation,
        rootKeys |-> spec.rootKeys, serviceType |-> spec.serviceType,
        nodePort |-> spec.nodePort, subMounts |-> spec.loginSubMounts,
        volumes |-> spec.loginSubMounts \cup {"jail"}]

buildSlurmExporterFrom(spec) == [enabled |-> spec.exporter, replicas |-> 1]

buildSlurmPopulateJailFrom(spec) ==
    [overwrite |-> spec.overwrite, volumes |-> {"jail"},
     filter |-> spec.filterOf.populateJail]

BuildSlurmClusterFrom(spec) ==
    [maintenance |-> spec.maintenance, text |-> spec.text,
     configType |-> spec.configType, partitions |-> spec.partitions,
     rawConfig |-> spec.rawConfig, nodeFilters |-> spec.nodeFilters,
     volumeSources |-> spec.volumeSources, openMetrics |-> spec.openMetrics,
     apparmor |-> spec.apparmor, topology |-> spec.topology,
     accounting |-> spec.accounting, rest |-> spec.rest,
     NodeController |-> buildSlurmControllerFrom(spec),
     NodeAccounting |-> buildAccountingFrom(spec),
     NodeRest |-> buildRestFrom(spec),
     NodeLogin |-> buildSlurmLoginFrom(spec),
     SlurmExporter |-> buildSlurmExporterFrom(spec),
     SConfigController |-> buildSConfigControllerFrom(spec),
     PopulateJail |-> buildSlurmPopulateJailFrom(spec)]

----------------------------------------------------------------------------
(* Looking names up in the lists of the spec.                                *)

ValidateUniqueEntries(list) == IsInjective(list)

NodeFilterFound(v, component) == component.filter \in Range(v.nodeFilters)

VolumeSourcesFound(v, component) ==
    component.volumes \subseteq {s.name : s \in Range(v.volumeSources)}

ValidatePartitions(v) ==
    v.configType = "custom" =>
        \A i \in DOMAIN v.rawConfig : v.rawConfig[i] = "PartitionName"

\* Only the controller's node filter is looked up.
ValidateNodeFilters(v) ==
    ValidateUniqueEntries(v.nodeFilters) /\ NodeFilterFound(v, v.NodeController)

\* Of the login nodes' volumes only the mounts besides the jail are looked up,
\* and a list of volume sources with a name twice is only logged.
ValidateVolumeSources(v) ==
    /\ \A s \in Range(v.volumeSources) : Cardinality(s.sources) = 1
    /\ VolumeSourcesFound(v, v.NodeController)
    /\ v.NodeLogin.subMounts \subseteq {s.name : s \in Range(v.volumeSources)}

ValidateLoginService(login) ==
    /\ login.replicas > 0 => login.rootKeys
    /\ login.serviceType \in {"LoadBalancer", "NodePort"}
    /\ login.serviceType = "NodePort" =>
           login.nodePort # 0 /\ login.nodePort \in 30000..32768

Validate(v) ==
    /\ ValidatePartitions(v) /\ ValidateNodeFilters(v)
    /\ ValidateVolumeSources(v) /\ ValidateLoginService(v.NodeLogin)

\* Zero pods of every component while maintenance is active.
Replicas(v, component) ==
    IF IsMaintenanceActive(v.maintenance) THEN 0 ELSE component.replicas
=============================================================================
