------------------------- MODULE ReconcileResources -------------------------
(* How the operator brings one Kubernetes object to its rendered form        *)
(* (internal/controller/reconciler): create it when it is missing, replace   *)
(* it when the versions of the objects it depends on have changed, otherwise *)
(* patch the fields its kind's reconciler copies.                            *)
(*                                                                           *)
(* An object is its resource version, its body (a record of the fields that  *)
(* depend on the cluster's spec) and the versions annotation: the resource   *)
(* versions of its dependencies when it was last replaced.                   *)
EXTENDS Integers, FiniteSets

CONSTANTS ConfigMaps, Secrets, Services, JailedConfigs, AppArmorProfiles,
          MariaDbs, Grants, PodMonitors, ServiceMonitors,
          Deployments, AdvancedStatefulSets

VARIABLES
    objects,    \* name -> object, in the API server
    stale       \* the older copies the operator's cache still shows

resourceVars == <<objects, stale>>

Objects ==
    UNION {ConfigMaps, Secrets, Services, JailedConfigs, AppArmorProfiles,
           MariaDbs, Grants, PodMonitors, ServiceMonitors,
           Deployments, AdvancedStatefulSets}

NoVersions == [d \in {} |-> 0]

NoBody == [f \in {} |-> 0]

\* No object of that name; the resource version it had is never used again.
Missing(rv) ==
    [exists |-> FALSE, rv |-> rv, body |-> NoBody, versions |-> NoVersions]

Exists(o) == objects[o].exists

\* What a read of the operator returns.
Seen(o) == IF o \in DOMAIN stale THEN stale[o] ELSE objects[o]

----------------------------------------------------------------------------
(* The fields each kind's patch copies from the rendered object.             *)

PatchConfigMap == {"data"}

PatchSecret == {"data"}

PatchService == {"ports"}

PatchJailedConfig == {"items"}

PatchAppArmorProfile == {"policy"}

\* Replication, metrics and affinity are rendered, and not copied.
PatchMariaDb == {"replicas", "server", "generate"}

PatchGrant == {"privileges"}

PatchPodMonitor == {"endpoints"}

PatchServiceMonitor == {"endpoints"}

\* Mutant: a Deployment is only scaled.
PatchReplicasOnly == {"replicas"}

PatchDeployment == {"replicas", "template"}

PatchAdvancedStatefulSet == {"replicas", "template"}

PatchFields(o) ==
    CASE o \in ConfigMaps -> PatchConfigMap
      [] o \in Secrets -> PatchSecret
      [] o \in Services -> PatchService
      [] o \in JailedConfigs -> PatchJailedConfig
      [] o \in AppArmorProfiles -> PatchAppArmorProfile
      [] o \in MariaDbs -> PatchMariaDb
      [] o \in Grants -> PatchGrant
      [] o \in PodMonitors -> PatchPodMonitor
      [] o \in ServiceMonitors -> PatchServiceMonitor
      [] o \in Deployments -> PatchDeployment
      [] o \in AdvancedStatefulSets -> PatchAdvancedStatefulSet

----------------------------------------------------------------------------
generateDependencyVersionMap(deps) == [d \in deps |-> Seen(d).rv]

setVersionsRecursive(deps) ==
    IF deps = {} THEN NoVersions ELSE generateDependencyVersionMap(deps)

Written(object) == [ok |-> TRUE, object |-> object]

Refused(o) == [ok |-> FALSE, object |-> objects[o]]

\* The object was not found: it is created as rendered.
EnsureDeployed(o, desired, versions) ==
    IF Exists(o) THEN Refused(o)
    ELSE Written([exists |-> TRUE, rv |-> objects[o].rv + 1,
                  body |-> desired, versions |-> versions])

\* Mutant: only a new dependency replaces the object.
EnsureUpdatedOnNewDeps(o, desired, versions) ==
    LET now     == objects[o]
        copy    == Seen(o)
        replace == DOMAIN versions # DOMAIN copy.versions
        body    == IF replace THEN desired
                   ELSE [f \in DOMAIN desired |->
                           IF f \in PatchFields(o) /\ desired[f] # copy.body[f]
                           THEN desired[f] ELSE now.body[f]]
        new     == [now EXCEPT !.body = body,
                               !.versions = IF replace THEN versions ELSE @]
    IN IF ~now.exists \/ (replace /\ copy.rv # now.rv) THEN Refused(o)
       ELSE Written([new EXCEPT !.rv = IF new = now THEN @ ELSE @ + 1])

\* The object was found: replaced if its dependencies changed (an update, which
\* the API server refuses when the copy is old), otherwise patched with the
\* differences between the copy and the rendered object.  A request that
\* changes nothing leaves the resource version alone.
EnsureUpdated(o, desired, versions) ==
    LET now     == objects[o]
        copy    == Seen(o)
        replace == versions # copy.versions
        body    == IF replace THEN desired
                   ELSE [f \in DOMAIN desired |->
                           IF f \in PatchFields(o) /\ desired[f] # copy.body[f]
                           THEN desired[f] ELSE now.body[f]]
        new     == [now EXCEPT !.body = body,
                               !.versions = IF replace THEN versions ELSE @]
    IN IF ~now.exists \/ (replace /\ copy.rv # now.rv) THEN Refused(o)
       ELSE Written([new EXCEPT !.rv = IF new = now THEN @ ELSE @ + 1])

reconcile(o, desired, versions) ==
    IF Seen(o).exists
    THEN EnsureUpdated(o, desired, versions)
    ELSE EnsureDeployed(o, desired, versions)

\* Removes an object the cluster owns; a missing one is no error.
Cleanup(o) ==
    IF Seen(o).exists THEN Written(Missing(objects[o].rv)) ELSE Written(objects[o])

\* The older form of it fails when the object has gone since the cache saw it.
deleteIfOwnedByController(o) ==
    IF Seen(o).exists /\ ~Exists(o) THEN Refused(o) ELSE Cleanup(o)

\* The kinds whose updates carry a new generation, the only updates of owned
\* objects that start another pass.  Creations and deletions always do.
HasGeneration(o) ==
    o \notin (ConfigMaps \cup Secrets \cup Services)

StartsAnotherPass(o, old, new) ==
    \/ new.exists # old.exists
    \/ new.rv # old.rv /\ HasGeneration(o)
=============================================================================
