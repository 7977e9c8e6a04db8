---------------------------- MODULE ClusterStatus ----------------------------
(* The start and the end of a pass of the cluster controller: reading the    *)
(* cluster, and validating what runs to set the conditions and the phase of  *)
(* its status (clustercontroller/reconcile.go and the Validate functions).   *)
EXTENDS PopulateJail

Conditions == {"common", "controllers", "login", "accounting", "sconfig"}

NoRefs == [reported |-> FALSE, resolution |-> [ignored |-> {}, withoutNodes |-> {}],
           message |-> [size |-> 0, shown |-> 0, cut |-> FALSE]]

NoStatus == [phase |-> "unset", mode |-> "unset", refs |-> NoRefs,
             conditions |-> [c \in Conditions |-> "unset"]]

setUpStatus(s) ==
    [s EXCEPT !.phase = IF @ = "unset" THEN "Pending" ELSE @,
              !.conditions = [c \in Conditions |-> IF @[c] = "unset" THEN "Unknown" ELSE @[c]]]

\* A pass starts: the values are built from the spec, and nothing else is done
\* when they are not valid.
StartPass ==
    /\ pass = Idle /\ queued
    /\ status' = setUpStatus(status)
    /\ LET valid == Validate(BuildSlurmClusterFrom(spec))
       IN /\ pass' = IF ~valid THEN Idle
                     ELSE [at |-> IF IsModeSkipPopulateJail(spec.maintenance)
                                  THEN Head(ResourceSteps) ELSE "populate",
                           spec |-> spec, gpu |-> BuildClusterWithGPUFromNodeSets(nodeSets),
                           mode |-> status.mode, failed |-> FALSE, requeue |-> FALSE]
          /\ queued' = ~valid
    /\ UNCHANGED <<resourceVars, job>>

----------------------------------------------------------------------------
\* A condition is set, and validation goes on or stops until the next pass.
Report(condition, value, next) ==
    /\ status' = [status EXCEPT !.conditions[condition] = value]
    /\ pass' = IF value = "False" /\ next = "stop" THEN [pass EXCEPT !.at = "not-available"]
               ELSE [pass EXCEPT !.at = next]

Maintenance == IsMaintenanceActive(pass.spec.maintenance)

\* Nothing is said of a workload that is not found.
NotFound == /\ pass' = [pass EXCEPT !.at = "not-available"]
            /\ UNCHANGED status

Found(condition, available, next) ==
    Report(condition, IF available THEN "True" ELSE "False",
           IF available THEN next ELSE "stop")

ValidateCommon ==
    /\ pass.at = "validate-common"
    /\ Report("common", IF Maintenance THEN "False" ELSE "True", "validate-mode")

\* Plain downscaling is not among the modes the condition knows.
ValidatePopulateJailMode ==
    LET mode == pass.spec.maintenance
    IN /\ pass.at = "validate-mode"
       /\ status' = [status EXCEPT !.mode = IF mode = "downscale" THEN "Unknown" ELSE mode]
       /\ pass' = [pass EXCEPT !.at = "validate-controllers"]

\* Mutant: the replicas the workload asks for.
RequestedReplicas(o) == Seen(o).body.replicas

\* The replicas of a workload that are up.
AvailableReplicas(o) ==
    IF pods[o] = "ready" THEN Seen(o).body.replicas ELSE 0

ValidateControllers ==
    /\ pass.at = "validate-controllers"
    /\ IF Maintenance THEN Report("controllers", "False", "validate-login")
       ELSE IF ~Seen("controller").exists THEN NotFound
       ELSE Found("controllers", AvailableReplicas("controller") = Values.NodeController.replicas,
                  "validate-login")

ValidateLogin ==
    /\ pass.at = "validate-login"
    /\ IF Maintenance THEN Report("login", "False", "validate-accounting")
       ELSE IF ~Seen("login").exists THEN NotFound
       ELSE Found("login", AvailableReplicas("login") = Values.NodeLogin.replicas,
                  "validate-accounting")

\* The database must be ready even when it is not the operator's: the
\* conditions looked at are then those of no object.
DatabaseReady ==
    Values.NodeAccounting.mariaDb /\ pods["mariadb"] = "ready"

ValidateAccounting ==
    LET found(o) == Seen(o).exists
    IN /\ pass.at = "validate-accounting"
       /\ Maintenance \/ ~Values.accounting \/ found("accounting")
       /\ IF Maintenance \/ ~Values.accounting
          THEN Report("accounting", "False", "validate-sconfig")
          ELSE IF Values.NodeAccounting.mariaDb /\ ~(found("mariadb") /\ found("grant"))
          THEN /\ status' = [status EXCEPT !.conditions["accounting"] = "Unknown"]
               /\ pass' = [pass EXCEPT !.at = "not-available"]
          ELSE Found("accounting",
                     /\ DatabaseReady
                     /\ AvailableReplicas("accounting") # 0
                     /\ AvailableReplicas("accounting") = Seen("accounting").body.replicas,
                     "validate-sconfig")

\* The Deployment that is not found is read all the same: the pass panics.
ValidateAccountingPanics ==
    /\ pass.at = "validate-accounting"
    /\ ~Maintenance /\ Values.accounting /\ ~Seen("accounting").exists
    /\ pass' = Idle /\ queued' = TRUE
    /\ UNCHANGED <<resourceVars, status, job>>

ValidateSConfigController ==
    /\ pass.at = "validate-sconfig"
    /\ IF ~Seen("sconfig").exists THEN NotFound
       ELSE Found("sconfig", AvailableReplicas("sconfig") = Seen("sconfig").body.replicas,
                  "available")

Validation ==
    /\ \/ ValidateCommon \/ ValidatePopulateJailMode \/ ValidateControllers \/ ValidateLogin
       \/ ValidateAccounting \/ ValidateSConfigController
    /\ UNCHANGED <<resourceVars, queued, job>>

\* The phase, the last thing a pass writes.
Availability ==
    /\ pass.at \in {"available", "not-available"}
    /\ status' = [status EXCEPT !.phase = IF pass.at = "available" THEN "Available"
                                          ELSE "NotAvailable"]
    /\ queued' = (queued \/ pass.requeue \/ pass.at = "not-available")
    /\ pass' = Idle
    /\ UNCHANGED <<resourceVars, job>>

\* A patch of a condition is not taken: the pass ends with an error, after it
\* has set the phase.
ConditionFails ==
    /\ pass.at \in {"validate-common", "validate-mode", "validate-controllers", "validate-login",
                    "validate-accounting", "validate-sconfig"}
    /\ pass' = [pass EXCEPT !.at = "not-available"]
    /\ UNCHANGED <<resourceVars, status, queued, job>>

\* Neither is that of the phase.
PhaseFails ==
    /\ pass.at \in {"available", "not-available"}
    /\ pass' = Idle /\ queued' = TRUE
    /\ UNCHANGED <<resourceVars, status, job>>
=============================================================================
