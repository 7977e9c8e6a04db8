--------------------------- MODULE SlurmClusterProofs ---------------------------
(***************************************************************************)
(* The cluster controller never replaces a key or password by another one, *)
(* for any spec, any changes users make and any number of faults.          *)
(***************************************************************************)
EXTENDS SlurmCluster, SequenceTheorems, TLAPS

KeyObjects == Keys \cup DatabaseSecrets

\* What a key or password looks like, in the API server and in the cache: it
\* holds data only, and it depends on nothing.
KeyShape(x) ==
    /\ x.exists \in BOOLEAN
    /\ x = [exists |-> x.exists, rv |-> x.rv, body |-> x.body, versions |-> NoVersions]
    /\ x.exists => x.body = [data |-> x.body.data]

ObjectsInv ==
    /\ DOMAIN objects = Objects
    /\ \A o \in KeyObjects : KeyShape(objects[o])
    /\ \A o \in KeyObjects \cap DOMAIN stale : KeyShape(stale[o])

PlanInv == \E s \in Scenarios : plan \in Seq(Range(s.plan))

KeyInv == ObjectsInv /\ PlanInv

\* KeysSurvive, of one step.
KeysKept ==
    \A o \in KeyObjects :
        Exists(o) /\ objects'[o].exists => objects'[o].body = objects[o].body

LEMMA KeysAreObjects == KeyObjects \subseteq Objects
  BY SecretsAssumption DEF KeyObjects, Objects

LEMMA SeenKeys ==
    ASSUME ObjectsInv, NEW o \in KeyObjects
    PROVE  KeyShape(Seen(o)) /\ KeyShape(objects[o])
  BY Zenon DEF ObjectsInv, Seen

-----------------------------------------------------------------------------
(* What the steps of a pass do to keys.                                    *)

\* What a step may write over an object without changing a key.
KeepsKey(o, new) == KeyShape(new) /\ (Exists(o) => new = objects[o])

LEMMA NewKey ==
    ASSUME NEW rv, NEW serial
    PROVE  KeyShape([exists |-> TRUE, rv |-> rv, body |-> GeneratedSecret(serial),
                     versions |-> NoVersions])
  BY DEF KeyShape, GeneratedSecret

LEMMA DeployKeeps ==
    ASSUME ObjectsInv, NEW o \in KeyObjects, NEW serial
    PROVE  KeepsKey(o, EnsureDeployed(o, GeneratedSecret(serial), NoVersions).object)
<1>1. CASE Exists(o)
  <2>1. EnsureDeployed(o, GeneratedSecret(serial), NoVersions).object = objects[o]
    BY <1>1 DEF EnsureDeployed, Refused
  <2> QED
    BY <2>1, SeenKeys, Zenon DEF KeepsKey
<1>2. CASE ~Exists(o)
  <2> DEFINE new == [exists |-> TRUE, rv |-> objects[o].rv + 1,
                     body |-> GeneratedSecret(serial), versions |-> NoVersions]
  <2>1. EnsureDeployed(o, GeneratedSecret(serial), NoVersions).object = new
    BY <1>2 DEF EnsureDeployed, Written
  <2>2. KeyShape(new)
    BY NewKey
  <2> HIDE DEF new
  <2> QED
    BY <1>2, <2>1, <2>2, Zenon DEF KeepsKey
<1> QED
  BY <1>1, <1>2

\* A patch with the body the cache shows changes nothing.
LEMMA UpdateKeeps ==
    ASSUME ObjectsInv, NEW o \in KeyObjects, Seen(o).exists
    PROVE  EnsureUpdated(o, Seen(o).body, NoVersions).object = objects[o]
<1> DEFINE now == objects[o]
           copy == Seen(o)
           desired == copy.body
           replace == NoVersions # copy.versions
           body == IF replace THEN desired
                   ELSE [f \in DOMAIN desired |->
                           IF f \in PatchFields(o) /\ desired[f] # copy.body[f]
                           THEN desired[f] ELSE now.body[f]]
           new == [now EXCEPT !.body = body,
                              !.versions = IF replace THEN NoVersions ELSE @]
<1>1. KeyShape(copy) /\ KeyShape(now)
  BY SeenKeys
<1>2. EnsureUpdated(o, desired, NoVersions) =
          IF ~now.exists \/ (replace /\ copy.rv # now.rv) THEN Refused(o)
          ELSE Written([new EXCEPT !.rv = IF new = now THEN @ ELSE @ + 1])
  BY Zenon DEF EnsureUpdated
<1>3. ~replace
  BY <1>1 DEF KeyShape
<1>4. CASE ~now.exists
  <2>1. EnsureUpdated(o, desired, NoVersions) = Refused(o)
    BY <1>2, <1>4
  <2> QED
    BY <2>1 DEF Refused
<1>5. CASE now.exists
  <2>1. copy.body = [data |-> copy.body.data] /\ now.body = [data |-> now.body.data]
    BY <1>1, <1>5 DEF KeyShape
  <2>2. body = now.body
    BY <1>3, <2>1
  <2> HIDE DEF body, replace
  <2>3. new = now
    BY <1>1, <1>3, <2>2, ZenonT(40) DEF KeyShape
  <2> HIDE DEF new
  <2>4. EnsureUpdated(o, desired, NoVersions) = Written([now EXCEPT !.rv = @])
    BY <1>2, <1>3, <1>5, <2>3
  <2> QED
    BY <1>1, <2>4 DEF Written, KeyShape
<1> QED
  BY <1>4, <1>5

LEMMA KeepSecretKeeps ==
    ASSUME ObjectsInv, NEW o \in KeyObjects
    PROVE  KeepSecret(o).object = o /\ KeepsKey(o, Performed(KeepSecret(o)).object)
<1>1. setVersionsRecursive({}) = NoVersions
  BY DEF setVersionsRecursive
<1>2. CASE Seen(o).exists
  <2>1. KeepSecret(o) = Ensure(o, Seen(o).body, {})
    BY <1>2 DEF KeepSecret
  <2>2. Performed(KeepSecret(o)) = EnsureUpdated(o, Seen(o).body, NoVersions)
    BY <1>1, <1>2, <2>1 DEF Performed, Ensure, reconcile
  <2> QED
    BY <1>2, <2>1, <2>2, UpdateKeeps, SeenKeys, SMTT(30) DEF KeepsKey, Ensure
<1>3. CASE ~Seen(o).exists
  <2> DEFINE serial == objects[o].rv + 1
  <2>1. KeepSecret(o) = Ensure(o, GeneratedSecret(serial), {})
    BY <1>3 DEF KeepSecret
  <2>2. Performed(KeepSecret(o)) = EnsureDeployed(o, GeneratedSecret(serial), NoVersions)
    BY <1>1, <1>3, <2>1 DEF Performed, Ensure, reconcile
  <2> HIDE DEF serial
  <2> QED
    BY <2>1, <2>2, DeployKeeps DEF Ensure
<1> QED
  BY <1>2, <1>3

LEMMA CreateKeeps ==
    ASSUME ObjectsInv, NEW o \in KeyObjects
    PROVE  CreateAndFail(o).object = o /\ KeepsKey(o, Performed(CreateAndFail(o)).object)
<1> DEFINE serial == objects[o].rv + 1
           deployed == EnsureDeployed(o, GeneratedSecret(serial), NoVersions)
<1>1. Performed(CreateAndFail(o)) = [deployed EXCEPT !.ok = FALSE]
  BY DEF Performed, CreateAndFail
<1>2. [deployed EXCEPT !.ok = FALSE].object = deployed.object
  BY DEF EnsureDeployed, Written, Refused
<1> HIDE DEF serial
<1>3. KeepsKey(o, deployed.object)
  BY DeployKeeps
<1> QED
  BY <1>1, <1>2, <1>3, Zenon DEF CreateAndFail

-----------------------------------------------------------------------------
(* Which steps write keys.                                                 *)

\* A step does nothing, or fails, or writes another object, or keeps a key.
Harmless(outcome) ==
    \/ outcome.does \in {"nothing", "fail"}
    \/ outcome.object \notin KeyObjects
    \/ \E o \in KeyObjects : outcome = KeepSecret(o) \/ outcome = CreateAndFail(o)

LEMMA OtherOutcomes ==
    /\ Harmless(Skip) /\ Harmless(Fail)
    /\ \A o, v : o \notin KeyObjects => Harmless(Render(o, v)) /\ Harmless(Delete(o))
    /\ \A o \in KeyObjects : Harmless(KeepSecret(o)) /\ Harmless(CreateAndFail(o))
<1>1. Harmless(Skip) /\ Harmless(Fail)
  BY DEF Harmless, Skip, Fail
<1>2. ASSUME NEW o, NEW v, o \notin KeyObjects
      PROVE  Harmless(Render(o, v)) /\ Harmless(Delete(o))
  BY <1>2 DEF Harmless, Render, Ensure, Delete
<1>3. ASSUME NEW o \in KeyObjects PROVE Harmless(KeepSecret(o)) /\ Harmless(CreateAndFail(o))
  BY Zenon DEF Harmless
<1> QED
  BY <1>1, <1>2, <1>3, Zenon

LEMMA WorkloadOutcomes ==
    ASSUME NEW o, NEW v, NEW component, o \notin KeyObjects
    PROVE  Harmless(RenderWorkload(o, v, component))
  BY OtherOutcomes, Zenon DEF RenderWorkload

\* The names of the steps, group by group.
LEMMA StepNames ==
    /\ Range(CommonSteps) = {"rest-jwt", "slurm-configs", "jailed-config", "munge", "apparmor",
                             "sysctl", "sshd-keys"}
    /\ Range(AccountingSteps) = {"slurmdbd", "mariadb-password", "mariadb-root",
                                 "accounting-svc", "grant", "mariadb", "accounting"}
    /\ Range(SConfigSteps) = {"sconfig"}
    /\ Range(ControllerSteps) = {"controller-sssd", "controller-limits", "controller-svc",
                                 "service-monitor", "controller"}
    /\ Range(LoginSteps) = {"sshd-login", "ssh-root-keys", "login-sshd-keys", "login-sssd",
                            "login-limits", "user-isolation", "login-svc", "login-headless",
                            "login"}
    /\ Range(RESTSteps) = {"rest-svc", "rest"}
  BY DEF Range, CommonSteps, AccountingSteps, SConfigSteps, ControllerSteps, LoginSteps, RESTSteps

LEMMA CommonOutcomes ==
    ASSUME NEW v, NEW step \in Range(CommonSteps)
    PROVE  Harmless(ReconcileCommon(step, v))
<1>1. CASE step \in {"rest-jwt", "munge", "sshd-keys"}
  <2>1. ReconcileCommon(step, v) = KeepSecret(step) /\ step \in KeyObjects
    BY <1>1 DEF ReconcileCommon, KeyObjects, Keys
  <2> QED
    BY <2>1, OtherOutcomes, Zenon
<1>2. CASE step \notin {"rest-jwt", "munge", "sshd-keys"}
  <2>1. step \notin KeyObjects
    BY <1>2, StepNames DEF KeyObjects, Keys, DatabaseSecrets
  <2>2. ReconcileCommon(step, v) = Render(step, v) \/ ReconcileCommon(step, v) = Skip
    BY <1>2 DEF ReconcileCommon
  <2> QED
    BY <2>1, <2>2, OtherOutcomes, ZenonT(40)
<1> QED
  BY <1>1, <1>2

LEMMA AccountingOutcomes ==
    ASSUME NEW v, NEW step \in Range(AccountingSteps)
    PROVE  Harmless(ReconcileAccounting(step, v))
<1>1. CASE step \in {"mariadb-password", "mariadb-root"}
  <2>1. /\ step \in KeyObjects
        /\ ReconcileAccounting(step, v) = Skip \/ ReconcileAccounting(step, v) = CreateAndFail(step)
    BY <1>1 DEF ReconcileAccounting, MariaDbPassword, KeyObjects, DatabaseSecrets
  <2> QED
    BY <2>1, OtherOutcomes, Zenon
<1>2. CASE step \in {"slurmdbd", "accounting-svc", "grant", "mariadb", "accounting"}
  <2>1. step \notin KeyObjects
    BY <1>2 DEF KeyObjects, Keys, DatabaseSecrets
  <2>2. \/ ReconcileAccounting(step, v) \in {Skip, Fail, Render(step, v), Delete(step)}
        \/ ReconcileAccounting(step, v) = RenderWorkload(step, v, v.NodeAccounting)
    BY <1>2 DEF ReconcileAccounting, SlurmdbdConfigs, MariaDbSteps, AccountingDeployment
  <2> QED
    BY <2>1, <2>2, OtherOutcomes, WorkloadOutcomes, ZenonT(40)
<1> QED
  BY <1>1, <1>2, StepNames

LEMMA ControllerOutcomes ==
    ASSUME NEW v, NEW step \in Range(ControllerSteps)
    PROVE  Harmless(ReconcileControllers(step, v))
<1>1. step \notin KeyObjects /\ "sssd-conf" \notin KeyObjects
  BY StepNames DEF KeyObjects, Keys, DatabaseSecrets
<1>2. \/ ReconcileControllers(step, v) \in {Skip, Render("sssd-conf", v), Render(step, v), Delete(step)}
      \/ ReconcileControllers(step, v) = RenderWorkload(step, v, v.NodeController)
  BY DEF ReconcileControllers
<1> QED
  BY <1>1, <1>2, OtherOutcomes, WorkloadOutcomes, ZenonT(40)

LEMMA LoginOutcomes ==
    ASSUME NEW v, NEW step \in Range(LoginSteps)
    PROVE  Harmless(ReconcileLogin(step, v))
<1>1. /\ step \notin KeyObjects /\ "sssd-conf" \notin KeyObjects
      /\ "sshd-keys" \in KeyObjects
  BY StepNames DEF KeyObjects, Keys, DatabaseSecrets
<1>2. CASE step \in {"sshd-login", "ssh-root-keys", "login-sshd-keys", "login-sssd"}
  <2>1. ReconcileLogin(step, v) \in
           {Skip, Render("sssd-conf", v), Render(step, v), KeepSecret("sshd-keys")}
    BY <1>2 DEF ReconcileLogin, LoginSSHSteps
  <2> QED
    BY <1>1, <2>1, OtherOutcomes, Zenon
<1>3. CASE step \notin {"sshd-login", "ssh-root-keys", "login-sshd-keys", "login-sssd"}
  <2>1. \/ ReconcileLogin(step, v) = Render(step, v)
        \/ ReconcileLogin(step, v) = RenderWorkload(step, v, v.NodeLogin)
    BY <1>3 DEF ReconcileLogin
  <2> QED
    BY <1>1, <2>1, OtherOutcomes, WorkloadOutcomes, ZenonT(40)
<1> QED
  BY <1>2, <1>3

LEMMA RESTOutcomes ==
    ASSUME NEW v, NEW step \in Range(RESTSteps)
    PROVE  Harmless(ReconcileREST(step, v))
<1>1. step \notin KeyObjects
  BY StepNames DEF KeyObjects, Keys, DatabaseSecrets
<1> QED
  BY <1>1, OtherOutcomes, WorkloadOutcomes, ZenonT(40) DEF ReconcileREST

LEMMA Outcomes ==
    ASSUME NEW step, NEW v
    PROVE  Harmless(StepOutcome(step, v))
<1> DEFINE others == UNION {Range(CommonSteps), Range(AccountingSteps), Range(SConfigSteps),
                            Range(ControllerSteps), Range(LoginSteps), Range(RESTSteps)}
<1>1. CASE step \in Range(CommonSteps)
  <2>1. StepOutcome(step, v) = ReconcileCommon(step, v)
    BY <1>1, StepNames, SMTT(30) DEF StepOutcome
  <2> QED
    BY <1>1, <2>1, CommonOutcomes, ZenonT(40)
<1>2. CASE step \in Range(AccountingSteps)
  <2>1. StepOutcome(step, v) = ReconcileAccounting(step, v)
    BY <1>2, StepNames DEF StepOutcome
  <2> QED
    BY <1>2, <2>1, AccountingOutcomes, Zenon
<1>3. CASE step \in Range(SConfigSteps)
  <2>1. /\ StepOutcome(step, v) = RenderWorkload(step, v, v.SConfigController)
        /\ step \notin KeyObjects
    BY <1>3, StepNames, SMTT(30) DEF StepOutcome, ReconcileSConfigController, KeyObjects, Keys,
                          DatabaseSecrets
  <2> QED
    BY <2>1, WorkloadOutcomes, Zenon
<1>4. CASE step \in Range(ControllerSteps)
  <2>1. StepOutcome(step, v) = ReconcileControllers(step, v)
    BY <1>4, StepNames, SMTT(30) DEF StepOutcome
  <2> QED
    BY <1>4, <2>1, ControllerOutcomes, Zenon
<1>5. CASE step \in Range(LoginSteps)
  <2>1. StepOutcome(step, v) = ReconcileLogin(step, v)
    BY <1>5, StepNames, SMTT(30) DEF StepOutcome
  <2> QED
    BY <1>5, <2>1, LoginOutcomes, Zenon
<1>6. CASE step \in Range(RESTSteps)
  <2>1. StepOutcome(step, v) = ReconcileREST(step, v)
    BY <1>6, StepNames DEF StepOutcome
  <2> QED
    BY <1>6, <2>1, RESTOutcomes, Zenon
<1>7. CASE step \notin others
  <2>1. StepOutcome(step, v) = Render(step, v) \/ StepOutcome(step, v) = Delete(step)
    BY <1>7 DEF StepOutcome, ReconcileSoperatorExporter
  <2>2. step \notin KeyObjects
    BY <1>7, StepNames DEF KeyObjects, Keys, DatabaseSecrets
  <2> QED
    BY <2>1, <2>2, OtherOutcomes, ZenonT(40)
<1> QED
  BY <1>1, <1>2, <1>3, <1>4, <1>5, <1>6, <1>7, SMTT(30)

-----------------------------------------------------------------------------
(* Every step.                                                             *)

LEMMA WriteKeeps ==
    ASSUME ObjectsInv, NEW o, NEW result, NEW lagging \in BOOLEAN, Write(o, result, lagging),
           o \in KeyObjects => KeepsKey(o, result.object)
    PROVE  ObjectsInv' /\ KeysKept
<1>1. /\ objects' = [objects EXCEPT ![o] = result.object]
      /\ stale' = IF lagging
                  THEN [x \in DOMAIN stale \cup {o} |-> IF x = o THEN Seen(o) ELSE stale[x]]
                  ELSE stale
  BY DEF Write
<1>2. DOMAIN objects' = Objects
  BY <1>1 DEF ObjectsInv
<1>3. ASSUME NEW k \in KeyObjects
      PROVE  objects'[k] = objects[k] \/ (k = o /\ objects'[k] = result.object)
  BY <1>1, KeysAreObjects DEF ObjectsInv
<1>4. ASSUME NEW k \in KeyObjects PROVE KeepsKey(k, objects'[k])
  <2>1. KeepsKey(k, objects[k])
    BY Zenon DEF ObjectsInv, KeepsKey
  <2> QED
    BY <1>3, <2>1, Zenon
<1>5. ASSUME NEW k \in KeyObjects \cap DOMAIN stale' PROVE KeyShape(stale'[k])
  <2>1. stale'[k] = Seen(k) \/ (k \in DOMAIN stale /\ stale'[k] = stale[k])
    BY <1>1
  <2> QED
    BY <2>1, SeenKeys, Zenon DEF ObjectsInv
<1>6. ObjectsInv'
  BY <1>2, <1>4, <1>5, Zenon DEF ObjectsInv, KeepsKey
<1>7. KeysKept
  BY <1>4, Zenon DEF KeysKept, KeepsKey
<1> QED
  BY <1>6, <1>7

LEMMA PerformedKeeps ==
    ASSUME ObjectsInv, NEW outcome, Harmless(outcome), outcome.does \notin {"nothing", "fail"},
           outcome.object \in KeyObjects
    PROVE  KeepsKey(outcome.object, Performed(outcome).object)
<1>1. PICK o \in KeyObjects : outcome = KeepSecret(o) \/ outcome = CreateAndFail(o)
  BY Zenon DEF Harmless
<1> QED
  BY <1>1, KeepSecretKeeps, CreateKeeps, Zenon

LEMMA SameObjects ==
    ASSUME ObjectsInv, objects' = objects,
           \/ stale' = stale \/ stale' = NoVersions
           \/ \E o : stale' = Restrict(stale, DOMAIN stale \ {o})
    PROVE  ObjectsInv' /\ KeysKept
<1>1. \A k \in DOMAIN stale' : k \in DOMAIN stale /\ stale'[k] = stale[k]
  BY Zenon DEF NoVersions, Restrict
<1>2. KeysKept
  BY Zenon DEF KeysKept
<1> QED
  BY <1>1, <1>2, Zenon DEF ObjectsInv

LEMMA WriteStepKeeps ==
    ASSUME ObjectsInv, NEW outcome, Harmless(outcome), NEW lagging \in BOOLEAN,
           WriteStep(outcome, lagging)
    PROVE  ObjectsInv' /\ KeysKept
<1>1. /\ outcome.does \notin {"nothing", "fail"}
      /\ Write(outcome.object, Performed(outcome), lagging)
  BY Zenon DEF WriteStep
<1> QED
  BY <1>1, PerformedKeeps, WriteKeeps, Zenon

LEMMA StepKeeps ==
    ASSUME ObjectsInv,
           \/ ReconcileStep \/ LaggingStep \/ StepFails \/ ReportFails
           \/ \E o \in Objects : CatchUp(o)
    PROVE  ObjectsInv' /\ KeysKept
<1>1. CASE ReconcileStep
  <2>1. PICK outcome : /\ Harmless(outcome)
                       /\ StepWithoutWrite(outcome) \/ WriteStep(outcome, FALSE)
    BY <1>1, Outcomes, Zenon DEF ReconcileStep
  <2>2. CASE StepWithoutWrite(outcome)
    BY <2>2, SameObjects, Zenon DEF StepWithoutWrite, resourceVars
  <2> QED
    BY <2>1, <2>2, WriteStepKeeps, Zenon
<1>2. CASE LaggingStep
  BY <1>2, Outcomes, WriteStepKeeps, Zenon DEF LaggingStep
<1>3. CASE StepFails
  BY <1>3, SameObjects, Zenon DEF StepFails, resourceVars
<1>4. CASE ReportFails
  <2> DEFINE outcome == StepOutcome(pass.at, Values)
             result == [Performed(outcome) EXCEPT !.ok = FALSE]
  <2>1. pass.at = "slurm-configs" /\ Write(outcome.object, result, FALSE)
    BY <1>4, Zenon DEF ReportFails
  <2>2. outcome = Render("slurm-configs", Values)
    BY <2>1, StepNames DEF StepOutcome, ReconcileCommon
  <2>3. outcome.object \notin KeyObjects
    BY <2>2 DEF Render, Ensure, KeyObjects, Keys, DatabaseSecrets
  <2> HIDE DEF outcome, result
  <2> QED
    BY <2>1, <2>3, WriteKeeps, Zenon
<1>5. ASSUME NEW o, CatchUp(o) PROVE ObjectsInv' /\ KeysKept
  BY <1>5, SameObjects, Zenon DEF CatchUp
<1> QED
  BY <1>1, <1>2, <1>3, <1>4, <1>5, ZenonT(40)

LEMMA UsersKeep ==
    ASSUME KeyInv, Users
    PROVE  KeyInv' /\ KeysKept
<1>1. PICK s \in Scenarios : plan \in Seq(Range(s.plan))
  BY Zenon DEF KeyInv, PlanInv
<1>2. plan # <<>> /\ plan' = Tail(plan) /\ stale' = stale
  BY Zenon DEF Users
<1>3. Head(plan) \in Range(s.plan) /\ plan' \in Seq(Range(s.plan))
  BY <1>1, <1>2, HeadTailProperties, Zenon
<1>4. PlanInv'
  BY <1>3, Zenon DEF PlanInv
<1>5. Head(plan).do = "edit" => Head(plan).object \notin KeyObjects
  <2>1. Head(plan).do = "edit" => Head(plan).object \in UserObjects
    BY <1>3, ScenariosAssumption, Zenon
  <2> QED
    BY <2>1 DEF UserObjects, KeyObjects, Keys, DatabaseSecrets
<1>6. ASSUME NEW o, objects' = [objects EXCEPT ![o] = Missing(@.rv)]
      PROVE  ObjectsInv' /\ KeysKept
  <2>1. \A k \in KeyObjects : \/ objects'[k] = objects[k]
                               \/ objects'[k] = Missing(objects[k].rv)
    BY <1>6, KeysAreObjects DEF KeyInv, ObjectsInv
  <2>2. \A rv : KeyShape(Missing(rv)) /\ ~Missing(rv).exists
    BY DEF KeyShape, Missing
  <2>3. DOMAIN objects' = Objects
    BY <1>6 DEF KeyInv, ObjectsInv
  <2>4. KeysKept
    BY <2>1, <2>2, Zenon DEF KeysKept
  <2> QED
    BY <1>2, <2>1, <2>2, <2>3, <2>4, ZenonT(40) DEF KeyInv, ObjectsInv
<1>7. ASSUME NEW o, NEW new, o \notin KeyObjects, objects' = [objects EXCEPT ![o] = new]
      PROVE  ObjectsInv' /\ KeysKept
  <2>1. \A k \in KeyObjects : objects'[k] = objects[k]
    BY <1>7, KeysAreObjects DEF KeyInv, ObjectsInv
  <2>2. DOMAIN objects' = Objects
    BY <1>7 DEF KeyInv, ObjectsInv
  <2>3. KeysKept
    BY <2>1, Zenon DEF KeysKept
  <2> QED
    BY <1>2, <2>1, <2>2, <2>3, ZenonT(40) DEF KeyInv, ObjectsInv
<1>8. CASE objects' = objects
  BY <1>2, <1>4, <1>8, SameObjects, ZenonT(40) DEF KeyInv
<1>9. \/ objects' = objects
      \/ objects' = [objects EXCEPT ![Head(plan).object] = Missing(@.rv)]
      \/ /\ Head(plan).do = "edit"
         /\ \E new : objects' = [objects EXCEPT ![Head(plan).object] = new]
  BY Zenon DEF Users, ChangeSpec, ChangeNodeSets, DeleteObject, EditObject
<1> QED
  BY <1>4, <1>5, <1>6, <1>7, <1>8, <1>9, ZenonT(40) DEF KeyInv

LEMMA OperatorKeeps ==
    ASSUME ObjectsInv, MariaDBOperator
    PROVE  ObjectsInv' /\ KeysKept
<1>1. PICK o \in DatabaseSecrets :
         /\ ~Exists(o)
         /\ objects' = [objects EXCEPT ![o] =
                [exists |-> TRUE, rv |-> @.rv + 1, body |-> GeneratedSecret(@.rv + 1),
                 versions |-> NoVersions]]
  BY Zenon DEF MariaDBOperator
<1>2. stale' = stale
  BY Zenon DEF MariaDBOperator
<1> DEFINE new == [exists |-> TRUE, rv |-> objects[o].rv + 1,
                   body |-> GeneratedSecret(objects[o].rv + 1), versions |-> NoVersions]
<1>3. KeyShape(new)
  BY NewKey
<1>4. objects' = [objects EXCEPT ![o] = new]
  BY <1>1
<1> HIDE DEF new
<1>5. /\ DOMAIN objects' = Objects
      /\ \A k \in KeyObjects : objects'[k] = IF k = o THEN new ELSE objects[k]
  BY <1>4, KeysAreObjects DEF ObjectsInv
<1>6. KeysKept
  BY <1>1, <1>5, Zenon DEF KeysKept
<1> QED
  BY <1>2, <1>3, <1>5, <1>6, ZenonT(40) DEF ObjectsInv

LEMMA KeyStep == KeyInv /\ [Next]_vars => KeyInv' /\ KeysKept
<1> SUFFICES ASSUME KeyInv, [Next]_vars PROVE KeyInv' /\ KeysKept
  OBVIOUS
<1>1. CASE Users
  BY <1>1, UsersKeep
<1>2. CASE plan' = plan /\ ObjectsInv' /\ KeysKept
  BY <1>2, Zenon DEF KeyInv, PlanInv
<1>3. ASSUME plan' = plan, objects' = objects, stale' = stale \/ stale' = NoVersions
      PROVE  KeyInv' /\ KeysKept
  BY <1>2, <1>3, SameObjects, ZenonT(40) DEF KeyInv
<1>4. CASE Controller
  <2>1. plan' = plan
    BY <1>4, Zenon DEF Controller, Free
  <2>2. CASE ReconcileStep
    BY <1>2, <2>1, <2>2, StepKeeps, ZenonT(40) DEF KeyInv
  <2>3. ASSUME ~ReconcileStep PROVE objects' = objects /\ stale' = stale
    BY <1>4, <2>3, Zenon DEF Controller, StartPass, Validation, ValidateAccountingPanics,
       Availability, resourceVars
  <2> QED
    BY <1>3, <2>1, <2>2, <2>3, ZenonT(40)
<1>5. CASE ControllerFaults
  <2>1. plan' = plan
    BY <1>5, Zenon DEF ControllerFaults, Spend
  <2>2. CASE LaggingStep \/ StepFails \/ ReportFails
    BY <1>2, <2>1, <2>2, StepKeeps, ZenonT(40) DEF KeyInv
  <2>3. ASSUME ~(LaggingStep \/ StepFails \/ ReportFails)
        PROVE  objects' = objects /\ (stale' = stale \/ stale' = NoVersions)
    BY <1>5, <2>3, Zenon DEF ControllerFaults, Restart, ConditionFails, PhaseFails, resourceVars
  <2> QED
    BY <1>3, <2>1, <2>2, <2>3, ZenonT(40)
<1>6. CASE Cache
  BY <1>2, <1>6, StepKeeps, Zenon DEF Cache, Free, KeyInv
<1>7. CASE MariaDBOperator
  <2>1. plan' = plan
    BY <1>7, Zenon DEF MariaDBOperator, Free
  <2> QED
    BY <1>2, <1>7, <2>1, OperatorKeeps, ZenonT(40) DEF KeyInv
<1>8. CASE Pods \/ PodFaults \/ Job \/ JobFaults
  <2>1. plan' = plan /\ objects' = objects /\ stale' = stale
    BY <1>8, Zenon DEF Pods, PodFaults, Job, JobFaults, Free, Spend, resourceVars
  <2> QED
    BY <1>3, <2>1, Zenon
<1>9. CASE UNCHANGED vars
  <2>1. plan' = plan /\ objects' = objects /\ stale' = stale
    BY <1>9, Zenon DEF vars, resourceVars
  <2> QED
    BY <1>3, <2>1, Zenon
<1> QED
  BY <1>1, <1>4, <1>5, <1>6, <1>7, <1>8, <1>9, ZenonT(40) DEF Next

LEMMA KeyInit == Init => KeyInv
<1> SUFFICES ASSUME Init PROVE KeyInv
  OBVIOUS
<1>1. PICK s \in Scenarios :
         /\ objects = [o \in Objects |->
               IF s.settled \/ o \in s.owned THEN SettledObject(o, s) ELSE Missing(0)]
         /\ stale = NoVersions /\ plan = s.plan
  BY Zenon DEF Init
<1>2. PlanInv
  BY <1>1, ScenariosAssumption, Zenon DEF PlanInv
<1>3. ASSUME NEW o \in KeyObjects
      PROVE  SettledObject(o, s) \in
                {Missing(0), [exists |-> TRUE, rv |-> 1, body |-> GeneratedSecret(1),
                              versions |-> NoVersions]}
  <2>1. \A v, ns, passwords : Wanted(o, v, ns, passwords) = GeneratedSecret(1)
    <3>1. o \in Keys \cup DatabaseSecrets /\ o \notin UserObjects
      BY DEF KeyObjects, Keys, DatabaseSecrets, UserObjects
    <3> QED
      BY <3>1 DEF Wanted
  <2>2. \A v : Dependencies(o, v) = {}
    <3>1. o \notin {"accounting", "controller", "login", "rest"}
      BY DEF KeyObjects, Keys, DatabaseSecrets
    <3> QED
      BY <3>1 DEF Dependencies
  <2>3. [d \in {} |-> 1] = NoVersions
    BY DEF NoVersions
  <2> QED
    BY <2>1, <2>2, <2>3, ZenonT(40) DEF SettledObject
<1>4. ASSUME NEW o \in KeyObjects PROVE KeyShape(objects[o])
  <2>1. KeyShape(Missing(0))
    BY DEF KeyShape, Missing
  <2>2. KeyShape([exists |-> TRUE, rv |-> 1, body |-> GeneratedSecret(1), versions |-> NoVersions])
    BY NewKey
  <2>3. objects[o] = SettledObject(o, s) \/ objects[o] = Missing(0)
    BY <1>1, KeysAreObjects
  <2> QED
    BY <1>3, <2>1, <2>2, <2>3, ZenonT(40)
<1>5. DOMAIN objects = Objects /\ DOMAIN stale = {}
  BY <1>1 DEF NoVersions
<1> QED
  BY <1>2, <1>4, <1>5, Zenon DEF KeyInv, ObjectsInv

\* A generated key or password is never replaced by another one (KeepSecret,
\* MariaDbPassword and the MariaDB operator), whatever the spec asks for, however
\* old the copies in the operator's cache are, and wherever writes fail and the
\* operator restarts.
THEOREM KeysAlwaysSurvive == Spec => KeysSurvive
<1>1. KeyInv /\ [Next]_vars => [KeysKept]_vars
  BY KeyStep
<1>2. [KeysKept]_vars => [\A o \in Keys \cup DatabaseSecrets :
          Exists(o) /\ objects'[o].exists => objects'[o].body = objects[o].body]_vars
  BY Zenon DEF KeysKept, KeyObjects
<1> QED
  BY <1>1, <1>2, KeyInit, KeyStep, PTL DEF Spec, KeysSurvive
=============================================================================
