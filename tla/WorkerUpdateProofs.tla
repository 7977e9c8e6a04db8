--------------------------- MODULE WorkerUpdateProofs ---------------------------
(***************************************************************************)
(* Proofs about WorkerUpdate, for any number of workers, revisions and     *)
(* attempts, any budget and any bounds.                                    *)
(***************************************************************************)
EXTENDS UpdateBudgetProofs

-----------------------------------------------------------------------------
LEMMA StatusType == revision \in Revision => ActualStatus \in Status
  BY CountWorkers DEF ActualStatus, Status

LEMMA IdleOK == PassOK(Idle)
  BY Constants DEF PassOK, PassRecord, Idle

\* How a pass goes on.
LEMMA GoesTo ==
    ASSUME NEW r, Goes(r)
    PROVE  \/ r.todo # {} /\ ru' = r
           \/ r.todo = {} /\ r.pc # "label" /\ r.picked # {}
              /\ ru' = [r EXCEPT !.pc = "label", !.todo = r.picked]
           \/ r.pc = "label" /\ ru' = [Idle EXCEPT !.pc = "reboot", !.picked = r.picked]
           \/ ru' = Idle
  BY Zenon DEF Goes

\* r is all that PassOK asks for, but for a next call.
LEMMA GoesOK ==
    ASSUME NEW r \in PassRecord, Goes(r), r.pc \in {"delete", "call", "label"},
           r.pc = "delete" => r.picked = {},
           r.pc \in {"call", "label"} => \A w \in r.picked : r.pods[w] \in Pod,
           r.pc = "label" => r.todo \subseteq r.picked
    PROVE  PassOK(ru')
<1>1. CASE r.todo # {} /\ ru' = r
  BY <1>1 DEF PassOK
<1>2. CASE r.todo = {} /\ r.pc # "label" /\ r.picked # {}
           /\ ru' = [r EXCEPT !.pc = "label", !.todo = r.picked]
  <2>1. ru' \in PassRecord /\ ru'.pc = "label" /\ ru'.todo = r.picked
        /\ ru'.picked = r.picked /\ ru'.pods = r.pods
    BY <1>2, Zenon DEF PassRecord
  <2> QED
    BY <1>2, <2>1 DEF PassOK
<1>3. CASE r.pc = "label" /\ ru' = [Idle EXCEPT !.pc = "reboot", !.picked = r.picked]
  <2> DEFINE P == {<<>>} \cup [Workers -> PodOrNone]
  <2>0. <<>> \in P /\ r.picked \in SUBSET Workers
    BY DEF PassRecord
  <2> HIDE DEF P
  <2>1. ru' \in PassRecord /\ ru'.pc = "reboot"
    <3>1. ru' = [pc |-> "reboot", operationID |-> 0, ready |-> 0, pods |-> <<>>,
                 todo |-> {}, undrain |-> {}, picked |-> r.picked]
      BY <1>3, Zenon DEF Idle
    <3>2. ru' \in [pc : {"idle", "delete", "list", "cleanup", "call", "label", "reboot"},
                   operationID : Revision, ready : 0 .. Replicas, pods : P,
                   todo : SUBSET Workers, undrain : SUBSET Workers,
                   picked : SUBSET Workers]
      BY <2>0, <3>1, Constants
    <3> QED
      BY <3>1, <3>2 DEF P, PassRecord
  <2> QED
    BY <2>1 DEF PassOK
<1>4. CASE ru' = Idle
  BY <1>4, IdleOK
<1> QED
  BY <1>1, <1>2, <1>3, <1>4, GoesTo, ZenonT(40)

-----------------------------------------------------------------------------
(* Types.                                                                  *)

LEMMA SetPod ==
    ASSUME pods \in [Workers -> PodOrNone], NEW w \in Workers, NEW p \in PodOrNone,
           pods' = [pods EXCEPT ![w] = p]
    PROVE  /\ pods' \in [Workers -> PodOrNone]
           /\ pods'[w] = p
           /\ \A v \in Workers \ {w} : pods'[v] = pods[v]
  OBVIOUS

LEMMA SetHandoff ==
    ASSUME handoff \in [Workers -> HandoffRecord], NEW w \in Workers,
           Exit(w) \/ (AttemptFails(w) /\ handoff[w].pc # "off")
    PROVE  /\ handoff' \in [Workers -> HandoffRecord]
           /\ handoff'[w].pc # "off" => handoff[w].pc # "off"
           /\ \A v \in Workers \ {w} : handoff'[v] = handoff[v]
<1>1. Off \in HandoffRecord /\ Off.pc = "off"
  BY Constants DEF Off, HandoffRecord
<1>2. CASE Exit(w)
  BY <1>1, <1>2 DEF Exit
<1>3. CASE handoff' = [handoff EXCEPT ![w].pc = "get", ![w].attempt = @ + 1]
           /\ handoff[w].attempt # MaxAttempts /\ handoff[w].pc # "off"
  <2> DEFINE h == [handoff[w] EXCEPT !.pc = "get", !.attempt = @ + 1]
  <2>1. h \in HandoffRecord
    BY <1>3, Constants DEF HandoffRecord
  <2>2. handoff' = [handoff EXCEPT ![w] = h]
    BY <1>3, Zenon
  <2> HIDE DEF h
  <2> QED
    BY <1>3, <2>1, <2>2, Zenon
<1> QED
  BY <1>2, <1>3 DEF AttemptFails

LEMMA SpendKeepsType ==
    ASSUME NEW bs, SpendAll(bs), left \in [Bounds -> Nat]
    PROVE  left' \in [Bounds -> Nat] /\ \A b \in Bounds : left'[b] <= left[b]
  BY DEF SpendAll

\* The record of a pass after one of its calls.
LEMMA DoneOK ==
    ASSUME PassOK(ru), ru.pc \in {"delete", "call", "label"}, Goes(Done)
    PROVE  PassOK(ru')
<1>1. Done \in PassRecord /\ Done.pc = ru.pc /\ Done.picked = ru.picked
      /\ Done.pods = ru.pods /\ Done.todo = ru.todo \ {First}
  BY DEF PassOK, PassRecord, Done
<1> HIDE DEF Done
<1> QED
  BY <1>1, GoesOK DEF PassOK

\* A pass begins.
LEMMA BeginOK ==
    ASSUME NEW sts \in Status, pods \in [Workers -> PodOrNone], Reconcile(sts)
    PROVE  /\ PassOK(ru') /\ ru'.picked = {}
           /\ \/ ru'.pc = "cleanup"
              \/ ru'.pc = "delete" /\ ru'.todo = Finished(sts.revision)
              \/ ru'.pc = "delete" /\ ru'.todo \subseteq InitCrashing(sts.revision)
              \/ ru'.pc = "list" /\ ru'.operationID = sts.revision
<1> DEFINE P == {<<>>} \cup [Workers -> PodOrNone]
           PR == [pc : {"idle", "delete", "list", "cleanup", "call", "label", "reboot"},
                  operationID : Revision, ready : 0 .. Replicas, pods : P,
                  todo : SUBSET Workers, undrain : SUBSET Workers,
                  picked : SUBSET Workers]
           outdated == filterOutdatedPods(pods, sts.revision)
           begins(pc, op, rd, ps, todo) ==
               [pc |-> pc, operationID |-> op, ready |-> rd, pods |-> ps, todo |-> todo,
                undrain |-> {}, picked |-> {}]
<1>1. <<>> \in P /\ pods \in P /\ PR = PassRecord
  BY DEF PassRecord
<1>2. outdated \in SUBSET Workers /\ \A w \in outdated : pods[w] \in Pod
  BY IsPod DEF filterOutdatedPods
<1>3. Finished(sts.revision) \in SUBSET Workers
      /\ InitCrashing(sts.revision) \in SUBSET Workers
      /\ eligibleNodeNames(sts.revision) \in SUBSET Workers
  BY DEF Finished, InitCrashing, eligibleNodeNames, filterOutdatedPods
<1>4. InitCrashing(sts.revision) # {} =>
         Min(InitCrashing(sts.revision)) \in InitCrashing(sts.revision)
  BY <1>3, HasMin, Constants
<1>5. sts.revision \in Revision /\ sts.ready \in 0 .. Replicas
      /\ 0 \in Revision /\ 0 \in 0 .. Replicas
  BY Constants DEF Status
<1> HIDE DEF P, outdated
<1>6. CASE /\ eligibleNodeNames(sts.revision) # {}
           /\ ru' = begins("cleanup", 0, 0, <<>>, eligibleNodeNames(sts.revision))
  <2>1. ru' \in PR
    BY <1>1, <1>3, <1>5, <1>6
  <2> QED
    BY <1>1, <1>6, <2>1, Zenon DEF PassOK
<1>7. CASE /\ Finished(sts.revision) # {}
           /\ ru' = begins("delete", 0, 0, <<>>, Finished(sts.revision))
  <2>1. ru' \in PR
    BY <1>1, <1>3, <1>5, <1>7
  <2> QED
    BY <1>1, <1>7, <2>1, Zenon DEF PassOK
<1>8. CASE /\ InitCrashing(sts.revision) # {}
           /\ ru' = begins("delete", 0, 0, <<>>, {Min(InitCrashing(sts.revision))})
  <2>1. {Min(InitCrashing(sts.revision))} \in SUBSET Workers
    BY <1>3, <1>4, <1>8
  <2>2. ru' \in PR
    BY <1>1, <1>5, <1>8, <2>1
  <2> QED
    BY <1>1, <1>4, <1>8, <2>2, Zenon DEF PassOK
<1>9. CASE /\ outdated # {}
           /\ ru' = begins("list", sts.revision, sts.ready, pods, outdated)
  <2>1. ru' \in PR
    BY <1>1, <1>2, <1>5, <1>9, SMTT(30)
  <2> QED
    BY <1>1, <1>2, <1>9, <2>1, ZenonT(40) DEF PassOK
<1> QED
  BY <1>6, <1>7, <1>8, <1>9, ZenonT(40) DEF Reconcile, Idle, outdated

\* What a step of a pass does to the pods: it deletes one, or labels one.
Deletes(w) == pods' = [pods EXCEPT ![w] = NoPod]

Labels(w) ==
    /\ pods[w] \in Pod
    /\ pods' = [pods EXCEPT ![w] = [pods[w] EXCEPT !.op = ru.operationID,
                                                   !.phase = "stopping"]]

PassPods ==
    \/ UNCHANGED pods
    \/ /\ ru.pc = "delete" \/ (ru.pc = "call" /\ First \notin ru.undrain)
       /\ Deletes(First)
    \/ ru.pc = "label" /\ Labels(First)

LEMMA PassPodsEffect == TypeInv /\ RollingUpdateNext => PassPods
<1> SUFFICES ASSUME TypeInv, RollingUpdateNext PROVE PassPods
  OBVIOUS
<1>1. CASE Label
  <2>1. First \in ru.todo /\ First \in Workers
    BY <1>1, FirstInTodo DEF Label, TypeInv, PassOK
  <2>2. ru.pods[First] \in Pod
    BY <1>1, <2>1 DEF Label, TypeInv, PassOK
  <2>3. CASE UNCHANGED pods
    BY <2>3, Zenon DEF PassPods
  <2>4. CASE /\ pods[First] = ru.pods[First]
             /\ pods' = [pods EXCEPT ![First].op = ru.operationID,
                                     ![First].phase = "stopping"]
    BY <1>1, <2>1, <2>2, <2>4, Zenon DEF Label, PassPods, Labels, TypeInv
  <2> QED
    BY <1>1, <2>3, <2>4, SMTT(30) DEF Label
<1>2. CASE DeleteFinished
  BY <1>2 DEF DeleteFinished, DeletePod, PassPods, Deletes
<1>3. CASE Call
  BY <1>3 DEF Call, DeletePod, PassPods, Deletes
<1>4. CASE Reconcile(ActualStatus) \/ ListNodes \/ cleanupStaleRollingUpdateDrains \/ Reboot
  BY <1>4, SMTT(30) DEF Reconcile, ListNodes, cleanupStaleRollingUpdateDrains, Reboot, PassPods,
              workerVars
<1> QED
  BY <1>1, <1>2, <1>3, <1>4 DEF RollingUpdateNext

\* What it does to the nodes: it undrains one, or requests reboots.  The job of a
\* node stays as it is, and so does a reboot.
PassNodes ==
    \A w \in Workers : nodes'[w].job = nodes[w].job
                       /\ (nodes[w].reboot # "none" => nodes'[w].reboot # "none")

LEMMA PassNodesEffect ==
    TypeInv /\ RollingUpdateNext => nodes' \in [Workers -> SlurmNode] /\ PassNodes
<1> SUFFICES ASSUME TypeInv, RollingUpdateNext
             PROVE  nodes' \in [Workers -> SlurmNode] /\ PassNodes
  OBVIOUS
<1>0. nodes \in [Workers -> SlurmNode]
  BY DEF TypeInv
<1>1. CASE UNCHANGED nodes
  BY <1>0, <1>1 DEF PassNodes
<1>2. CASE Call /\ UndrainNode(First)
  <2>1. First \in Workers
    BY <1>2, FirstInTodo DEF Call, TypeInv, PassOK
  <2> DEFINE n == [nodes[First] EXCEPT !.drain = FALSE,
                                       !.reason = IF nodes[First].drain THEN "none" ELSE @]
  <2>2. n \in SlurmNode /\ n.job = nodes[First].job /\ n.reboot = nodes[First].reboot
    BY <1>0, <2>1, ZenonT(40) DEF SlurmNode
  <2>3. nodes' = [nodes EXCEPT ![First] = n]
    BY <1>0, <1>2, <2>1, Zenon DEF UndrainNode
  <2> HIDE DEF n
  <2> QED
    BY <1>0, <2>1, <2>2, <2>3, SMTT(30) DEF PassNodes
<1>3. CASE Reboot
  <2> DEFINE n(w) == [nodes[w] EXCEPT !.drain = TRUE, !.reason = "update",
                                      !.reboot = "requested"]
  <2>1. \A w \in Workers : n(w) \in SlurmNode /\ n(w).job = nodes[w].job
                           /\ n(w).reboot = "requested"
    BY <1>0, ZenonT(40) DEF SlurmNode
  <2>2. nodes' = [w \in Workers |-> IF w \in ru.picked THEN n(w) ELSE nodes[w]]
    BY <1>3, Zenon DEF Reboot, RebootNodes
  <2> HIDE DEF n
  <2> QED
    BY <1>0, <2>1, <2>2 DEF PassNodes
<1> QED
  BY <1>1, <1>2, <1>3, SMTT(30) DEF RollingUpdateNext, Reconcile, DeleteFinished, ListNodes,
     cleanupStaleRollingUpdateDrains, Call, Label, workerVars

LEMMA PassPodsType ==
    ASSUME TypeInv, PassPods
    PROVE  pods' \in [Workers -> PodOrNone]
<1>1. NoPod \in PodOrNone /\ Pod \subseteq PodOrNone
  BY DEF PodOrNone
<1>2. ru.pc \in {"delete", "call", "label"} => First \in Workers
  BY FirstInTodo DEF TypeInv, PassOK
<1>3. CASE UNCHANGED pods
  BY <1>3 DEF TypeInv
<1>4. CASE ru.pc \in {"delete", "call"} /\ Deletes(First)
  BY <1>1, <1>2, <1>4, SetPod, SMTT(30) DEF TypeInv, Deletes
<1>5. CASE ru.pc = "label" /\ Labels(First)
  <2> DEFINE p == [pods[First] EXCEPT !.op = ru.operationID, !.phase = "stopping"]
  <2>1. p \in Pod
    BY <1>5 DEF Labels, Pod, TypeInv, PassOK, PassRecord, OperationPhase
  <2>2. pods' = [pods EXCEPT ![First] = p]
    BY <1>5, Zenon DEF Labels
  <2> HIDE DEF p
  <2> QED
    BY <1>1, <1>2, <1>5, <2>1, <2>2, SetPod, SMTT(30) DEF TypeInv
<1> QED
  BY <1>3, <1>4, <1>5 DEF PassPods

\* Where the calls of a pass come from: the completed handoffs and the failed
\* inits it has found, or the empty offline nodes it has listed.
PassCalls ==
    /\ ru'.pc = "delete" =>
          \/ ru.pc = "delete" /\ ru'.todo \subseteq ru.todo
          \/ ru'.todo \subseteq Finished(revision) \cup InitCrashing(revision)
    /\ ru'.pc = "call" =>
          \/ ru.pc = "call" /\ ru'.todo \subseteq ru.todo /\ ru'.undrain = ru.undrain
          \/ \A w \in ru'.todo \ ru'.undrain : nodes[w].job = "none"
    /\ ru'.operationID \in {0, revision, ru.operationID}

LEMMA PassCallsDone ==
    ASSUME PassOK(ru), ru.pc \in {"delete", "call", "label"}, Goes(Done)
    PROVE  PassOK(ru') /\ PassCalls
<1>1. PassOK(ru')
  BY DoneOK
<1>2. /\ Done.pc = ru.pc /\ Done.picked = ru.picked /\ Done.undrain = ru.undrain
      /\ Done.todo = ru.todo \ {First} /\ Done.operationID = ru.operationID
      /\ Done \in PassRecord
  BY DEF PassOK, PassRecord, Done
<1> HIDE DEF Done
<1>3. CASE ru' = Done
  BY <1>1, <1>2, <1>3 DEF PassCalls
<1>4. CASE ru' = [Done EXCEPT !.pc = "label", !.todo = Done.picked]
  <2>1. ru'.pc = "label" /\ ru'.operationID = Done.operationID
    BY <1>2, <1>4 DEF PassRecord
  <2> QED
    BY <1>1, <1>2, <2>1 DEF PassCalls
<1>5. CASE ru' = [Idle EXCEPT !.pc = "reboot", !.picked = Done.picked]
  <2>1. ru'.pc = "reboot" /\ ru'.operationID = 0
    BY <1>5 DEF Idle
  <2> QED
    BY <1>1, <2>1 DEF PassCalls
<1>6. CASE ru' = Idle
  <2>1. ru'.pc = "idle" /\ ru'.operationID = 0
    BY <1>6 DEF Idle
  <2> QED
    BY <1>1, <2>1 DEF PassCalls
<1> QED
  BY <1>3, <1>4, <1>5, <1>6, GoesTo, ZenonT(40)

LEMMA PassCallsEnd == ru' = Idle => PassOK(ru') /\ PassCalls
  BY IdleOK DEF PassCalls, Idle

\* The loops that list the nodes go on to the calls with a record like this one.
LEMMA PassCallsListed ==
    ASSUME TypeInv, NEW r \in PassRecord, Goes(r), r.pc = "call",
           \A w \in r.picked : r.pods[w] \in Pod,
           \A w \in r.todo \ r.undrain : nodes[w].job = "none",
           r.operationID = ru.operationID
    PROVE  PassOK(ru') /\ PassCalls
<1>1. PassOK(ru')
  BY GoesOK
<1>2. CASE ru' = r
  BY <1>1, <1>2 DEF PassCalls
<1>3. CASE ru' = [r EXCEPT !.pc = "label", !.todo = r.picked]
  <2>1. ru'.pc = "label" /\ ru'.operationID = r.operationID
    BY <1>3 DEF PassRecord
  <2> QED
    BY <1>1, <2>1 DEF PassCalls
<1>4. CASE ru' = Idle
  BY <1>4, PassCallsEnd
<1> QED
  BY <1>1, <1>2, <1>3, <1>4, GoesTo, ZenonT(40)

LEMMA PassCallsEffect == TypeInv /\ RollingUpdateNext => PassOK(ru') /\ PassCalls
<1> SUFFICES ASSUME TypeInv, RollingUpdateNext PROVE PassOK(ru') /\ PassCalls
  OBVIOUS
<1>0. PassOK(ru) /\ ru \in PassRecord
  BY DEF TypeInv, PassOK
<1>1. CASE Reconcile(ActualStatus)
  <2>1. ActualStatus \in Status /\ ActualStatus.revision = revision
    BY StatusType DEF TypeInv, ActualStatus
  <2>2. ActualStatus.revision = revision
    BY DEF ActualStatus
  <2> HIDE DEF ActualStatus
  <2>3. PICK sts \in Status : sts = ActualStatus
    BY <2>1
  <2>4. Reconcile(sts) /\ sts.revision = revision
    BY <1>1, <2>2, <2>3, SMTT(30)
  <2>5. /\ PassOK(ru') /\ ru'.picked = {}
        /\ \/ ru'.pc = "cleanup"
           \/ ru'.pc = "delete" /\ ru'.todo = Finished(sts.revision)
           \/ ru'.pc = "delete" /\ ru'.todo \subseteq InitCrashing(sts.revision)
           \/ ru'.pc = "list" /\ ru'.operationID = sts.revision
    BY <2>4, BeginOK DEF TypeInv
  <2>6. ru'.operationID \in {0, sts.revision}
    BY <2>4, Zenon DEF Reconcile, Idle
  <2> QED
    BY <2>4, <2>5, <2>6, SMTT(30) DEF PassCalls
<1>2. CASE DeleteFinished \/ Call
  BY <1>0, <1>2, PassCallsDone, SMTT(30) DEF DeleteFinished, Call
<1>3. CASE Label
  BY <1>0, <1>3, PassCallsDone, PassCallsEnd DEF Label, End
<1>4. CASE Reboot
  BY <1>4, PassCallsEnd DEF Reboot, End
<1>5. CASE cleanupStaleRollingUpdateDrains
  <2> DEFINE stale == {w \in ru.todo : staleRollingUpdateDrain(nodes[w])}
  <2>1. stale \in SUBSET Workers
    BY <1>0 DEF PassRecord
  <2> HIDE DEF stale
  <2>2. PICK r : r = [ru EXCEPT !.pc = "call", !.todo = stale, !.undrain = stale]
    OBVIOUS
  <2>3. Goes(r)
    BY <1>5, <2>2 DEF cleanupStaleRollingUpdateDrains, stale
  <2>4. /\ r \in PassRecord /\ r.pc = "call" /\ r.picked = ru.picked
        /\ r.todo = stale /\ r.undrain = stale /\ r.operationID = ru.operationID
    BY <1>0, <2>1, <2>2, ZenonT(40) DEF PassRecord
  <2>5. ru.picked = {}
    BY <1>0, <1>5, SMTT(30) DEF PassOK, cleanupStaleRollingUpdateDrains
  <2> QED
    BY <2>3, <2>4, <2>5, PassCallsListed, SMTT(30)
<1>6. CASE ListNodes
  <2> DEFINE decided(action) ==
                 {w \in ru.todo :
                     decideWorkerUpdateAction(ru.pods[w], nodes[w], ru.operationID) = action}
             D == decided("Delete")
             U == decided("Undrain")
             S == decided("ScheduleReboot")
  <2>1. PICK slots : Goes([ru EXCEPT !.pc = "call", !.ready = 0, !.todo = U \cup D,
                                     !.undrain = U, !.picked = FirstOf(S, slots)])
    BY <1>6, Zenon DEF ListNodes
  <2>2. U \in SUBSET Workers /\ D \in SUBSET Workers /\ S \in SUBSET ru.todo
        /\ ru.todo \in SUBSET Workers
    BY <1>0 DEF PassRecord
  <2>3. \A w \in D : nodes[w].job = "none"
    BY DEF decideWorkerUpdateAction, safeToDeleteOfflineSlurmNode
  <2>4. \A w \in ru.todo : ru.pods[w] \in Pod
    BY <1>0, <1>6 DEF PassOK, ListNodes
  <2>5. FirstOf(S, slots) \in SUBSET S
    BY DEF FirstOf
  <2> HIDE DEF D, U, S
  <2>6. PICK F : F = FirstOf(S, slots)
    OBVIOUS
  <2>7. PICK T : T = U \cup D
    BY Zenon
  <2>8. PICK r : r = [ru EXCEPT !.pc = "call", !.ready = 0, !.todo = T,
                                !.undrain = U, !.picked = F]
    OBVIOUS
  <2>9. Goes(r)
    BY <2>1, <2>6, <2>7, <2>8, SMTT(30)
  <2>10. T \in SUBSET Workers /\ F \in SUBSET Workers /\ F \subseteq ru.todo
    BY <2>2, <2>5, <2>6, <2>7
  <2>11. 0 \in 0 .. Replicas
    BY Constants
  <2>12. /\ r \in PassRecord /\ r.pc = "call" /\ r.picked = F /\ r.pods = ru.pods
         /\ r.todo = T /\ r.undrain = U /\ r.operationID = ru.operationID
    BY <1>0, <2>2, <2>8, <2>10, <2>11, ZenonT(40) DEF PassRecord
  <2> QED
    BY <2>3, <2>4, <2>7, <2>9, <2>10, <2>12, PassCallsListed, SMTT(30)
<1> QED
  BY <1>1, <1>2, <1>3, <1>4, <1>5, <1>6, SMTT(30) DEF RollingUpdateNext

LEMMA SetNode ==
    ASSUME nodes \in [Workers -> SlurmNode], NEW w \in Workers, NEW n \in SlurmNode,
           nodes' = [nodes EXCEPT ![w] = n]
    PROVE  /\ nodes' \in [Workers -> SlurmNode]
           /\ nodes'[w] = n
           /\ \A v \in Workers \ {w} : nodes'[v] = nodes[v]
  OBVIOUS

WorkerType ==
    /\ pods' \in [Workers -> PodOrNone] /\ nodes' \in [Workers -> SlurmNode]
    /\ handoff' \in [Workers -> HandoffRecord]

\* What the actions of a pod do to it.
LEMMA PodActionEffect ==
    ASSUME TypeInv, NEW w \in Workers,
           RecreatePod(w) \/ PodUp(w) \/ Fail(w) \/ Return(w)
    PROVE  /\ WorkerType /\ OnlyWorker(w) /\ UNCHANGED <<nodes, revision, status, ru>>
           /\ left' \in [Bounds -> Nat] /\ \A b \in Bounds : left'[b] <= left[b]
           /\ handoff'[w].pc # "off" => handoff'[w] = handoff[w]
           /\ \/ /\ pods[w] = NoPod /\ pods'[w] \in Pod
                 /\ pods'[w].run = "starting" /\ pods'[w].op = NoOperation
              \/ /\ pods[w] \in Pod /\ pods'[w] \in Pod
                 /\ pods'[w].op = pods[w].op /\ pods'[w].phase = pods[w].phase
                 /\ pods'[w].run \in {"starting", "initCrash"} =>
                       pods[w].run \in {"starting", "initCrash"}
                 /\ pods'[w].registered # pods[w].registered => Return(w)
                 /\ handoff'[w].pc # "off" => pods[w].run # "up"
<1>0. /\ pods \in [Workers -> PodOrNone] /\ nodes \in [Workers -> SlurmNode]
      /\ handoff \in [Workers -> HandoffRecord] /\ revision \in Revision
      /\ left \in [Bounds -> Nat] /\ Pod \subseteq PodOrNone
  BY Zenon DEF TypeInv, PodOrNone
<1>1. CASE RecreatePod(w)
  <2>1. NewPod \in Pod /\ NewPod.run = "starting" /\ NewPod.op = NoOperation
    BY <1>0 DEF NewPod, Pod, PodRun, OperationPhase
  <2>2. pods' = [pods EXCEPT ![w] = NewPod] /\ pods[w] = NoPod
        /\ UNCHANGED <<nodes, handoff, left, revision, status, ru>>
    BY <1>1 DEF RecreatePod, Exists
  <2> HIDE DEF NewPod
  <2>3. WorkerType /\ OnlyWorker(w) /\ pods'[w] = NewPod
    BY <1>0, <2>1, <2>2, SMTT(30) DEF WorkerType, OnlyWorker
  <2> QED
    BY <1>0, <2>1, <2>2, <2>3, SMTT(30)
<1>2. ASSUME NEW p \in Pod, pods' = [pods EXCEPT ![w] = p],
             pods[w] \in Pod, UNCHANGED nodes,
             UNCHANGED handoff \/ handoff' = [handoff EXCEPT ![w] = Off]
      PROVE  WorkerType /\ OnlyWorker(w) /\ pods'[w] = p
             /\ (handoff'[w].pc # "off" => handoff' = handoff)
  <2>1. Off \in HandoffRecord /\ Off.pc = "off"
    BY Constants DEF Off, HandoffRecord
  <2>2. pods' \in [Workers -> PodOrNone] /\ handoff' \in [Workers -> HandoffRecord]
    BY <1>0, <1>2, <2>1
  <2>3. OnlyWorker(w) /\ pods'[w] = p
    BY <1>0, <1>2, SMTT(30) DEF OnlyWorker
  <2>4. handoff'[w].pc # "off" => handoff' = handoff
    BY <1>0, <1>2, <2>1
  <2> QED
    BY <1>0, <1>2, <2>2, <2>3, <2>4, SMTT(30) DEF WorkerType
<1>3. ASSUME NEW r \in PodRun, pods[w] \in Pod
      PROVE  /\ [pods[w] EXCEPT !.run = r] \in Pod
             /\ [pods[w] EXCEPT !.run = r].run = r
             /\ [pods[w] EXCEPT !.run = r].op = pods[w].op
             /\ [pods[w] EXCEPT !.run = r].phase = pods[w].phase
             /\ [pods[w] EXCEPT !.run = r].registered = pods[w].registered
  BY <1>3, ZenonT(40) DEF Pod
<1>4. CASE PodUp(w)
  <2>1. PICK p : p = [pods[w] EXCEPT !.run = "up"]
    BY Zenon
  <2>2. pods' = [pods EXCEPT ![w] = p] /\ pods[w].run = "starting" /\ pods[w] \in Pod
        /\ UNCHANGED <<nodes, handoff, left, revision, status, ru>>
    BY <1>0, <1>4, <2>1, IsPod, SMTT(30) DEF PodUp, Exists
  <2>3. p \in Pod /\ p.run = "up" /\ p.op = pods[w].op /\ p.phase = pods[w].phase
        /\ p.registered = pods[w].registered
    BY <1>3, <2>1, <2>2, SMTT(30) DEF PodRun
  <2>4. WorkerType /\ OnlyWorker(w) /\ pods'[w] = p
    BY <1>2, <2>2, <2>3, ZenonT(40)
  <2> QED
    BY <1>0, <2>2, <2>3, <2>4, SMTT(30)
<1>5. CASE Fail(w)
  <2>1. PICK r \in PodRun \ {"starting"} :
            /\ pods' = [pods EXCEPT ![w].run = r]
            /\ r = "initCrash" => pods[w].run = "starting"
    BY <1>5 DEF Fail, PodRun
  <2>2. PICK p : p = [pods[w] EXCEPT !.run = r]
    BY Zenon
  <2>3. pods' = [pods EXCEPT ![w] = p] /\ pods[w] \in Pod
        /\ UNCHANGED <<nodes, revision, status, ru>>
    BY <1>0, <1>5, <2>1, <2>2, IsPod, ZenonT(40) DEF Fail, Exists
  <2>4. p \in Pod /\ p.run = r /\ p.op = pods[w].op /\ p.phase = pods[w].phase
        /\ p.registered = pods[w].registered
    BY <1>3, <2>2, <2>3, SMTT(30)
  <2>5. handoff' = [handoff EXCEPT ![w] = Off]
    BY <1>5 DEF Fail, Exit
  <2>6. WorkerType /\ OnlyWorker(w) /\ pods'[w] = p
    BY <1>2, <2>3, <2>4, <2>5, ZenonT(40)
  <2>7. handoff'[w].pc = "off"
    BY <1>0, <2>5, SMTT(30) DEF Off
  <2>8. left' \in [Bounds -> Nat] /\ \A b \in Bounds : left'[b] <= left[b]
    BY <1>0, <1>5, SpendKeepsType, ZenonT(40) DEF Fail, Trouble
  <2> QED
    BY <2>1, <2>3, <2>4, <2>6, <2>7, <2>8, ZenonT(40)
<1>6. CASE Return(w)
  <2>1. PICK r \in {"starting", "up"} :
            /\ r = "starting" => pods[w].run = "initCrash"
            /\ r = IF pods[w].run = "initCrash" THEN "starting" ELSE "up"
    OBVIOUS
  <2>2. PICK p : p = [pods[w] EXCEPT !.run = r, !.registered = FALSE]
    OBVIOUS
  <2>3. pods' = [pods EXCEPT ![w] = p] /\ pods[w] \in Pod /\ pods[w].run # "up"
        /\ UNCHANGED <<nodes, handoff, revision, status, ru>>
    BY <1>0, <1>6, <2>1, <2>2, IsPod, ZenonT(40) DEF Return, Exists
  <2>4. p \in Pod /\ p.run = r /\ p.op = pods[w].op /\ p.phase = pods[w].phase
    BY <2>1, <2>2, <2>3, ZenonT(40) DEF Pod, PodRun
  <2>5. WorkerType /\ OnlyWorker(w) /\ pods'[w] = p
    BY <1>2, <2>3, <2>4, ZenonT(40)
  <2>6. left' \in [Bounds -> Nat] /\ \A b \in Bounds : left'[b] <= left[b]
    BY <1>0, <1>6, SpendKeepsType, ZenonT(40) DEF Return, Spend
  <2> QED
    BY <1>6, <2>1, <2>3, <2>4, <2>5, <2>6, SMTT(30)
<1> QED
  BY <1>1, <1>4, <1>5, <1>6, ZenonT(40)

\* What slurmctld does to a node: the actions that leave the pod alone.
LEMMA NodeActionEffect ==
    ASSUME TypeInv, NEW w \in Workers,
           StartJob(w) \/ EndJob(w) \/ Silent(w) \/ RebootTimesOut(w)
    PROVE  /\ WorkerType /\ OnlyWorker(w)
           /\ UNCHANGED <<pods, revision, status, handoff, ru, left>>
           /\ nodes'[w].job # "none" => nodes[w].job # "none" \/ StartJob(w)
           /\ nodes'[w].reboot = "none" => nodes[w].reboot = "none" \/ RebootTimesOut(w)
<1>0. /\ pods \in [Workers -> PodOrNone] /\ nodes \in [Workers -> SlurmNode]
      /\ handoff \in [Workers -> HandoffRecord] /\ nodes[w] \in SlurmNode
  BY DEF TypeInv
<1>1. UNCHANGED <<pods, revision, status, handoff, ru, left>>
  BY DEF StartJob, EndJob, Silent, RebootTimesOut
<1>2. ASSUME NEW n \in SlurmNode, nodes' = [nodes EXCEPT ![w] = n]
      PROVE  WorkerType /\ OnlyWorker(w) /\ nodes'[w] = n
  BY <1>0, <1>1, <1>2 DEF WorkerType, OnlyWorker
<1>3. CASE StartJob(w)
  <2>1. PICK n : n = [nodes[w] EXCEPT !.job = "running"]
    BY Zenon
  <2>2. nodes' = [nodes EXCEPT ![w] = n]
    BY <1>0, <1>3, <2>1, SMTT(30) DEF StartJob
  <2>3. n \in SlurmNode /\ n.reboot = nodes[w].reboot
    BY <1>0, <2>1, ZenonT(40) DEF SlurmNode
  <2> QED
    BY <1>1, <1>2, <1>3, <2>2, <2>3, ZenonT(40)
<1>4. CASE EndJob(w)
  <2>1. PICK n : n = [nodes[w] EXCEPT !.job = IF @ = "running" THEN "completing" ELSE "none"]
    BY Zenon
  <2>2. nodes' = [nodes EXCEPT ![w] = n] /\ nodes[w].job # "none"
    BY <1>0, <1>4, <2>1, SMTT(30) DEF EndJob
  <2>3. n \in SlurmNode /\ n.reboot = nodes[w].reboot
    BY <1>0, <2>1, Zenon DEF SlurmNode
  <2> QED
    BY <1>1, <1>2, <2>2, <2>3, ZenonT(40)
<1>5. CASE Silent(w)
  <2>1. PICK n : \/ n = [nodes[w] EXCEPT !.responding = FALSE]
                    /\ nodes' = [nodes EXCEPT ![w].responding = FALSE]
                 \/ n = [nodes[w] EXCEPT !.down = TRUE,
                            !.job = IF @ = "running" THEN "completing" ELSE @]
                    /\ nodes' = [nodes EXCEPT ![w].down = TRUE,
                            ![w].job = IF @ = "running" THEN "completing" ELSE @]
    BY <1>5, Zenon DEF Silent
  <2>2. nodes' = [nodes EXCEPT ![w] = n]
    BY <1>0, <2>1, ZenonT(40)
  <2>3. n \in SlurmNode /\ n.reboot = nodes[w].reboot
        /\ (n.job # "none" => nodes[w].job # "none")
    BY <1>0, <2>1, ZenonT(40) DEF SlurmNode
  <2> QED
    BY <1>1, <1>2, <2>2, <2>3, ZenonT(40)
<1>6. CASE RebootTimesOut(w)
  <2>1. PICK n : n = [nodes[w] EXCEPT !.reboot = "none", !.down = TRUE]
    OBVIOUS
  <2>2. nodes' = [nodes EXCEPT ![w] = n]
    BY <1>0, <1>6, <2>1, ZenonT(40) DEF RebootTimesOut
  <2>3. n \in SlurmNode /\ n.job = nodes[w].job
    BY <1>0, <2>1, ZenonT(40) DEF SlurmNode
  <2> QED
    BY <1>1, <1>2, <1>6, <2>2, <2>3, Zenon
<1> QED
  BY <1>3, <1>4, <1>5, <1>6

\* A node registers; it ends a reboot only when it had not yet registered.
LEMMA RegisterEffect ==
    ASSUME TypeInv, NEW w \in Workers, Register(w)
    PROVE  /\ WorkerType /\ OnlyWorker(w) /\ UNCHANGED <<revision, status, handoff, ru, left>>
           /\ pods[w] \in Pod /\ pods'[w] \in Pod /\ pods'[w].registered
           /\ pods'[w].op = pods[w].op /\ pods'[w].phase = pods[w].phase
           /\ pods'[w].run = pods[w].run
           /\ nodes'[w].job = nodes[w].job
           /\ nodes'[w].reboot = "none" => nodes[w].reboot = "none" \/ ~pods[w].registered
<1>0. /\ pods \in [Workers -> PodOrNone] /\ nodes \in [Workers -> SlurmNode]
      /\ handoff \in [Workers -> HandoffRecord] /\ nodes[w] \in SlurmNode
      /\ pods[w] \in Pod /\ Pod \subseteq PodOrNone
  BY IsPod, Zenon DEF TypeInv, Register, SlurmdRuns, Exists, PodOrNone
<1>1. UNCHANGED <<revision, status, handoff, ru, left>>
  BY Zenon DEF Register
<1>2. PICK p : p = [pods[w] EXCEPT !.registered = TRUE]
  BY Zenon
<1>3. pods' = [pods EXCEPT ![w] = p]
  BY <1>0, <1>2, Zenon DEF Register
<1>4. p \in Pod /\ p.registered /\ p.op = pods[w].op /\ p.phase = pods[w].phase
      /\ p.run = pods[w].run
  BY <1>0, <1>2, ZenonT(40) DEF Pod
<1>5. ASSUME NEW n \in SlurmNode, nodes' = [nodes EXCEPT ![w] = n]
      PROVE  WorkerType /\ OnlyWorker(w) /\ nodes'[w] = n /\ pods'[w] = p
  BY <1>0, <1>1, <1>3, <1>4, <1>5, SMTT(30) DEF WorkerType, OnlyWorker
<1>6. CASE /\ ~pods[w].registered
           /\ \E stays \in BOOLEAN :
                 nodes' = [nodes EXCEPT ![w].responding = TRUE, ![w].down = FALSE,
                                        ![w].reboot = "none", ![w].drain = stays,
                                        ![w].reason = IF stays THEN @ ELSE "none"]
  <2>1. PICK stays \in BOOLEAN :
                 nodes' = [nodes EXCEPT ![w].responding = TRUE, ![w].down = FALSE,
                                        ![w].reboot = "none", ![w].drain = stays,
                                        ![w].reason = IF stays THEN @ ELSE "none"]
    BY <1>6, Zenon
  <2>2. PICK n : n = [nodes[w] EXCEPT !.responding = TRUE, !.down = FALSE,
                                      !.reboot = "none", !.drain = stays,
                                      !.reason = IF stays THEN @ ELSE "none"]
    OBVIOUS
  <2>3. nodes' = [nodes EXCEPT ![w] = n]
    BY <1>0, <2>1, <2>2, ZenonT(40)
  <2>4. n \in SlurmNode /\ n.job = nodes[w].job
    BY <1>0, <2>2, ZenonT(40) DEF SlurmNode
  <2> QED
    BY <1>0, <1>1, <1>4, <1>5, <1>6, <2>3, <2>4, ZenonT(40)
<1>7. CASE nodes' = [nodes EXCEPT ![w].responding = TRUE, ![w].down = FALSE]
  <2>1. PICK n : n = [nodes[w] EXCEPT !.responding = TRUE, !.down = FALSE]
    OBVIOUS
  <2>2. nodes' = [nodes EXCEPT ![w] = n]
    BY <1>0, <1>7, <2>1, ZenonT(40)
  <2>3. n \in SlurmNode /\ n.job = nodes[w].job /\ n.reboot = nodes[w].reboot
    BY <1>0, <2>1, ZenonT(40) DEF SlurmNode
  <2> QED
    BY <1>0, <1>1, <1>4, <1>5, <2>2, <2>3, ZenonT(40)
<1> QED
  BY <1>6, <1>7, ZenonT(40) DEF Register

\* slurmctld starts the handoff only of an empty node whose slurmd has registered.
LEMMA IssueRebootEffect ==
    ASSUME TypeInv, NEW w \in Workers, IssueReboot(w)
    PROVE  /\ WorkerType /\ OnlyWorker(w) /\ UNCHANGED <<pods, revision, status, ru, left>>
           /\ nodes'[w].job = nodes[w].job /\ nodes'[w].reboot = "issued"
           /\ handoff'[w].pc # "off" =>
                 pods[w] # NoPod /\ pods[w].run = "up" /\ pods[w].registered
                 /\ nodes[w].job = "none"
<1>0. /\ pods \in [Workers -> PodOrNone] /\ nodes \in [Workers -> SlurmNode]
      /\ handoff \in [Workers -> HandoffRecord] /\ nodes[w] \in SlurmNode
  BY DEF TypeInv
<1>1. UNCHANGED <<pods, revision, status, ru, left>> /\ nodes[w].job = "none"
      /\ handoff[w].pc = "off"
  BY DEF IssueReboot
<1>2. PICK down \in BOOLEAN :
          nodes' = [nodes EXCEPT ![w].reboot = "issued", ![w].down = down]
  BY Zenon DEF IssueReboot
<1>3. PICK n : n = [nodes[w] EXCEPT !.reboot = "issued", !.down = down]
  OBVIOUS
<1>4. nodes' = [nodes EXCEPT ![w] = n]
  BY <1>0, <1>2, <1>3, ZenonT(40)
<1>5. n \in SlurmNode /\ n.job = nodes[w].job /\ n.reboot = "issued"
  BY <1>0, <1>3, Zenon DEF SlurmNode
<1>6. Started \in HandoffRecord
  BY Constants, SMTT(30) DEF Started, HandoffRecord
<1>7. CASE SlurmdRuns(w) /\ pods[w].registered
  <2>1. handoff' = [handoff EXCEPT ![w] = Started]
    BY <1>7 DEF IssueReboot
  <2>2. WorkerType /\ OnlyWorker(w) /\ nodes'[w] = n
    BY <1>0, <1>1, <1>4, <1>5, <1>6, <2>1, ZenonT(40) DEF WorkerType, OnlyWorker
  <2> QED
    BY <1>1, <1>5, <1>7, <2>2, SMTT(30) DEF SlurmdRuns, Exists
<1>8. CASE ~(SlurmdRuns(w) /\ pods[w].registered)
  <2>1. handoff' = handoff
    BY <1>8, ZenonT(40) DEF IssueReboot
  <2>2. WorkerType /\ OnlyWorker(w) /\ nodes'[w] = n
    BY <1>0, <1>1, <1>4, <1>5, <2>1, ZenonT(40) DEF WorkerType, OnlyWorker
  <2> QED
    BY <1>1, <1>5, <2>1, <2>2, SMTT(30)
<1> QED
  BY <1>7, <1>8, SMTT(30)

\* The handoff program answers the operation its pod is labelled with.
LEMMA HandoffEffect ==
    ASSUME TypeInv, NEW w \in Workers,
           get_worker_operation(w) \/ mark_ready(w) \/ HandoffRequestFails(w)
    PROVE  /\ WorkerType /\ OnlyWorker(w) /\ UNCHANGED <<nodes, revision, status>>
           /\ handoff[w].pc # "off"
           /\ pods[w] \in Pod /\ pods'[w] \in Pod
           /\ pods'[w].op = pods[w].op /\ pods'[w].run = pods[w].run
           /\ pods'[w].registered = pods[w].registered
<1>0. /\ pods \in [Workers -> PodOrNone] /\ nodes \in [Workers -> SlurmNode]
      /\ handoff \in [Workers -> HandoffRecord] /\ handoff[w] \in HandoffRecord
      /\ pods[w] \in Pod /\ Pod \subseteq PodOrNone
  BY IsPod, SMTT(30) DEF TypeInv, get_worker_operation, mark_ready, HandoffRequestFails, Exists,
     PodOrNone
<1>1. UNCHANGED <<nodes, revision, status>> /\ handoff[w].pc # "off"
  BY SMTT(30) DEF get_worker_operation, mark_ready, HandoffRequestFails, workerVars
<1>2. /\ handoff' \in [Workers -> HandoffRecord]
      /\ \A v \in Workers \ {w} : handoff'[v] = handoff[v]
  <2>1. CASE Exit(w) \/ AttemptFails(w)
    BY <1>0, <1>1, <2>1, SetHandoff, SMTT(30)
  <2>2. CASE handoff' = [handoff EXCEPT ![w].pc = "patch", ![w].op = pods[w].op]
    <3>1. PICK h : h = [handoff[w] EXCEPT !.pc = "patch", !.op = pods[w].op]
      OBVIOUS
    <3>2. pods[w].op \in Revision \cup {NoOperation}
      BY <1>0 DEF Pod
    <3>3. h \in HandoffRecord
      BY <1>0, <3>1, <3>2, Zenon DEF HandoffRecord
    <3>4. handoff' = [handoff EXCEPT ![w] = h]
      BY <1>0, <2>2, <3>1, ZenonT(40)
    <3> QED
      BY <1>0, <3>3, <3>4
  <2> QED
    BY <2>1, <2>2, SMTT(30) DEF get_worker_operation, mark_ready, HandoffRequestFails
<1>3. CASE UNCHANGED pods
  BY <1>0, <1>1, <1>2, <1>3, SMTT(30) DEF WorkerType, OnlyWorker
<1>4. CASE pods' = [pods EXCEPT ![w].phase = "ready"]
  <2>1. PICK p : p = [pods[w] EXCEPT !.phase = "ready"]
    BY Zenon
  <2>2. pods' = [pods EXCEPT ![w] = p]
    BY <1>0, <1>4, <2>1
  <2>3. p \in Pod /\ p.op = pods[w].op /\ p.run = pods[w].run
        /\ p.registered = pods[w].registered
    BY <1>0, <2>1, ZenonT(40) DEF Pod, OperationPhase
  <2>4. pods' \in [Workers -> PodOrNone] /\ pods'[w] = p
        /\ \A v \in Workers \ {w} : pods'[v] = pods[v]
    BY <1>0, <2>2, <2>3, SMTT(30)
  <2> QED
    BY <1>0, <1>1, <1>2, <2>3, <2>4, SMTT(30) DEF WorkerType, OnlyWorker
<1> QED
  BY <1>3, <1>4, SMTT(30) DEF get_worker_operation, mark_ready, HandoffRequestFails, workerVars

\* A step of a pass, with the programs the deleted pods take along.
LEMMA UpdateStepEffect ==
    ASSUME TypeInv, UpdateStep
    PROVE  /\ WorkerType /\ PassPods /\ PassNodes /\ PassOK(ru') /\ PassCalls
           /\ \A w \in Workers : handoff'[w].pc # "off" =>
                                     pods'[w] # NoPod /\ handoff[w].pc # "off"
           /\ revision' = revision /\ status' \in Status /\ left' = left
<1>1. PassPods /\ PassNodes /\ PassOK(ru') /\ PassCalls
  BY PassPodsEffect, PassNodesEffect, PassCallsEffect, SMTT(30) DEF UpdateStep
<1>2. pods' \in [Workers -> PodOrNone] /\ nodes' \in [Workers -> SlurmNode]
  BY <1>1, PassPodsType, PassNodesEffect, SMTT(30) DEF UpdateStep
<1>3. Off \in HandoffRecord /\ Off.pc = "off"
  BY Constants DEF Off, HandoffRecord
<1>4. handoff \in [Workers -> HandoffRecord]
  BY DEF TypeInv
<1>5. handoff' = [w \in Workers |-> IF pods'[w] = NoPod THEN Off ELSE handoff[w]]
  BY DEF UpdateStep
<1>6. ActualStatus \in Status /\ status \in Status
  BY StatusType, ZenonT(40) DEF TypeInv
<1> HIDE DEF ActualStatus
<1>7. revision' = revision /\ status' \in Status /\ left' = left
  BY <1>6 DEF UpdateStep, RollingUpdateNext, Reconcile, DeleteFinished, ListNodes,
     cleanupStaleRollingUpdateDrains, Call, Label, Reboot, workerVars
<1>8. handoff' \in [Workers -> HandoffRecord]
      /\ \A w \in Workers : handoff'[w].pc # "off" =>
                                pods'[w] # NoPod /\ handoff[w].pc # "off"
  BY <1>3, <1>4, <1>5, SMTT(30)
<1> QED
  BY <1>1, <1>2, <1>7, <1>8, SMTT(30) DEF WorkerType

-----------------------------------------------------------------------------
LEMMA TypeInit == Init => TypeInv
<1> SUFFICES ASSUME Init PROVE TypeInv
  OBVIOUS
<1>1. pods \in [Workers -> PodOrNone]
  <2>1. [rev |-> 0, run |-> "up", op |-> NoOperation, phase |-> "",
         registered |-> TRUE] \in Pod
    BY Constants, SMTT(30) DEF Pod, PodRun, OperationPhase
  <2> QED
    BY <2>1, ZenonT(40) DEF Init, WorkerInit, PodOrNone
<1>2. nodes \in [Workers -> SlurmNode]
  BY ZenonT(40) DEF Init, WorkerInit, SlurmNode
<1>3. revision \in Revision /\ status \in Status
  <2>1. 0 \in Revision /\ Replicas \in 0 .. Replicas
    BY Constants
  <2> QED
    BY <2>1 DEF Init, WorkerInit, Status
<1>4. handoff \in [Workers -> HandoffRecord]
  BY Constants DEF Init, HandoffInit, Off, HandoffRecord
<1>5. PassOK(ru)
  BY IdleOK DEF Init, RollingUpdateInit
<1>6. left \in [Bounds -> Nat]
  BY UpdateAssumption DEF Init
<1> QED
  BY <1>1, <1>2, <1>3, <1>4, <1>5, <1>6, SMTT(30) DEF TypeInv

LEMMA FaultEffect ==
    ASSUME TypeInv, Fault
    PROVE  /\ left' \in [Bounds -> Nat] /\ \A b \in Bounds : left'[b] <= left[b]
           /\ \/ ru' = Idle /\ UNCHANGED <<workerVars, handoff>>
              \/ \E w \in Workers : HandoffRequestFails(w) /\ UNCHANGED ru
<1>1. left' \in [Bounds -> Nat] /\ \A b \in Bounds : left'[b] <= left[b]
  BY SpendKeepsType, ZenonT(40) DEF Fault, Trouble, TypeInv
<1> QED
  BY <1>1 DEF Fault, PassFails, End

LEMMA TypeStep == TypeInv /\ [Next]_vars => TypeInv'
<1> SUFFICES ASSUME TypeInv, [Next]_vars PROVE TypeInv'
  OBVIOUS
<1>0. /\ revision \in Revision /\ status \in Status /\ PassOK(ru)
      /\ left \in [Bounds -> Nat]
  BY ZenonT(40) DEF TypeInv
<1>1. ASSUME WorkerType, revision' \in Revision, status' \in Status, PassOK(ru'),
             left' \in [Bounds -> Nat]
      PROVE  TypeInv'
  BY <1>1 DEF TypeInv, WorkerType, PassOK
<1>2. UNCHANGED <<workerVars, handoff>> => WorkerType
  BY DEF TypeInv, WorkerType, workerVars
<1>3. UNCHANGED ru => PassOK(ru')
  BY <1>0
<1>4. CASE ChangeTemplate
  <2>1. UNCHANGED <<pods, nodes, status, handoff, ru>> /\ revision' \in Revision
    BY <1>4 DEF ChangeTemplate
  <2>2. left' \in [Bounds -> Nat]
    BY <1>0, <1>4, SpendKeepsType DEF ChangeTemplate, Spend
  <2>3. WorkerType
    BY <2>1, Zenon DEF TypeInv, WorkerType
  <2> QED
    BY <1>0, <1>1, <1>3, <2>1, <2>2, <2>3, SMTT(30)
<1>5. CASE UpdateStep
  BY <1>0, <1>1, <1>5, UpdateStepEffect
<1>6. CASE StalePass
  <2>1. Reconcile(status) /\ UNCHANGED handoff
    BY <1>6, ZenonT(40) DEF StalePass
  <2>2. PassOK(ru')
    <3>1. PICK sts \in Status : sts = status
      BY <1>0
    <3> QED
      BY <2>1, <3>1, BeginOK DEF TypeInv
  <2>3. UNCHANGED <<pods, nodes, revision, status>>
    BY <2>1 DEF Reconcile
  <2>4. left' \in [Bounds -> Nat]
    BY <1>0, <1>6, SpendKeepsType, SMTT(30) DEF StalePass, Trouble
  <2> QED
    BY <1>0, <1>1, <1>2, <2>1, <2>2, <2>3, <2>4, SMTT(30) DEF workerVars
<1>7. CASE Fault
  <2>1. CASE ru' = Idle /\ UNCHANGED <<workerVars, handoff>>
    BY <1>0, <1>1, <1>2, <1>7, <2>1, IdleOK, FaultEffect, ZenonT(40) DEF workerVars
  <2>2. ASSUME NEW w \in Workers, HandoffRequestFails(w), UNCHANGED ru PROVE TypeInv'
    BY <1>0, <1>1, <1>3, <1>7, <2>2, HandoffEffect, FaultEffect, ZenonT(40)
  <2> QED
    BY <1>7, <2>1, <2>2, FaultEffect
<1>8. ASSUME NEW w \in Workers,
             RecreatePod(w) \/ PodUp(w) \/ Fail(w) \/ Return(w)
      PROVE  TypeInv'
  BY <1>0, <1>1, <1>3, <1>8, PodActionEffect, ZenonT(40)
<1>9. ASSUME NEW w \in Workers,
             StartJob(w) \/ EndJob(w) \/ Silent(w) \/ RebootTimesOut(w)
      PROVE  TypeInv'
  BY <1>0, <1>1, <1>3, <1>9, NodeActionEffect, ZenonT(40)
<1>10. ASSUME NEW w \in Workers, Register(w) PROVE TypeInv'
  BY <1>0, <1>1, <1>3, <1>10, RegisterEffect, SMTT(30)
<1>11. ASSUME NEW w \in Workers, IssueReboot(w) PROVE TypeInv'
  BY <1>0, <1>1, <1>3, <1>11, IssueRebootEffect, ZenonT(40)
<1>12. ASSUME NEW w \in Workers, HandoffStep(w) PROVE TypeInv'
  <2>1. UNCHANGED <<ru, left>> /\ (get_worker_operation(w) \/ mark_ready(w))
    BY <1>12, Zenon DEF HandoffStep
  <2> QED
    BY <1>0, <1>1, <1>3, <2>1, HandoffEffect, SMTT(30)
<1>13. CASE UNCHANGED vars
  BY <1>0, <1>1, <1>2, <1>3, <1>13, SMTT(30) DEF vars, workerVars
<1> QED
  BY <1>4, <1>5, <1>6, <1>7, <1>8, <1>9, <1>10, <1>11, <1>12, <1>13, SMTT(30) DEF Next

LEMMA TypeInvariant == Spec => []TypeInv
<1>1. Init => TypeInv
  BY TypeInit
<1>2. TypeInv /\ [Next]_vars => TypeInv'
  BY TypeStep
<1> QED
  BY <1>1, <1>2, PTL DEF Spec

\* Whatever fails, crashes or is read too late, the labels of the pods, the
\* attempts of the handoff programs and the lists of a pass stay well formed.
THEOREM TypeCorrect == Spec => []TypeOK
<1>1. TypeInv => TypeOK
  <2> SUFFICES ASSUME TypeInv PROVE TypeOK
    OBVIOUS
  <2>1. WorkerTypeOK
    BY DEF TypeInv, WorkerTypeOK, PodOrNone, Status
  <2>2. HandoffTypeOK
    BY DEF TypeInv, HandoffTypeOK, HandoffRecord
  <2>3. ru \in PassRecord /\ left \in [Bounds -> Nat]
    BY DEF TypeInv, PassOK
  <2>4. /\ ru.pc \in {"idle", "delete", "list", "cleanup", "call", "label", "reboot"}
        /\ ru.operationID \in Revision /\ ru.ready \in 0 .. Replicas
        /\ {ru.todo, ru.undrain, ru.picked} \subseteq SUBSET Workers
    BY <2>3 DEF PassRecord
  <2> QED
    BY <2>1, <2>2, <2>3, <2>4 DEF TypeOK
<1> QED
  BY <1>1, TypeInvariant, PTL

-----------------------------------------------------------------------------
(* No job dies with its pod.                                               *)

\* The node waits for a reboot, and has no job and gets none meanwhile.
Held(w) ==
    /\ pods[w] # NoPod /\ pods[w].registered
    /\ nodes[w].reboot # "none" /\ nodes[w].job = "none"

HandedOff(w) == pods[w] # NoPod /\ pods[w].op = revision /\ pods[w].phase = "ready"

\* A node is held from the start of its handoff until the pass of the same
\* revision deletes the pod.  A pod without slurmd has no job either, and a pass
\* deletes pods of these two kinds and of nodes it has found empty.
WorkerInv(w) ==
    /\ pods[w] = NoPod \/ pods[w].run \in {"starting", "initCrash"} =>
          nodes[w].job = "none"
    /\ handoff[w].pc # "off" => Held(w) /\ pods[w].run = "up"
    /\ HandedOff(w) => Held(w)
    /\ pods[w] # NoPod => pods[w].op <= revision

PassInv ==
    /\ ru.operationID <= revision
    /\ ru.pc = "delete" => \A w \in ru.todo : nodes[w].job = "none"
    /\ ru.pc = "call" => \A w \in ru.todo \ ru.undrain : nodes[w].job = "none"

JobInv ==
    /\ \A w \in Workers : WorkerInv(w)
    /\ PassInv
    /\ left["stale"] = 0

LEMMA OthersKeepInv ==
    ASSUME NEW w \in Workers, OnlyWorker(w), \A v \in Workers : WorkerInv(v),
           revision' = revision, WorkerInv(w)'
    PROVE  \A v \in Workers : WorkerInv(v)'
<1>1. ASSUME NEW v \in Workers, v # w PROVE WorkerInv(v)'
  <2>1. pods'[v] = pods[v] /\ nodes'[v] = nodes[v] /\ handoff'[v] = handoff[v]
    BY <1>1, Zenon DEF OnlyWorker
  <2> QED
    BY <2>1, Zenon DEF WorkerInv, Held, HandedOff
<1> QED
  BY <1>1, Zenon

\* Where no node gets a job, the calls of the pass stay safe.
LEMMA PassKeepsInv ==
    ASSUME TypeInv, PassInv, ru' = ru, revision' = revision,
           \A w \in Workers : nodes[w].job = "none" => nodes'[w].job = "none"
    PROVE  PassInv'
<1>1. ru.todo \subseteq Workers
  BY Zenon DEF TypeInv, PassOK, PassRecord
<1> QED
  BY <1>1, Zenon DEF PassInv

LEMMA PodActionInv ==
    ASSUME TypeInv, PromptPass, NEW w \in Workers, WorkerInv(w),
           RecreatePod(w) \/ PodUp(w) \/ Fail(w) \/ Return(w)
    PROVE  WorkerInv(w)'
<1>1. nodes' = nodes /\ revision' = revision /\ revision \in Revision
  BY PodActionEffect, Zenon DEF TypeInv
<1>2. handoff'[w].pc # "off" => handoff'[w] = handoff[w]
  BY PodActionEffect, Zenon
<1>3. CASE /\ pods[w] = NoPod /\ pods'[w] \in Pod
           /\ pods'[w].run = "starting" /\ pods'[w].op = NoOperation
  <2>1. handoff'[w].pc = "off"
    BY <1>2, <1>3, ZenonT(40) DEF WorkerInv, Held
  <2>2. pods'[w].op # revision /\ pods'[w].op <= revision
    BY <1>1, <1>3, Constants
  <2> QED
    BY <1>1, <1>3, <2>1, <2>2, ZenonT(40) DEF WorkerInv, HandedOff
<1>4. CASE /\ pods[w] \in Pod /\ pods'[w] \in Pod
           /\ pods'[w].op = pods[w].op /\ pods'[w].phase = pods[w].phase
           /\ pods'[w].run \in {"starting", "initCrash"} =>
                 pods[w].run \in {"starting", "initCrash"}
           /\ pods'[w].registered # pods[w].registered => Return(w)
           /\ handoff'[w].pc # "off" => pods[w].run # "up"
  <2>1. handoff'[w].pc = "off"
    BY <1>2, <1>4, ZenonT(40) DEF WorkerInv
  <2>2. pods[w] # NoPod /\ pods'[w] # NoPod
    BY <1>4, PodsDiffer
  <2>3. HandedOff(w)' => HandedOff(w) /\ ~Return(w)
    BY <1>1, <1>4, <2>2, ZenonT(40) DEF HandedOff, Return, workerOperationPhase
  <2>4. HandedOff(w)' => Held(w)'
    BY <1>1, <1>4, <2>2, <2>3, ZenonT(40) DEF WorkerInv, Held
  <2> QED
    BY <1>1, <1>4, <2>1, <2>2, <2>4, ZenonT(40) DEF WorkerInv
<1> QED
  BY <1>3, <1>4, PodActionEffect, Zenon

LEMMA NodeActionInv ==
    ASSUME TypeInv, PromptPass, NEW w \in Workers, WorkerInv(w),
           StartJob(w) \/ EndJob(w) \/ Silent(w) \/ RebootTimesOut(w)
    PROVE  WorkerInv(w)'
<1>1. /\ pods' = pods /\ revision' = revision /\ handoff' = handoff
      /\ nodes'[w].job # "none" => nodes[w].job # "none" \/ StartJob(w)
      /\ nodes'[w].reboot = "none" => nodes[w].reboot = "none" \/ RebootTimesOut(w)
  BY NodeActionEffect
<1>2. StartJob(w) => pods[w] # NoPod /\ pods[w].run = "up" /\ nodes[w].reboot = "none"
  BY DEF StartJob, SlurmdRuns, Exists
<1>3. RebootTimesOut(w) => handoff[w].pc = "off" /\ ~HandedOff(w)
  BY Zenon DEF RebootTimesOut, HandedOff, workerOperationPhase
<1>4. /\ handoff[w].pc # "off" => Held(w)'
      /\ HandedOff(w) => Held(w)'
  BY <1>1, <1>2, <1>3, ZenonT(40) DEF WorkerInv, Held
<1> QED
  BY <1>1, <1>2, <1>4, ZenonT(40) DEF WorkerInv, HandedOff

LEMMA RegisterInv ==
    ASSUME TypeInv, NEW w \in Workers, WorkerInv(w), Register(w)
    PROVE  WorkerInv(w)'
<1>1. /\ revision' = revision /\ handoff' = handoff
      /\ pods[w] \in Pod /\ pods'[w] \in Pod /\ pods'[w].registered
      /\ pods'[w].op = pods[w].op /\ pods'[w].phase = pods[w].phase
      /\ pods'[w].run = pods[w].run
      /\ nodes'[w].job = nodes[w].job
      /\ nodes'[w].reboot = "none" => nodes[w].reboot = "none" \/ ~pods[w].registered
  BY RegisterEffect, Zenon
<1>2. pods[w] # NoPod /\ pods'[w] # NoPod
  BY <1>1, PodsDiffer, ZenonT(40)
<1>3. Held(w) => Held(w)'
  BY <1>1, <1>2, Zenon DEF Held
<1> QED
  BY <1>1, <1>2, <1>3, ZenonT(40) DEF WorkerInv, HandedOff

LEMMA IssueRebootInv ==
    ASSUME TypeInv, NEW w \in Workers, WorkerInv(w), IssueReboot(w)
    PROVE  WorkerInv(w)'
<1>1. /\ revision' = revision /\ pods' = pods
      /\ nodes'[w].job = nodes[w].job /\ nodes'[w].reboot = "issued"
      /\ handoff'[w].pc # "off" =>
            pods[w] # NoPod /\ pods[w].run = "up" /\ pods[w].registered
            /\ nodes[w].job = "none"
  BY IssueRebootEffect, Zenon
<1>2. /\ Held(w) => Held(w)'
      /\ handoff'[w].pc # "off" => Held(w)'
  BY <1>1, Zenon DEF Held
<1> QED
  BY <1>1, <1>2, ZenonT(40) DEF WorkerInv, HandedOff

LEMMA HandoffInv ==
    ASSUME TypeInv, NEW w \in Workers, WorkerInv(w),
           get_worker_operation(w) \/ mark_ready(w) \/ HandoffRequestFails(w)
    PROVE  WorkerInv(w)'
<1>1. /\ revision' = revision /\ nodes' = nodes
      /\ handoff[w].pc # "off"
      /\ pods[w] \in Pod /\ pods'[w] \in Pod
      /\ pods'[w].op = pods[w].op /\ pods'[w].run = pods[w].run
      /\ pods'[w].registered = pods[w].registered
  BY HandoffEffect
<1>2. pods[w] # NoPod /\ pods'[w] # NoPod
  BY <1>1, PodsDiffer, Zenon
<1>3. Held(w)'
  BY <1>1, <1>2, ZenonT(40) DEF WorkerInv, Held
<1> QED
  BY <1>1, <1>2, <1>3, ZenonT(40) DEF WorkerInv, HandedOff

\* The pod a pass deletes has no job.
LEMMA DeletesEmptied ==
    ASSUME TypeInv, JobInv, PassPods, NEW w \in Workers, pods[w] # NoPod, pods'[w] = NoPod
    PROVE  nodes[w].job = "none"
<1>1. pods \in [Workers -> PodOrNone]
  BY ZenonT(40) DEF TypeInv
<1>2. ru.pc \in {"delete", "call", "label"} => First \in ru.todo /\ First \in Workers
  BY FirstInTodo, SMTT(30) DEF TypeInv, PassOK
<1>3. CASE /\ ru.pc = "delete" \/ (ru.pc = "call" /\ First \notin ru.undrain)
           /\ Deletes(First)
  <2>1. w = First
    BY <1>1, <1>2, <1>3, SMTT(30) DEF Deletes
  <2> QED
    BY <1>2, <1>3, <2>1, SMTT(30) DEF JobInv, PassInv
<1>4. CASE ru.pc = "label" /\ Labels(First)
  <2>1. PICK p : p = [pods[First] EXCEPT !.op = ru.operationID, !.phase = "stopping"]
    OBVIOUS
  <2>2. pods' = [pods EXCEPT ![First] = p] /\ pods[First] \in Pod
    BY <1>4, <2>1, SMTT(30) DEF Labels
  <2>3. p \in Pod
    BY <2>1, <2>2, ZenonT(40) DEF Pod, TypeInv, PassOK, PassRecord, OperationPhase
  <2>4. p # NoPod
    BY <2>3, PodsDiffer, ZenonT(40)
  <2> QED
    BY <1>1, <1>2, <1>4, <2>2, <2>4, SMTT(30)
<1> QED
  BY <1>3, <1>4 DEF PassPods

LEMMA UpdateStepInv ==
    ASSUME TypeInv, JobInv, UpdateStep
    PROVE  JobInv'
<1>1. /\ WorkerType /\ PassPods /\ PassNodes /\ PassOK(ru') /\ PassCalls
      /\ \A w \in Workers : handoff'[w].pc # "off" =>
                                pods'[w] # NoPod /\ handoff[w].pc # "off"
      /\ revision' = revision /\ left' = left
  BY UpdateStepEffect, ZenonT(40)
<1>2. /\ pods \in [Workers -> PodOrNone] /\ revision \in Revision
      /\ ru.operationID \in Revision
  BY DEF TypeInv, PassOK, PassRecord
<1>3. ASSUME NEW w \in Workers PROVE WorkerInv(w)'
  <2>1. /\ WorkerInv(w)
        /\ nodes'[w].job = nodes[w].job
        /\ nodes[w].reboot # "none" => nodes'[w].reboot # "none"
        /\ handoff'[w].pc # "off" => pods'[w] # NoPod /\ handoff[w].pc # "off"
    BY <1>1, Zenon DEF JobInv, PassNodes
  <2>2. CASE pods'[w] = pods[w]
    <3>1. Held(w) => Held(w)'
      BY <2>1, <2>2, ZenonT(40) DEF Held
    <3> QED
      BY <1>1, <2>1, <2>2, <3>1, ZenonT(40) DEF WorkerInv, HandedOff
  <2>3. CASE pods'[w] # pods[w] /\ pods'[w] = NoPod
    <3>1. nodes[w].job = "none"
      BY <1>1, <2>3, DeletesEmptied, Zenon
    <3> QED
      BY <2>1, <2>3, <3>1 DEF WorkerInv, HandedOff
  <2>4. CASE pods'[w] # pods[w] /\ pods'[w] # NoPod
    <3>1. ru.pc \in {"delete", "call", "label"} => First \in Workers
      BY FirstInTodo DEF TypeInv, PassOK
    <3>2. ru.pc = "label" /\ Labels(First) /\ w = First
      BY <1>1, <1>2, <2>4, <3>1 DEF PassPods, Deletes, Labels
    <3>3. PICK p : p = [pods[w] EXCEPT !.op = ru.operationID, !.phase = "stopping"]
      OBVIOUS
    <3>4. pods[w] \in Pod /\ pods' = [pods EXCEPT ![w] = p]
      BY <3>2, <3>3 DEF Labels
    <3>5. p.op = ru.operationID /\ p.phase = "stopping" /\ p.run = pods[w].run
          /\ p.registered = pods[w].registered
      BY <3>3, <3>4 DEF Pod
    <3>6. pods'[w] = p /\ pods[w] # NoPod
      BY <1>2, <3>4, PodsDiffer, ZenonT(40)
    <3>7. Held(w) => Held(w)'
      BY <2>1, <2>4, <3>5, <3>6, ZenonT(40) DEF Held
    <3>8. p.op <= revision
      BY <3>5 DEF JobInv, PassInv
    <3> QED
      BY <1>1, <2>1, <2>4, <3>5, <3>6, <3>7, <3>8, ZenonT(40) DEF WorkerInv, HandedOff
  <2> QED
    BY <2>2, <2>3, <2>4
<1>4. ru'.operationID <= revision
  BY <1>1, <1>2, Constants DEF PassCalls, JobInv, PassInv
<1>5. ru'.todo \subseteq Workers /\ ru.todo \subseteq Workers
  BY <1>1, Zenon DEF PassOK, PassRecord, TypeInv
<1>6. \A w \in Workers : nodes'[w].job = nodes[w].job
  BY <1>1, Zenon DEF PassNodes
<1>7. \A w \in Finished(revision) \cup InitCrashing(revision) : nodes[w].job = "none"
  BY Zenon DEF Finished, InitCrashing, filterOutdatedPods, workerOperationPhase, JobInv,
         WorkerInv, HandedOff, Held
<1>8. ru'.pc = "delete" => \A w \in ru'.todo : nodes'[w].job = "none"
  BY <1>1, <1>5, <1>6, <1>7, ZenonT(40) DEF PassCalls, JobInv, PassInv
<1>9. ru'.pc = "call" => \A w \in ru'.todo \ ru'.undrain : nodes'[w].job = "none"
  BY <1>1, <1>5, <1>6 DEF PassCalls, JobInv, PassInv
<1> QED
  BY <1>1, <1>3, <1>4, <1>8, <1>9, SMTT(30) DEF JobInv, PassInv

\* A new revision: what was handed off for the old one no longer counts.
LEMMA ChangeTemplateInv ==
    ASSUME TypeInv, JobInv, ChangeTemplate
    PROVE  \A w \in Workers : WorkerInv(w)'
<1>1. /\ pods' = pods /\ nodes' = nodes /\ handoff' = handoff
      /\ revision \in Nat /\ revision' = revision + 1
      /\ pods \in [Workers -> PodOrNone]
  BY Constants, ZenonT(40) DEF ChangeTemplate, TypeInv
<1>2. ASSUME NEW w \in Workers PROVE WorkerInv(w)'
  <2>1. WorkerInv(w)
    BY DEF JobInv
  <2>2. pods[w] # NoPod => pods[w].op \in Int
    <3>1. pods[w] # NoPod => pods[w] \in Pod
      BY <1>1, IsPod, SMTT(30)
    <3>2. \A p \in Pod : p.op \in Revision \cup {NoOperation}
      BY DEF Pod
    <3>3. Revision \cup {NoOperation} \subseteq Int
      BY Constants, SMTT(30)
    <3> QED
      BY <3>1, <3>2, <3>3, SMTT(30)
  <2>3. pods'[w] # NoPod => pods'[w].op <= revision' /\ ~HandedOff(w)'
    BY <1>1, <2>1, <2>2, SMTT(30) DEF WorkerInv, HandedOff
  <2> QED
    BY <1>1, <2>1, <2>3, SMTT(30) DEF WorkerInv, Held, HandedOff
<1> QED
  BY <1>2

LEMMA JobStep == PromptPass /\ TypeInv /\ JobInv /\ [Next]_vars => JobInv'
<1> SUFFICES ASSUME PromptPass, TypeInv, JobInv, [Next]_vars PROVE JobInv'
  OBVIOUS
<1>0. /\ \A w \in Workers : WorkerInv(w)
      /\ PassInv /\ left["stale"] = 0 /\ left \in [Bounds -> Nat] /\ "stale" \in Bounds
  BY DEF JobInv, TypeInv, Bounds
<1>1. ASSUME left' \in [Bounds -> Nat], \A b \in Bounds : left'[b] <= left[b]
      PROVE  left'["stale"] = 0
  BY <1>0, <1>1, SMTT(30)
<1>2. CASE ChangeTemplate
  <2>1. left' \in [Bounds -> Nat] /\ \A b \in Bounds : left'[b] <= left[b]
    BY <1>0, <1>2, SpendKeepsType, SMTT(30) DEF ChangeTemplate, Spend
  <2>2. \A w \in Workers : WorkerInv(w)'
    BY <1>2, ChangeTemplateInv, ZenonT(40)
  <2>3. /\ ru.operationID \in Nat /\ revision \in Nat
        /\ ru' = ru /\ nodes' = nodes /\ revision' = revision + 1
    BY <1>2, Constants, ZenonT(40) DEF ChangeTemplate, TypeInv, PassOK, PassRecord
  <2>4. PassInv'
    BY <1>0, <2>3 DEF PassInv
  <2> QED
    BY <1>1, <2>1, <2>2, <2>4, SMTT(30) DEF JobInv
<1>3. CASE UpdateStep
  BY <1>3, UpdateStepInv
<1>4. CASE StalePass
  BY <1>0, <1>4, SMTT(30) DEF StalePass, Trouble, SpendAll
<1>5. CASE Fault
  <2>1. left'["stale"] = 0
    BY <1>1, <1>5, FaultEffect, SMTT(30)
  <2>2. CASE ru' = Idle /\ UNCHANGED <<workerVars, handoff>>
    <3>1. \A w \in Workers : WorkerInv(w)'
      BY <1>0, <2>2 DEF WorkerInv, Held, HandedOff, workerVars
    <3>2. revision \in Nat /\ revision' = revision
      BY <2>2, Constants, ZenonT(40) DEF TypeInv, workerVars
    <3>3. PassInv'
      BY <2>2, <3>2, SMTT(30) DEF PassInv, Idle
    <3> QED
      BY <2>1, <3>1, <3>3, ZenonT(40) DEF JobInv
  <2>3. ASSUME NEW w \in Workers, HandoffRequestFails(w), UNCHANGED ru PROVE JobInv'
    <3>1. OnlyWorker(w) /\ revision' = revision /\ nodes' = nodes
      BY <2>3, HandoffEffect
    <3>2. WorkerInv(w)'
      BY <1>0, <2>3, HandoffInv, ZenonT(40)
    <3>3. PassInv'
      BY <1>0, <2>3, <3>1, PassKeepsInv, SMTT(30)
    <3> QED
      BY <1>0, <2>1, <3>1, <3>2, <3>3, OthersKeepInv, ZenonT(40) DEF JobInv
  <2> QED
    BY <1>5, <2>2, <2>3, FaultEffect, SMTT(30)
<1>6. ASSUME NEW w \in Workers,
             RecreatePod(w) \/ PodUp(w) \/ Fail(w) \/ Return(w)
      PROVE  JobInv'
  <2>1. /\ OnlyWorker(w) /\ nodes' = nodes /\ revision' = revision /\ ru' = ru
        /\ left' \in [Bounds -> Nat] /\ \A b \in Bounds : left'[b] <= left[b]
    BY <1>6, PodActionEffect, ZenonT(40)
  <2>2. WorkerInv(w)'
    BY <1>0, <1>6, PodActionInv
  <2>3. PassInv'
    BY <1>0, <2>1, PassKeepsInv, ZenonT(40)
  <2> QED
    BY <1>0, <1>1, <2>1, <2>2, <2>3, OthersKeepInv, ZenonT(40) DEF JobInv
<1>7. ASSUME NEW w \in Workers,
             StartJob(w) \/ EndJob(w) \/ Silent(w) \/ RebootTimesOut(w)
      PROVE  JobInv'
  <2>1. /\ OnlyWorker(w) /\ UNCHANGED <<pods, revision, status, handoff, ru, left>>
        /\ nodes'[w].job # "none" => nodes[w].job # "none" \/ StartJob(w)
    BY <1>7, NodeActionEffect, ZenonT(40)
  <2>2. WorkerInv(w)'
    BY <1>0, <1>7, NodeActionInv
  <2>3. PassInv'
    <3>1. CASE StartJob(w)
      <4>1. ru.pc \notin {"call", "delete"}
        BY <3>1, ZenonT(40) DEF StartJob
      <4> QED
        BY <1>0, <2>1, <4>1 DEF PassInv
    <3>2. CASE ~StartJob(w)
      <4>1. \A v \in Workers : nodes[v].job = "none" => nodes'[v].job = "none"
        BY <2>1, <3>2, Zenon DEF OnlyWorker
      <4> QED
        BY <1>0, <2>1, <4>1, PassKeepsInv, SMTT(30)
    <3> QED
      BY <3>1, <3>2, ZenonT(40)
  <2> QED
    BY <1>0, <2>1, <2>2, <2>3, OthersKeepInv, ZenonT(40) DEF JobInv
<1>8. ASSUME NEW w \in Workers, Register(w) \/ IssueReboot(w) PROVE JobInv'
  <2>1. /\ OnlyWorker(w) /\ UNCHANGED <<revision, ru, left>>
        /\ nodes'[w].job = nodes[w].job
    BY <1>8, RegisterEffect, IssueRebootEffect, SMTT(30)
  <2>2. WorkerInv(w)'
    BY <1>0, <1>8, RegisterInv, IssueRebootInv
  <2>3. \A v \in Workers : nodes[v].job = "none" => nodes'[v].job = "none"
    BY <2>1, ZenonT(40) DEF OnlyWorker
  <2>4. PassInv'
    BY <1>0, <2>1, <2>3, PassKeepsInv, SMTT(30)
  <2> QED
    BY <1>0, <2>1, <2>2, <2>4, OthersKeepInv, ZenonT(40) DEF JobInv
<1>9. ASSUME NEW w \in Workers, HandoffStep(w) PROVE JobInv'
  <2>1. UNCHANGED <<ru, left>> /\ (get_worker_operation(w) \/ mark_ready(w))
    BY <1>9, ZenonT(40) DEF HandoffStep
  <2>2. OnlyWorker(w) /\ revision' = revision /\ nodes' = nodes
    BY <2>1, HandoffEffect
  <2>3. WorkerInv(w)'
    BY <1>0, <2>1, HandoffInv, ZenonT(40)
  <2>4. PassInv'
    BY <1>0, <2>1, <2>2, PassKeepsInv, ZenonT(40)
  <2> QED
    BY <1>0, <2>1, <2>2, <2>3, <2>4, OthersKeepInv, SMTT(30) DEF JobInv
<1>10. CASE UNCHANGED vars
  <2>1. UNCHANGED <<pods, nodes, revision, handoff, ru, left>>
    BY <1>10 DEF vars, workerVars
  <2> QED
    BY <1>0, <2>1, ZenonT(40) DEF JobInv, WorkerInv, Held, HandedOff, PassInv
<1> QED
  BY <1>2, <1>3, <1>4, <1>5, <1>6, <1>7, <1>8, <1>9, <1>10, SMTT(30) DEF Next

LEMMA JobInit == Init /\ (\A s \in Scenarios : s["stale"] = 0) => JobInv
<1> SUFFICES ASSUME Init, \A s \in Scenarios : s["stale"] = 0 PROVE JobInv
  BY Zenon
<1>1. ASSUME NEW w \in Workers PROVE WorkerInv(w)
  <2>1. /\ pods[w].op = NoOperation /\ pods[w].run = "up" /\ nodes[w].job = "none"
        /\ handoff[w].pc = "off" /\ revision = 0
    BY DEF Init, WorkerInit, HandoffInit, Off
  <2> QED
    BY <2>1, Constants, SMTT(30) DEF WorkerInv, HandedOff
<1>2. PassInv
  <2>1. ru.pc = "idle" /\ ru.operationID = 0 /\ revision = 0
    BY DEF Init, WorkerInit, RollingUpdateInit, Idle
  <2> QED
    BY <2>1, SMTT(30) DEF PassInv
<1>3. left["stale"] = 0
  BY Zenon DEF Init
<1> QED
  BY <1>1, <1>2, <1>3 DEF JobInv

\* Only a pass deletes pods.
LEMMA JobsSurvive ==
    ASSUME TypeInv, JobInv, [Next]_vars, NEW w \in Workers, Exists(w), pods'[w] = NoPod
    PROVE  nodes[w].job = "none"
<1>0. pods[w] # NoPod
  BY Zenon DEF Exists
<1>1. CASE UpdateStep
  BY <1>0, <1>1, UpdateStepEffect, DeletesEmptied, ZenonT(40)
<1>2. CASE ChangeTemplate \/ StalePass \/ UNCHANGED vars
  BY <1>0, <1>2, ZenonT(40) DEF ChangeTemplate, StalePass, Reconcile, vars, workerVars
<1>3. ASSUME NEW v \in Workers,
             \/ RecreatePod(v) \/ PodUp(v) \/ Fail(v) \/ Return(v)
             \/ Register(v) \/ HandoffRequestFails(v) \/ HandoffStep(v)
      PROVE  FALSE
  <2>1. OnlyWorker(v) /\ pods'[v] \in Pod
    BY <1>3, PodActionEffect, RegisterEffect, HandoffEffect, SMTT(30) DEF HandoffStep
  <2> QED
    BY <1>0, <2>1, PodsDiffer, ZenonT(40) DEF OnlyWorker
<1>4. ASSUME NEW v \in Workers,
             \/ StartJob(v) \/ EndJob(v) \/ Silent(v) \/ RebootTimesOut(v)
             \/ IssueReboot(v)
      PROVE  FALSE
  <2>1. pods' = pods
    BY <1>4, Zenon DEF StartJob, EndJob, Silent, RebootTimesOut, IssueReboot
  <2> QED
    BY <1>0, <2>1, Zenon
<1>5. CASE Fault
  BY <1>0, <1>3, <1>5, FaultEffect, ZenonT(40) DEF workerVars
<1> QED
  BY <1>1, <1>2, <1>3, <1>4, <1>5, ZenonT(40) DEF Next

\* The rolling update deletes a pod only when its Slurm node has no job, for any
\* number of workers, template changes, faults, crashes and returns; when passes
\* read a current status and make their calls before slurmd is back.
THEOREM JobsSurviveTheUpdate ==
    ASSUME PromptPass, \A s \in Scenarios : s["stale"] = 0
    PROVE  Spec => JobsSurviveUpdate
<1>1. Init => JobInv
  BY JobInit
<1>2. TypeInv /\ JobInv /\ [Next]_vars => JobInv'
  BY JobStep, Zenon
<1>3. TypeInv /\ JobInv /\ [Next]_vars =>
         [\A w \in Workers : Exists(w) /\ pods'[w] = NoPod => nodes[w].job = "none"]_vars
  BY JobsSurvive
<1> QED
  BY <1>1, <1>2, <1>3, TypeInvariant, PTL DEF Spec, JobsSurviveUpdate

-----------------------------------------------------------------------------
\* With one change of the template and fewer faults than a handoff has attempts,
\* wherever calls fail and the operator restarts, no more workers are down or on
\* their way to a reboot than maxUnavailable allows: the slots a pass gives out
\* and the workers it finds disrupted never exceed rebootBudget together.
THEOREM BudgetIsKept == Spec /\ OneQuietChange => []WithinBudget
<1>1. Init /\ OneQuietChange => BudgetInv
  BY BudgetInit
<1>2. TypeInv /\ TypeInv' /\ BudgetInv /\ [Next]_vars => BudgetInv'
  BY BudgetStep
<1>3. TypeInv /\ BudgetInv => WithinBudget
  <2> SUFFICES ASSUME TypeInv, BudgetInv PROVE WithinBudget
    OBVIOUS
  <2>1. Disrupted \cup ru.picked \in SUBSET Workers
    BY DEF Disrupted, TypeInv, PassOK, PassRecord
  <2>2. /\ Cardinality(Disrupted) <= Cardinality(Disrupted \cup ru.picked)
        /\ Cardinality(Disrupted) \in Nat /\ Cardinality(Disrupted \cup ru.picked) \in Nat
    BY <2>1, CountShrinks
  <2>3. rebootBudget \in Int
    BY WorkerAssumption, BudgetAssumption DEF rebootBudget
  <2> QED
    BY <2>2, <2>3 DEF BudgetInv, CountInv, WithinBudget
<1> QED
  BY <1>1, <1>2, <1>3, TypeInvariant, PTL DEF Spec
=============================================================================
