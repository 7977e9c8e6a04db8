-------------------------- MODULE UpdateBudgetProofs --------------------------
(***************************************************************************)
(* The rolling update keeps within maxUnavailable, for any number of       *)
(* workers and any budget: one change of the template, and fewer failed    *)
(* calls and restarts than the attempts of the handoff.  The inductive     *)
(* type invariant of WorkerUpdate is here too.                             *)
(***************************************************************************)
EXTENDS WorkerUpdate, FiniteSetTheorems, WellFoundedInduction, TLAPS

-----------------------------------------------------------------------------
(* The inductive type invariant, and what an action of one worker leaves.  *)

PodOrNone == Pod \cup {NoPod}

PassRecord == [pc : {"idle", "delete", "list", "cleanup", "call", "label", "reboot"},
               operationID : Revision, ready : 0 .. Replicas,
               pods : {<<>>} \cup [Workers -> PodOrNone],
               todo : SUBSET Workers, undrain : SUBSET Workers, picked : SUBSET Workers]

Status == [revision : Revision, ready : 0 .. Replicas, updated : 0 .. Replicas]

HandoffRecord == [pc : {"off", "get", "patch"}, op : Revision \cup {NoOperation},
                  attempt : 0 .. MaxAttempts]

\* A pass has a next call while it says so, and has read the pods it labels.
PassOK(r) ==
    /\ r \in PassRecord
    /\ r.pc \in {"delete", "list", "cleanup", "call", "label"} => r.todo # {}
    /\ r.pc \in {"delete", "cleanup"} => r.picked = {}
    /\ r.pc = "list" => \A w \in r.todo : r.pods[w] \in Pod
    /\ r.pc \in {"call", "label"} => \A w \in r.picked : r.pods[w] \in Pod
    /\ r.pc = "label" => r.todo \subseteq r.picked

\* The inductive strengthening of TypeOK.
TypeInv ==
    /\ pods \in [Workers -> PodOrNone]
    /\ nodes \in [Workers -> SlurmNode]
    /\ revision \in Revision
    /\ status \in Status
    /\ handoff \in [Workers -> HandoffRecord]
    /\ PassOK(ru)
    /\ left \in [Bounds -> Nat]

\* Actions of one worker's pod and node change nothing of the others'.
OnlyWorker(w) ==
    \A v \in Workers \ {w} : /\ pods'[v] = pods[v] /\ nodes'[v] = nodes[v]
                             /\ handoff'[v] = handoff[v]

-----------------------------------------------------------------------------
(* The invariant of the budget.                                            *)

\* A second change of the template, a failing pod, an old status or a handoff
\* that gives up each let the update take down more workers than it counts.
OneQuietChange ==
    \A s \in Scenarios : /\ s["changes"] <= 1 /\ s["crashes"] = 0 /\ s["stale"] = 0
                         /\ s["faults"] < MaxAttempts

BoundsInv ==
    /\ revision + left["changes"] <= 1
    /\ left["crashes"] = 0 /\ left["stale"] = 0 /\ left["faults"] < MaxAttempts

\* A worker that still has its first pod.
Old(w) == pods[w] # NoPod /\ pods[w].rev = 0

\* Until its reboot is requested its pod and node are as they were, but for the
\* label; then the label stays, and the reboot ends with the handoff.
OldInv(w) ==
    /\ pods[w].run = "up" /\ pods[w].registered /\ nodes[w].responding
    /\ nodes[w].reboot = "none" =>
          ~nodes[w].down /\ ~nodes[w].drain /\ pods[w].phase # "ready"
    /\ nodes[w].reboot # "none" =>
          /\ revision = 1 /\ pods[w].op = 1 /\ pods[w].phase \in {"stopping", "ready"}
          /\ nodes[w].reason = "update"
    /\ nodes[w].reboot = "requested" => ~nodes[w].down /\ pods[w].phase = "stopping"
    /\ nodes[w].reboot = "issued" => handoff[w].pc # "off" \/ pods[w].phase = "ready"

\* The reboot of a worker whose pod has been deleted lasts until its new pod
\* has registered.
NewInv(w) ==
    /\ revision = 1
    /\ pods[w] # NoPod => pods[w].rev = 1 /\ pods[w].run \in {"starting", "up"}
    /\ pods[w] # NoPod /\ pods[w].registered =>
          pods[w].run = "up" /\ nodes[w].reboot = "none"
    /\ pods[w] = NoPod \/ ~pods[w].registered => nodes[w].reboot = "issued"

\* The program runs for the present reboot and has attempts left for every
\* call that may fail.
ProgramInv(w) ==
    handoff[w].pc # "off" =>
        /\ Old(w) /\ nodes[w].reboot = "issued"
        /\ handoff[w].attempt + left["faults"] <= MaxAttempts
        /\ handoff[w].op \in {NoOperation, 1}
        /\ handoff[w].pc = "patch" => handoff[w].op = 1 /\ pods[w].phase = "stopping"

StageInv(w) ==
    /\ Old(w) => OldInv(w)
    /\ ~Old(w) => NewInv(w)
    /\ ProgramInv(w)

Labelled(p) == p.op = 1 /\ p.phase = "stopping"

\* A pass deletes only first pods whose reboot Slurm has issued, and undrains
\* only others.
DeletesInv ==
    /\ ru.pc \in {"delete", "call"} =>
          \A w \in ru.todo : IF w \in ru.undrain THEN ~Old(w)
                             ELSE Old(w) /\ nodes[w].reboot = "issued"
    /\ ru.pc = "delete" => ru.undrain = {}

\* It lists the nodes for all the first pods.  Pods it has read as ready still
\* are, and the ones it may reboot are as they were.
ListInv ==
    ru.pc = "list" =>
        /\ ru.operationID = 1 /\ revision = 1
        /\ ru.todo = {w \in Workers : Old(w)}
        /\ ru.ready = Cardinality({w \in Workers : podReady(ru.pods[w])})
        /\ \A w \in Workers : podReady(ru.pods[w]) => podReady(pods[w])
        /\ \A w \in Workers : Old(w) =>
              /\ ru.pods[w].run = "up"
              /\ nodes[w].reboot = "none" => ru.pods[w] = pods[w]

\* It requests reboots only of workers that have none and that it has labelled.
PickedInv ==
    /\ ru.pc \in {"idle", "delete", "list", "cleanup"} => ru.picked = {}
    /\ \A w \in ru.picked :
          /\ Old(w) /\ nodes[w].reboot = "none" /\ revision = 1
          /\ ru.pc \in {"call", "label"} => ru.operationID = 1
          /\ ru.pc = "call" \/ (ru.pc = "label" /\ w \in ru.todo) =>
                ru.pods[w] = pods[w]
          /\ ru.pc = "reboot" \/ (ru.pc = "label" /\ w \notin ru.todo) =>
                Labelled(pods[w])

\* Workers that are to be rebooted have their place in the budget.
CountInv == Cardinality(Disrupted \cup ru.picked) <= rebootBudget

\* The inductive strengthening of WithinBudget.
BudgetInv ==
    /\ BoundsInv
    /\ \A w \in Workers : StageInv(w)
    /\ DeletesInv /\ ListInv /\ PickedInv
    /\ CountInv

-----------------------------------------------------------------------------
(* Counting.                                                               *)

LEMMA Constants ==
    /\ Replicas \in Nat /\ Workers \subseteq Nat
    /\ Revision \subseteq Nat /\ 0 \in Revision /\ NoOperation = -1
    /\ MaxAttempts \in Nat /\ MaxAttempts >= 1
  BY WorkerAssumption, HandoffAssumption DEF Workers, Revision, NoOperation

LEMMA PodsDiffer == \A p \in Pod : p # NoPod /\ p.rev # NoOperation
<1>1. \A p \in Pod : p.rev # NoOperation
  BY Constants DEF Pod
<1>2. NoPod.rev = NoOperation
  BY DEF NoPod
<1> QED
  BY <1>1, <1>2

LEMMA HasMin ==
    ASSUME NEW S \in SUBSET Nat, S # {}
    PROVE  Min(S) \in S
<1> DEFINE R == OpToRel(<, Nat)
<1>1. IsWellFoundedOn(R, Nat)
  BY NatLessThanWellFounded, Zenon
<1> HIDE DEF R
<1>2. PICK m \in S : \A x \in S : <<x, m>> \notin R
  BY <1>1, WFMin, Zenon
<1>3. \A x \in S : ~(x < m)
  <2>1. S \subseteq Nat
    OBVIOUS
  <2> QED
    BY <1>2, <2>1, Zenon DEF R, OpToRel
<1>4. \E m1 \in S : \A x \in S : m1 <= x
  <2>1. \A x \in S : m <= x
    BY <1>3
  <2> QED
    BY <2>1
<1> QED
  BY <1>4, Zenon DEF Min

LEMMA FirstInTodo ==
    ASSUME PassOK(ru), ru.todo # {}
    PROVE  First \in ru.todo /\ First \in Workers
<1>1. ru.todo \subseteq Workers /\ ru.todo \subseteq Nat
  BY Constants, Zenon DEF PassOK, PassRecord
<1> QED
  BY <1>1, HasMin DEF First

LEMMA CountWorkers ==
    ASSUME NEW S \in SUBSET Workers
    PROVE  Cardinality(S) \in 0 .. Replicas
<1>1. IsFiniteSet(Workers) /\ Cardinality(Workers) = Replicas
  BY Constants, FS_Interval DEF Workers
<1>2. Cardinality(S) \in Nat /\ Cardinality(S) <= Cardinality(Workers)
  BY <1>1, FS_Subset, FS_CardinalityType
<1> QED
  BY <1>1, <1>2, Constants

LEMMA IsPod ==
    ASSUME pods \in [Workers -> PodOrNone], NEW w \in Workers, pods[w] # NoPod
    PROVE  pods[w] \in Pod
  BY DEF PodOrNone

LEMMA WorkersFinite == IsFiniteSet(Workers) /\ Cardinality(Workers) = Replicas
  BY Constants, FS_Interval DEF Workers

LEMMA CountShrinks ==
    ASSUME NEW S \in SUBSET Workers, NEW T \in SUBSET S
    PROVE  /\ IsFiniteSet(S) /\ IsFiniteSet(T)
           /\ Cardinality(S) \in Nat /\ Cardinality(T) \in Nat
           /\ Cardinality(T) <= Cardinality(S)
<1>1. IsFiniteSet(S)
  BY WorkersFinite, FS_Subset
<1> QED
  BY <1>1, FS_Subset, FS_CardinalityType

LEMMA CountUnion ==
    ASSUME NEW S \in SUBSET Workers, NEW T \in SUBSET Workers
    PROVE  Cardinality(S \cup T) <= Cardinality(S) + Cardinality(T)
<1>1. IsFiniteSet(S) /\ IsFiniteSet(T)
  BY WorkersFinite, FS_Subset
<1>2. /\ Cardinality(S \cup T) = Cardinality(S) + Cardinality(T) - Cardinality(S \cap T)
      /\ IsFiniteSet(S \cap T)
  BY <1>1, FS_Union, FS_Intersection
<1>3. Cardinality(S) \in Nat /\ Cardinality(T) \in Nat /\ Cardinality(S \cap T) \in Nat
  BY <1>1, <1>2, FS_CardinalityType
<1> QED
  BY <1>2, <1>3

LEMMA CountComplement ==
    ASSUME NEW S \in SUBSET Workers
    PROVE  Cardinality(Workers \ S) = Replicas - Cardinality(S)
<1>1. Cardinality(Workers \ S) = Cardinality(Workers) - Cardinality(Workers \cap S)
  BY WorkersFinite, FS_Difference, Zenon
<1>2. Workers \cap S = S
  OBVIOUS
<1> QED
  BY <1>1, <1>2, WorkersFinite

LEMMA HasGreatest ==
    ASSUME NEW S \in SUBSET Workers, S # {}
    PROVE  \E m \in S : \A x \in S : x <= m
<1> DEFINE R == OpToRel(<, Nat)
           B == {n \in Nat : \A x \in S : x <= n}
<1>1. IsWellFoundedOn(R, Nat)
  BY NatLessThanWellFounded, Zenon
<1>2. Replicas \in B /\ B \subseteq Nat /\ S \subseteq Nat
  BY Constants DEF Workers
<1>3. \A x \in S : x >= 1
  BY Constants DEF Workers
<1> HIDE DEF R
<1>4. PICK m \in B : \A x \in B : <<x, m>> \notin R
  <2>1. B # {} /\ B \in SUBSET Nat
    BY <1>2
  <2> HIDE DEF B
  <2> QED
    BY <1>1, <2>1, WFMin, Zenon
<1>5. \A x \in B : ~(x < m)
  BY <1>2, <1>4, Zenon DEF R, OpToRel
<1>6. m \in S
  <2> SUFFICES ASSUME m \notin S PROVE FALSE
    OBVIOUS
  <2>1. m \in Nat /\ \A x \in S : x <= m
    BY <1>4
  <2>2. \A x \in S : x <= m - 1 /\ m - 1 \in Nat
    BY <1>2, <1>3, <2>1
  <2>3. m - 1 \in B
    BY <2>2
  <2> HIDE DEF B
  <2> QED
    BY <1>5, <2>1, <2>3
<1> QED
  BY <1>4, <1>6

\* No more workers are picked than there are slots.
LEMMA FirstOfCount ==
    ASSUME NEW S \in SUBSET Workers, NEW k \in Int
    PROVE  /\ FirstOf(S, k) \in SUBSET S
           /\ FirstOf(S, k) = {} \/ Cardinality(FirstOf(S, k)) <= k
<1> DEFINE F == FirstOf(S, k)
           below(w) == {v \in S : v < w}
<1>1. F \in SUBSET S /\ F \in SUBSET Workers
  BY DEF FirstOf
<1>2. \A w \in F : Cardinality(below(w)) < k
  BY DEF FirstOf
<1>3. ASSUME F # {} PROVE Cardinality(F) <= k
  <2> HIDE DEF F
  <2>1. PICK m \in F : \A x \in F : x <= m
    BY <1>1, <1>3, HasGreatest
  <2>2. below(m) \in SUBSET Workers /\ {m} \in SUBSET Workers
    BY <1>1
  <2>3. F \subseteq below(m) \cup {m}
    <3>1. \A x \in F : x \in S /\ x \in Nat /\ (x < m \/ x = m)
      BY <1>1, <2>1, Constants
    <3> QED
      BY <3>1
  <2>4. Cardinality(below(m)) < k
    BY <1>2
  <2> HIDE DEF below
  <2>5. Cardinality(F) <= Cardinality(below(m) \cup {m})
    BY <2>2, <2>3, CountShrinks
  <2>6. Cardinality(below(m) \cup {m}) <= Cardinality(below(m)) + Cardinality({m})
    BY <2>2, CountUnion
  <2>7. Cardinality({m}) = 1
    BY FS_Singleton
  <2>8. Cardinality(F) \in Nat /\ Cardinality(below(m)) \in Nat
        /\ Cardinality(below(m) \cup {m}) \in Nat
    BY <1>1, <2>2, CountWorkers
  <2> QED
    BY <2>4, <2>5, <2>6, <2>7, <2>8
<1> QED
  BY <1>1, <1>3

-----------------------------------------------------------------------------
(* Steps of one worker, outside the passes.                                *)

\* What they leave of the facts a pass relies on.
WorkerMoves(w) ==
    /\ Old(w)' <=> Old(w)
    /\ Old(w) /\ nodes[w].reboot = "none" =>
          pods'[w] = pods[w] /\ nodes'[w].reboot = "none"
    /\ Old(w) /\ nodes[w].reboot = "issued" => nodes'[w].reboot = "issued"
    /\ Old(w) /\ nodes'[w].reboot = "none" => nodes[w].reboot = "none"
    /\ podReady(pods[w]) => podReady(pods'[w])
    /\ w \in Disrupted' => w \in Disrupted

LEMMA WorkerTypes ==
    ASSUME TypeInv, NEW w \in Workers
    PROVE  /\ pods \in [Workers -> PodOrNone] /\ nodes \in [Workers -> SlurmNode]
           /\ handoff \in [Workers -> HandoffRecord]
           /\ nodes[w] \in SlurmNode /\ handoff[w] \in HandoffRecord
           /\ pods[w] # NoPod => pods[w] \in Pod
           /\ nodes[w].reboot \in {"none", "requested", "issued"}
           /\ left \in [Bounds -> Nat] /\ revision \in Nat
           /\ ru \in PassRecord /\ PassOK(ru)
<1>1. /\ pods \in [Workers -> PodOrNone] /\ nodes \in [Workers -> SlurmNode]
      /\ handoff \in [Workers -> HandoffRecord] /\ left \in [Bounds -> Nat]
      /\ revision \in Revision /\ PassOK(ru) /\ ru \in PassRecord
  BY Zenon DEF TypeInv, PassOK
<1>2. nodes[w] \in SlurmNode /\ handoff[w] \in HandoffRecord
  BY <1>1
<1>3. nodes[w].reboot \in {"none", "requested", "issued"}
  BY <1>2 DEF SlurmNode
<1>4. pods[w] # NoPod => pods[w] \in Pod
  BY <1>1, IsPod
<1>5. revision \in Nat
  BY <1>1, Constants
<1> QED
  BY <1>1, <1>2, <1>3, <1>4, <1>5, Zenon

\* What the program may do to the pod it runs for: mark it ready, once.
MarksReady(w) ==
    /\ pods[w].phase = "stopping"
    /\ pods' = [pods EXCEPT ![w].phase = "ready"]

\* A step of a worker: a pod never fails, returns or is given up, for crashes are
\* not allowed for, and whatever else happens in it moves the worker on.
LEMMA WorkerSteps ==
    ASSUME TypeInv, BoundsInv, NEW w \in Workers, StageInv(w)
    PROVE  /\ ~Fail(w) /\ ~Return(w) /\ ~RebootTimesOut(w)
           /\ \/ RecreatePod(w) \/ PodUp(w) \/ StartJob(w) \/ EndJob(w) \/ Silent(w)
              \/ Register(w) \/ IssueReboot(w) \/ HandoffStep(w)
              \/ HandoffRequestFails(w) /\ Trouble("faults")
              => StageInv(w)' /\ WorkerMoves(w) /\ OnlyWorker(w)
<1>1. ASSUME RecreatePod(w)
      PROVE  StageInv(w)' /\ WorkerMoves(w) /\ OnlyWorker(w)
  <2> USE <1>1
  <2>1. /\ pods[w] = NoPod /\ pods' = [pods EXCEPT ![w] = NewPod]
        /\ UNCHANGED <<nodes, revision, handoff>>
    BY DEF RecreatePod, Exists
  <2>2. ~Old(w)
    BY <2>1, Zenon DEF Old
  <2>3. revision = 1 /\ nodes[w].reboot = "issued" /\ handoff[w].pc = "off"
    BY <2>1, <2>2, Zenon DEF StageInv, NewInv, ProgramInv
  <2>4. /\ NewPod.rev = revision /\ NewPod.run = "starting" /\ NewPod.registered = FALSE
        /\ NewPod # NoPod
    <3>1. NewPod.rev = revision /\ NewPod.run = "starting" /\ NewPod.registered = FALSE
      BY Zenon DEF NewPod
    <3>2. NoPod.rev = -1
      BY Zenon DEF NoPod, NoOperation
    <3> QED
      BY <2>3, <3>1, <3>2
  <2> HIDE DEF NewPod
  <2>5. /\ pods'[w] = NewPod /\ OnlyWorker(w) /\ nodes' = nodes /\ revision' = revision
        /\ handoff' = handoff
    BY <2>1, WorkerTypes DEF OnlyWorker
  <2>6. ~Old(w)'
    BY <2>3, <2>4, <2>5 DEF Old
  <2>7. StageInv(w)'
    BY <2>3, <2>4, <2>5, <2>6, Zenon DEF StageInv, NewInv, ProgramInv
  <2>8. w \in Disrupted /\ ~podReady(pods[w])
    BY <2>1, Zenon DEF Disrupted, podReady
  <2> QED
    BY <2>2, <2>5, <2>6, <2>7, <2>8, ZenonT(40) DEF WorkerMoves
<1>2. ASSUME PodUp(w)
      PROVE  StageInv(w)' /\ WorkerMoves(w) /\ OnlyWorker(w)
  <2> USE <1>2
  <2>1. /\ pods[w] # NoPod /\ pods[w].run = "starting"
        /\ pods' = [pods EXCEPT ![w].run = "up"]
        /\ UNCHANGED <<nodes, revision, handoff>>
    BY DEF PodUp, Exists
  <2>2. ~Old(w)
    BY <2>1, Zenon DEF StageInv, OldInv
  <2>3. /\ revision = 1 /\ pods[w].rev = 1 /\ pods[w].registered = FALSE
        /\ nodes[w].reboot = "issued" /\ handoff[w].pc = "off"
    <3>1. pods[w].registered \in BOOLEAN
      BY <2>1, WorkerTypes DEF Pod
    <3> QED
      BY <2>1, <2>2, <3>1, Zenon DEF StageInv, NewInv, ProgramInv
  <2>4. PICK p : p = [pods[w] EXCEPT !.run = "up"]
    BY Zenon
  <2>5. p \in Pod /\ p.rev = 1 /\ p.run = "up" /\ p.registered = FALSE
    <3>1. pods[w] \in Pod
      BY <2>1, WorkerTypes
    <3> QED
      BY <2>3, <2>4, <3>1, ZenonT(40) DEF Pod, PodRun
  <2>6. pods'[w] = p /\ OnlyWorker(w) /\ nodes' = nodes /\ revision' = revision
        /\ handoff' = handoff /\ p # NoPod
    BY <2>1, <2>4, <2>5, WorkerTypes, PodsDiffer, SMTT(30) DEF OnlyWorker
  <2>7. ~Old(w)'
    BY <2>5, <2>6 DEF Old
  <2>8. StageInv(w)'
    BY <2>3, <2>5, <2>6, <2>7, Zenon DEF StageInv, NewInv, ProgramInv
  <2>9. w \in Disrupted
    BY <2>1 DEF Disrupted, podReady
  <2>10. ~podReady(pods[w])
    BY <2>1 DEF podReady
  <2> QED
    BY <2>2, <2>6, <2>7, <2>8, <2>9, <2>10, ZenonT(40) DEF WorkerMoves
\* A pod fails only where crashes are allowed for, and returns only if failed.
<1>3. ~Fail(w) /\ ~Return(w)
  <2>1. ~Fail(w)
    <3>1. Fail(w) => left["crashes"] > 0
      BY DEF Fail, Trouble, SpendAll
    <3> QED
      BY <3>1 DEF BoundsInv
  <2>2. pods[w] # NoPod => pods[w].run \in {"starting", "up"}
    BY Zenon DEF StageInv, OldInv, NewInv
  <2>3. ~Return(w)
    BY <2>2 DEF Return, Exists
  <2> QED
    BY <2>1, <2>3
<1>4. ASSUME Register(w)
      PROVE  StageInv(w)' /\ WorkerMoves(w) /\ OnlyWorker(w)
  <2> USE <1>4
  <2>1. /\ pods[w] # NoPod /\ pods[w] \in Pod /\ pods[w].run = "up"
        /\ pods' = [pods EXCEPT ![w].registered = TRUE]
        /\ UNCHANGED <<revision, handoff>>
    <3>1. /\ pods[w] # NoPod /\ pods[w].run = "up"
          /\ pods' = [pods EXCEPT ![w].registered = TRUE]
          /\ UNCHANGED <<revision, handoff>>
      BY Zenon DEF Register, SlurmdRuns, Exists
    <3> QED
      BY <3>1, WorkerTypes, Zenon
  <2>2. \/ ~pods[w].registered /\ nodes[w].reboot = "issued"
        \/ /\ nodes[w].reboot # "issued"
           /\ ~pods[w].registered \/ nodes[w].down \/ ~nodes[w].responding
    BY Zenon DEF Register
  <2>3. ~Old(w)
    <3>1. nodes[w].reboot \in {"none", "requested", "issued"}
      BY WorkerTypes
    <3> QED
      BY <2>2, <3>1, Zenon DEF StageInv, OldInv
  <2>4. revision = 1 /\ pods[w].rev = 1 /\ handoff[w].pc = "off"
    BY <2>1, <2>3, Zenon DEF StageInv, NewInv, ProgramInv
  <2>5. PICK p : p = [pods[w] EXCEPT !.registered = TRUE]
    BY Zenon
  <2>6. p \in Pod /\ p.rev = 1 /\ p.run = "up" /\ p.registered = TRUE /\ p # NoPod
    <3>1. p \in Pod /\ p.rev = 1 /\ p.run = "up" /\ p.registered = TRUE
      BY <2>1, <2>4, <2>5, Zenon DEF Pod
    <3> QED
      BY <3>1, PodsDiffer
  <2>7. pods'[w] = p /\ revision' = revision /\ handoff' = handoff
        /\ \A v \in Workers \ {w} : pods'[v] = pods[v]
    <3>1. pods \in [Workers -> PodOrNone]
      BY WorkerTypes, Zenon
    <3>2. pods' = [pods EXCEPT ![w] = p]
      BY <2>1, <2>5, <3>1, Zenon
    <3> QED
      BY <2>1, <3>1, <3>2
  <2>8. nodes'[w].reboot = "none" /\ \A v \in Workers \ {w} : nodes'[v] = nodes[v]
    <3>1. nodes \in [Workers -> SlurmNode] /\ nodes[w] \in SlurmNode
      BY WorkerTypes
    <3>2. CASE \E stays \in BOOLEAN :
                  nodes' = [nodes EXCEPT ![w].responding = TRUE, ![w].down = FALSE,
                                         ![w].reboot = "none", ![w].drain = stays,
                                         ![w].reason = IF stays THEN @ ELSE "none"]
      <4>1. PICK stays \in BOOLEAN :
                  nodes' = [nodes EXCEPT ![w].responding = TRUE, ![w].down = FALSE,
                                         ![w].reboot = "none", ![w].drain = stays,
                                         ![w].reason = IF stays THEN @ ELSE "none"]
        BY <3>2, Zenon
      <4>2. PICK n : n = [nodes[w] EXCEPT !.responding = TRUE, !.down = FALSE,
                                         !.reboot = "none", !.drain = stays,
                                         !.reason = IF stays THEN @ ELSE "none"]
        BY Zenon
      <4>3. nodes' = [nodes EXCEPT ![w] = n]
        BY <3>1, <4>1, <4>2, Zenon
      <4>4. n.reboot = "none"
        BY <3>1, <4>2, Zenon DEF SlurmNode
      <4> QED
        BY <3>1, <4>3, <4>4
    <3>3. CASE /\ nodes[w].reboot # "issued"
               /\ nodes' = [nodes EXCEPT ![w].responding = TRUE, ![w].down = FALSE]
      <4>1. PICK n : n = [nodes[w] EXCEPT !.responding = TRUE, !.down = FALSE]
        BY Zenon
      <4>2. nodes' = [nodes EXCEPT ![w] = n]
        BY <3>1, <3>3, <4>1, Zenon
      <4>3. nodes[w].reboot = "none"
        BY <2>1, <2>3, <3>3, Zenon DEF StageInv, NewInv
      <4>4. n.reboot = "none"
        BY <3>1, <4>1, <4>3, Zenon DEF SlurmNode
      <4> QED
        BY <3>1, <4>2, <4>4
    <3> QED
      BY <3>2, <3>3, Zenon DEF Register
  <2>9. OnlyWorker(w)
    BY <2>7, <2>8 DEF OnlyWorker
  <2>10. ~Old(w)'
    BY <2>6, <2>7 DEF Old
  <2>11. StageInv(w)'
    BY <2>4, <2>6, <2>7, <2>8, <2>10, ZenonT(40) DEF StageInv, NewInv, ProgramInv
  <2>12. podReady(pods'[w])
    BY <2>6, <2>7 DEF podReady
  <2>13. ~IsRebootState(nodes'[w])
    BY <2>8 DEF IsRebootState
  <2>14. w \notin Disrupted'
    BY <2>12, <2>13, Zenon DEF Disrupted
  <2>15. WorkerMoves(w)
    BY <2>3, <2>10, <2>12, <2>14, Zenon DEF WorkerMoves
  <2> QED
    BY <2>9, <2>11, <2>15, Zenon
\* Steps that leave the pod alone, and of its node what the stages are about.
<1>5. ASSUME StartJob(w) \/ EndJob(w)
      PROVE  StageInv(w)' /\ WorkerMoves(w) /\ OnlyWorker(w)
  <2> USE <1>5
  <2>1. UNCHANGED <<pods, revision, handoff, left>>
    BY DEF StartJob, EndJob
  <2>2. PICK j : nodes' = [nodes EXCEPT ![w].job = j]
    BY Zenon DEF StartJob, EndJob
  <2>3. nodes \in [Workers -> SlurmNode] /\ nodes[w] \in SlurmNode
    BY WorkerTypes, Zenon
  <2>4. PICK n : n = [nodes[w] EXCEPT !.job = j]
    BY Zenon
  <2>5. nodes' = [nodes EXCEPT ![w] = n]
    BY <2>2, <2>3, <2>4, Zenon
  <2>6. /\ n.responding = nodes[w].responding /\ n.down = nodes[w].down
        /\ n.drain = nodes[w].drain /\ n.reboot = nodes[w].reboot
        /\ n.reason = nodes[w].reason
    BY <2>3, <2>4, Zenon DEF SlurmNode
  <2>7. nodes'[w] = n /\ \A v \in Workers \ {w} : nodes'[v] = nodes[v]
    BY <2>3, <2>5
  <2>8. OnlyWorker(w) /\ pods' = pods /\ revision' = revision /\ handoff' = handoff
        /\ left' = left
    BY <2>1, <2>7, Zenon DEF OnlyWorker
  <2>9. Old(w)' <=> Old(w)
    BY <2>8, Zenon DEF Old
  <2>10. StageInv(w)'
    BY <2>6, <2>7, <2>8, <2>9, ZenonT(40) DEF StageInv, OldInv, NewInv, ProgramInv, Old
  <2>11. w \in Disrupted' => w \in Disrupted
    BY <2>6, <2>7, <2>8, Zenon DEF Disrupted, IsRebootState
  <2>12. WorkerMoves(w)
    BY <2>6, <2>7, <2>8, <2>9, <2>11, Zenon DEF WorkerMoves
  <2> QED
    BY <2>8, <2>10, <2>12, Zenon
<1>6. ASSUME Silent(w)
      PROVE  StageInv(w)' /\ WorkerMoves(w) /\ OnlyWorker(w)
  <2> USE <1>6
  <2>1. /\ UNCHANGED <<pods, revision, handoff, left>>
        /\ ~(pods[w] # NoPod /\ pods[w].run = "up" /\ pods[w].registered)
    BY Zenon DEF Silent, SlurmdRuns, Exists
  <2>2. ~Old(w)
    BY <2>1, Zenon DEF StageInv, OldInv, Old
  <2>3. nodes \in [Workers -> SlurmNode] /\ nodes[w] \in SlurmNode
    BY WorkerTypes, Zenon
  <2>4. PICK n : \/ n = [nodes[w] EXCEPT !.responding = FALSE]
                    /\ nodes' = [nodes EXCEPT ![w].responding = FALSE]
                 \/ n = [nodes[w] EXCEPT !.down = TRUE,
                            !.job = IF @ = "running" THEN "completing" ELSE @]
                    /\ nodes' = [nodes EXCEPT ![w].down = TRUE,
                            ![w].job = IF @ = "running" THEN "completing" ELSE @]
    BY Zenon DEF Silent
  <2>5. nodes' = [nodes EXCEPT ![w] = n]
    BY <2>3, <2>4, Zenon
  <2>6. n.reboot = nodes[w].reboot
    BY <2>3, <2>4, Zenon DEF SlurmNode
  <2>7. nodes'[w] = n /\ \A v \in Workers \ {w} : nodes'[v] = nodes[v]
    BY <2>3, <2>5
  <2>8. OnlyWorker(w) /\ pods' = pods /\ revision' = revision /\ handoff' = handoff
        /\ left' = left
    BY <2>1, <2>7, Zenon DEF OnlyWorker
  <2>9. ~Old(w)'
    BY <2>2, <2>8, Zenon DEF Old
  <2>10. StageInv(w)'
    BY <2>2, <2>6, <2>7, <2>8, <2>9, ZenonT(40) DEF StageInv, NewInv, ProgramInv
  <2>11. w \in Disrupted' => w \in Disrupted
    BY <2>6, <2>7, <2>8, Zenon DEF Disrupted, IsRebootState
  <2>12. WorkerMoves(w)
    BY <2>2, <2>8, <2>9, <2>11, Zenon DEF WorkerMoves
  <2> QED
    BY <2>8, <2>10, <2>12, Zenon
<1>7. ASSUME IssueReboot(w)
      PROVE  StageInv(w)' /\ WorkerMoves(w) /\ OnlyWorker(w)
  <2> USE <1>7
  <2>1. /\ UNCHANGED <<pods, revision, left>> /\ nodes[w].reboot = "requested"
    BY DEF IssueReboot
  <2>2. Old(w) /\ OldInv(w)
    <3>1. ~Old(w) => nodes[w].reboot # "requested"
      BY Zenon DEF StageInv, NewInv
    <3> QED
      BY <2>1, <3>1, Zenon DEF StageInv
  <2>3. handoff' = [handoff EXCEPT ![w] = Started]
    BY <2>2, Zenon DEF IssueReboot, SlurmdRuns, Exists, Old, OldInv
  <2>4. /\ nodes \in [Workers -> SlurmNode] /\ nodes[w] \in SlurmNode
        /\ handoff \in [Workers -> HandoffRecord]
    BY WorkerTypes, Zenon
  <2>5. PICK down \in BOOLEAN :
            nodes' = [nodes EXCEPT ![w].reboot = "issued", ![w].down = down]
    BY Zenon DEF IssueReboot
  <2>6. PICK n : n = [nodes[w] EXCEPT !.reboot = "issued", !.down = down]
    BY Zenon
  <2>7. nodes' = [nodes EXCEPT ![w] = n]
    BY <2>4, <2>5, <2>6, Zenon
  <2>8. n.responding = nodes[w].responding /\ n.reboot = "issued"
        /\ n.reason = nodes[w].reason
    BY <2>4, <2>6, Zenon DEF SlurmNode
  <2>9. /\ nodes'[w] = n /\ \A v \in Workers \ {w} : nodes'[v] = nodes[v]
        /\ handoff'[w] = Started /\ \A v \in Workers \ {w} : handoff'[v] = handoff[v]
    BY <2>3, <2>4, <2>7, Zenon
  <2>10. OnlyWorker(w) /\ pods' = pods /\ revision' = revision /\ left' = left
    BY <2>1, <2>9, Zenon DEF OnlyWorker
  <2>11. Old(w)'
    BY <2>2, <2>10, Zenon DEF Old
  <2>12. handoff'[w].pc = "get" /\ handoff'[w].op = NoOperation /\ handoff'[w].attempt = 1
    BY <2>9 DEF Started
  <2>13. 1 + left["faults"] <= MaxAttempts
    <3>1. left["faults"] \in Nat /\ MaxAttempts \in Nat
      BY WorkerTypes, Constants DEF Bounds
    <3> QED
      BY <3>1 DEF BoundsInv
  <2>14. OldInv(w)'
    BY <2>1, <2>2, <2>8, <2>9, <2>10, <2>12, ZenonT(40) DEF OldInv
  <2>15. ProgramInv(w)'
    BY <2>8, <2>9, <2>10, <2>11, <2>12, <2>13, Zenon DEF ProgramInv
  <2>16. w \in Disrupted
    BY <2>1, <2>2, Zenon DEF Disrupted, OldInv, IsRebootState
  <2>17. WorkerMoves(w)
    BY <2>1, <2>2, <2>8, <2>9, <2>10, <2>11, <2>16, Zenon DEF WorkerMoves
  <2> QED
    BY <2>10, <2>11, <2>14, <2>15, <2>17, Zenon DEF StageInv
\* The time limit of a reboot is not reached: the handoff runs, or the pod is
\* ready to be deleted.
<1>8. ~RebootTimesOut(w)
  <2> SUFFICES ASSUME RebootTimesOut(w) PROVE FALSE
    OBVIOUS
  <2>1. /\ nodes[w].reboot = "issued" /\ handoff[w].pc = "off" /\ pods[w] # NoPod
        /\ workerOperationPhase(pods[w], revision) # "ready" /\ pods[w].registered
    BY Zenon DEF RebootTimesOut, Exists
  <2>2. Old(w) /\ OldInv(w)
    BY <2>1, Zenon DEF StageInv, NewInv
  <2>3. pods[w].op = revision /\ pods[w].phase = "ready"
    BY <2>1, <2>2, Zenon DEF OldInv
  <2> QED
    BY <2>1, <2>3, Zenon DEF workerOperationPhase
<1>9. ASSUME handoff[w].pc # "off", UNCHANGED <<nodes, revision>>,
             UNCHANGED pods \/ MarksReady(w),
             \A v \in Workers \ {w} : handoff'[v] = handoff[v], ProgramInv(w)',
             handoff'[w].pc = "off" => pods'[w].phase = "ready"
      PROVE  StageInv(w)' /\ WorkerMoves(w) /\ OnlyWorker(w)
  <2> USE <1>9
  <2>1. Old(w) /\ OldInv(w) /\ nodes[w].reboot = "issued"
    BY Zenon DEF StageInv, ProgramInv
  <2>2. pods \in [Workers -> PodOrNone] /\ pods[w] \in Pod
    BY <2>1, WorkerTypes, ZenonT(40) DEF Old
  <2>3. /\ pods'[w] # NoPod /\ pods'[w].rev = pods[w].rev /\ pods'[w].run = pods[w].run
        /\ pods'[w].op = pods[w].op /\ pods'[w].registered = pods[w].registered
        /\ pods'[w].phase \in {pods[w].phase, "ready"}
        /\ \A v \in Workers \ {w} : pods'[v] = pods[v]
    <3>1. CASE UNCHANGED pods
      BY <2>1, <3>1, Zenon DEF Old
    <3>2. CASE MarksReady(w)
      <4>1. PICK p : p = [pods[w] EXCEPT !.phase = "ready"]
        BY Zenon
      <4>2. pods' = [pods EXCEPT ![w] = p]
        BY <2>2, <3>2, <4>1, Zenon DEF MarksReady
      <4>3. /\ p \in Pod /\ p.rev = pods[w].rev /\ p.run = pods[w].run /\ p.op = pods[w].op
            /\ p.registered = pods[w].registered /\ p.phase = "ready"
        BY <2>2, <4>1, ZenonT(40) DEF Pod, OperationPhase
      <4>4. pods'[w] = p /\ \A v \in Workers \ {w} : pods'[v] = pods[v]
        BY <2>2, <4>2
      <4> QED
        BY <4>3, <4>4, PodsDiffer, Zenon
    <3> QED
      BY <3>1, <3>2
  <2>4. Old(w)'
    BY <2>1, <2>3, Zenon DEF Old
  <2>5. OldInv(w)'
    <3>1. pods[w].phase \in {"stopping", "ready"}
      BY <2>1, Zenon DEF OldInv
    <3>2. pods'[w].phase \in {"stopping", "ready"}
      BY <2>3, <3>1, Zenon
    <3> QED
      BY <2>1, <2>3, <3>2, Zenon DEF OldInv
  <2>6. StageInv(w)'
    BY <2>4, <2>5, Zenon DEF StageInv
  <2>7. OnlyWorker(w)
    BY <2>3, Zenon DEF OnlyWorker
  <2>8. w \in Disrupted
    BY <2>1, ZenonT(40) DEF Disrupted, OldInv, IsRebootState
  <2>9. podReady(pods'[w])
    BY <2>1, <2>3 DEF podReady, OldInv
  <2>10. WorkerMoves(w)
    BY <2>1, <2>4, <2>8, <2>9, Zenon DEF WorkerMoves
  <2> QED
    BY <2>6, <2>7, <2>10, Zenon
<1>10. ASSUME Exit(w)
       PROVE  handoff'[w].pc = "off" /\ \A v \in Workers \ {w} : handoff'[v] = handoff[v]
  <2> USE <1>10
  <2>1. handoff \in [Workers -> HandoffRecord]
    BY WorkerTypes, Zenon
  <2>2. Off.pc = "off"
    BY DEF Off
  <2> QED
    BY <2>1, <2>2, Zenon DEF Exit
<1>11. ASSUME HandoffStep(w)
       PROVE  StageInv(w)' /\ WorkerMoves(w) /\ OnlyWorker(w)
  <2> USE <1>11
  <2>1. /\ handoff[w].pc # "off" /\ UNCHANGED <<nodes, revision, left>>
    BY DEF HandoffStep, get_worker_operation, mark_ready, workerVars
  <2>2. /\ Old(w) /\ OldInv(w) /\ nodes[w].reboot = "issued"
        /\ handoff[w].op \in {NoOperation, 1} /\ pods[w].op = 1
        /\ pods[w].phase \in {"stopping", "ready"}
        /\ handoff[w].attempt + left["faults"] <= MaxAttempts
    BY <2>1, Zenon DEF StageInv, ProgramInv, OldInv
  <2>3. handoff \in [Workers -> HandoffRecord] /\ handoff[w] \in HandoffRecord
    BY WorkerTypes, Zenon
  <2>4. CASE get_worker_operation(w)
    <3>1. UNCHANGED pods
      BY <2>4 DEF get_worker_operation, workerVars
    <3>2. CASE HandoffEnds(w) /\ Exit(w)
      <4>1. pods[w].phase = "ready"
        BY <2>2, <3>2, Constants DEF HandoffEnds
      <4>2. handoff'[w].pc = "off" /\ \A v \in Workers \ {w} : handoff'[v] = handoff[v]
        BY <3>2, <1>10
      <4>3. ProgramInv(w)'
        BY <4>2, Zenon DEF ProgramInv
      <4> QED
        BY <2>1, <3>1, <4>1, <4>2, <4>3, <1>9, ZenonT(40)
    <3>3. CASE /\ ~HandoffEnds(w)
               /\ handoff' = [handoff EXCEPT ![w].pc = "patch", ![w].op = pods[w].op]
      <4>1. PICK h : h = [handoff[w] EXCEPT !.pc = "patch", !.op = pods[w].op]
        BY Zenon
      <4>2. handoff' = [handoff EXCEPT ![w] = h]
        BY <2>3, <3>3, <4>1, Zenon
      <4>3. h.pc = "patch" /\ h.op = 1 /\ h.attempt = handoff[w].attempt
        BY <2>2, <2>3, <4>1, Zenon DEF HandoffRecord
      <4>4. handoff'[w] = h /\ \A v \in Workers \ {w} : handoff'[v] = handoff[v]
        BY <2>3, <4>2, Zenon
      <4>5. pods[w].phase = "stopping"
        BY <3>3, Zenon DEF HandoffEnds
      <4>6. ProgramInv(w)'
        BY <2>1, <2>2, <3>1, <4>3, <4>4, <4>5, ZenonT(40) DEF ProgramInv, Old
      <4>7. handoff'[w].pc # "off"
        BY <4>3, <4>4
      <4> QED
        BY <2>1, <3>1, <4>4, <4>6, <4>7, <1>9, ZenonT(40)
    <3> QED
      BY <2>4, <3>2, <3>3, Zenon DEF get_worker_operation
  <2>5. CASE mark_ready(w)
    <3>1. pods[w].op = handoff[w].op /\ pods[w].phase = "stopping"
      BY <2>2, <2>5, Zenon DEF mark_ready, StageInv, ProgramInv
    <3>2. pods' = [pods EXCEPT ![w].phase = "ready"] /\ Exit(w)
      BY <2>5, <3>1, Zenon DEF mark_ready
    <3>3. handoff'[w].pc = "off" /\ \A v \in Workers \ {w} : handoff'[v] = handoff[v]
      BY <3>2, <1>10
    <3>4. ProgramInv(w)'
      BY <3>3, Zenon DEF ProgramInv
    <3>5. pods'[w].phase = "ready"
      <4>1. pods \in [Workers -> PodOrNone] /\ pods[w] \in Pod
        BY <2>2, WorkerTypes, Zenon DEF Old
      <4> QED
        BY <3>2, <4>1, Zenon DEF Pod
    <3> QED
      BY <2>1, <3>1, <3>2, <3>3, <3>4, <3>5, <1>9, ZenonT(40) DEF MarksReady
  <2> QED
    BY <2>4, <2>5, Zenon DEF HandoffStep
\* A failed request leaves an attempt: there are more of them than faults.
<1>12. ASSUME HandoffRequestFails(w), Trouble("faults")
       PROVE  StageInv(w)' /\ WorkerMoves(w) /\ OnlyWorker(w)
  <2> USE <1>12
  <2>1. handoff[w].pc # "off" /\ UNCHANGED <<nodes, revision>>
    BY DEF HandoffRequestFails
  <2>2. UNCHANGED pods \/ MarksReady(w)
    BY Zenon DEF HandoffRequestFails, MarksReady
  <2>3. /\ Old(w) /\ OldInv(w) /\ nodes[w].reboot = "issued"
        /\ handoff[w].op \in {NoOperation, 1}
        /\ handoff[w].attempt + left["faults"] <= MaxAttempts
    BY <2>1, Zenon DEF StageInv, ProgramInv
  <2>4. /\ handoff \in [Workers -> HandoffRecord] /\ handoff[w] \in HandoffRecord
        /\ handoff[w].attempt \in Nat /\ left["faults"] \in Nat /\ MaxAttempts \in Nat
    <3>1. handoff \in [Workers -> HandoffRecord] /\ handoff[w] \in HandoffRecord
          /\ left \in [Bounds -> Nat]
      BY WorkerTypes, Zenon
    <3> QED
      BY <3>1, Constants DEF HandoffRecord, Bounds
  <2>5. left["faults"] > 0 /\ left'["faults"] = left["faults"] - 1
    BY DEF Trouble, SpendAll, Bounds
  <2>6. handoff[w].attempt # MaxAttempts
    BY <2>3, <2>4, <2>5
  <2>7. PICK h : h = [handoff[w] EXCEPT !.pc = "get", !.attempt = @ + 1]
    BY Zenon
  <2>8. handoff' = [handoff EXCEPT ![w] = h]
    BY <2>4, <2>6, <2>7, ZenonT(40) DEF HandoffRequestFails, AttemptFails
  <2>9. h.pc = "get" /\ h.op = handoff[w].op /\ h.attempt = handoff[w].attempt + 1
    BY <2>4, <2>7, Zenon DEF HandoffRecord
  <2>10. handoff'[w] = h /\ \A v \in Workers \ {w} : handoff'[v] = handoff[v]
    BY <2>4, <2>8, Zenon
  <2>11. Old(w)'
    <3>1. pods \in [Workers -> PodOrNone] /\ pods[w] \in Pod
      BY <2>3, WorkerTypes, Zenon DEF Old
    <3>2. CASE UNCHANGED pods
      BY <2>3, <3>2, Zenon DEF Old
    <3>3. CASE MarksReady(w)
      <4>1. PICK p : p = [pods[w] EXCEPT !.phase = "ready"]
        BY Zenon
      <4>2. p \in Pod /\ p.rev = pods[w].rev /\ pods'[w] = p
        BY <3>1, <3>3, <4>1, Zenon DEF MarksReady, Pod, OperationPhase
      <4> QED
        BY <2>3, <4>2, PodsDiffer, Zenon DEF Old
    <3> QED
      BY <2>2, <3>2, <3>3
  <2>12. handoff'[w].attempt + left'["faults"] <= MaxAttempts
    BY <2>3, <2>4, <2>5, <2>9, <2>10
  <2>13. handoff'[w].pc = "get" /\ handoff'[w].op = handoff[w].op
    BY <2>9, <2>10, Zenon
  <2>14. ProgramInv(w)'
    BY <2>1, <2>3, <2>11, <2>12, <2>13, ZenonT(40) DEF ProgramInv
  <2> QED
    BY <2>1, <2>2, <2>10, <2>13, <2>14, <1>9, ZenonT(40)
<1> QED
  BY <1>1, <1>2, <1>3, <1>4, <1>5, <1>6, <1>7, <1>8, <1>11, <1>12, ZenonT(40)

LEMMA StageSame ==
    ASSUME TypeInv, TypeInv', NEW v \in Workers, StageInv(v),
           pods'[v] = pods[v], nodes'[v] = nodes[v], revision' = revision,
           handoff'[v] = handoff[v] \/ (pods[v] = NoPod /\ handoff'[v].pc = "off"),
           left'["faults"] <= left["faults"]
    PROVE  StageInv(v)' /\ WorkerMoves(v)
<1>1. Old(v)' <=> Old(v)
  BY Zenon DEF Old
<1>2. ProgramInv(v)'
  <2>1. CASE handoff'[v].pc = "off"
    BY <2>1, Zenon DEF ProgramInv
  <2>2. CASE handoff'[v].pc # "off"
    <3>1. handoff'[v] = handoff[v]
      BY <2>2
    <3>2. ProgramInv(v)
      BY Zenon DEF StageInv
    <3>3. handoff[v].attempt + left["faults"] <= MaxAttempts
      BY <2>2, <3>1, <3>2, ZenonT(40) DEF ProgramInv
    <3>4. /\ handoff[v].attempt \in Nat /\ left["faults"] \in Nat /\ left'["faults"] \in Nat
          /\ MaxAttempts \in Nat
      <4>1. left \in [Bounds -> Nat] /\ left' \in [Bounds -> Nat]
            /\ handoff[v] \in HandoffRecord
        BY Zenon DEF TypeInv
      <4> QED
        BY <4>1, Constants DEF Bounds, HandoffRecord
    <3>5. handoff[v].attempt + left'["faults"] <= MaxAttempts
      BY <3>3, <3>4
    <3> QED
      BY <1>1, <2>2, <3>1, <3>2, <3>5, ZenonT(40) DEF ProgramInv
  <2> QED
    BY <2>1, <2>2
<1>3. Old(v)' => OldInv(v)'
  <2> SUFFICES ASSUME Old(v)' PROVE OldInv(v)'
    OBVIOUS
  <2>1. Old(v) /\ OldInv(v) /\ handoff'[v] = handoff[v]
    BY <1>1, Zenon DEF StageInv, Old
  <2> QED
    BY <2>1, Zenon DEF OldInv
<1>4. ~Old(v)' => NewInv(v)'
  BY <1>1, Zenon DEF StageInv, NewInv
<1>5. WorkerMoves(v)
  BY <1>1, Zenon DEF WorkerMoves, Disrupted
<1> QED
  BY <1>2, <1>3, <1>4, <1>5, Zenon DEF StageInv

LEMMA OthersStay ==
    ASSUME TypeInv, TypeInv', NEW w \in Workers, \A v \in Workers : StageInv(v),
           StageInv(w)', WorkerMoves(w), OnlyWorker(w), revision' = revision,
           left'["faults"] <= left["faults"]
    PROVE  \A v \in Workers : StageInv(v)' /\ WorkerMoves(v)
<1> SUFFICES ASSUME NEW v \in Workers, v # w PROVE StageInv(v)' /\ WorkerMoves(v)
  BY Zenon
<1>1. pods'[v] = pods[v] /\ nodes'[v] = nodes[v] /\ handoff'[v] = handoff[v]
  BY Zenon DEF OnlyWorker
<1> QED
  BY <1>1, StageSame, Zenon

LEMMA CountKept ==
    ASSUME TypeInv, CountInv, Disrupted' \cup ru'.picked \subseteq Disrupted \cup ru.picked
    PROVE  CountInv'
<1>1. Disrupted \cup ru.picked \in SUBSET Workers
  BY DEF Disrupted, TypeInv, PassOK, PassRecord
<1>2. Cardinality(Disrupted' \cup ru'.picked) <= Cardinality(Disrupted \cup ru.picked)
      /\ Cardinality(Disrupted' \cup ru'.picked) \in Nat
      /\ Cardinality(Disrupted \cup ru.picked) \in Nat
  BY <1>1, CountShrinks
<1>3. rebootBudget \in Int
  BY WorkerAssumption, BudgetAssumption DEF rebootBudget
<1> QED
  BY <1>2, <1>3 DEF CountInv

\* Steps outside a pass leave it what it relies on.
LEMMA PassStays ==
    ASSUME TypeInv, BudgetInv, ru' = ru, revision = 1 => revision' = 1,
           \A w \in Workers : WorkerMoves(w)
    PROVE  DeletesInv' /\ ListInv' /\ PickedInv' /\ CountInv'
<1>0. /\ ru.todo \subseteq Workers /\ ru.picked \subseteq Workers
      /\ DeletesInv /\ ListInv /\ PickedInv /\ CountInv
  BY Zenon DEF BudgetInv, TypeInv, PassOK, PassRecord
<1>1. \A w \in Workers :
         /\ Old(w)' <=> Old(w)
         /\ Old(w) /\ nodes[w].reboot = "none" =>
               pods'[w] = pods[w] /\ nodes'[w].reboot = "none"
         /\ Old(w) /\ nodes[w].reboot = "issued" => nodes'[w].reboot = "issued"
         /\ Old(w) /\ nodes'[w].reboot = "none" => nodes[w].reboot = "none"
         /\ podReady(pods[w]) => podReady(pods'[w])
  BY Zenon DEF WorkerMoves
<1>2. DeletesInv'
  BY <1>0, <1>1, Zenon DEF DeletesInv
<1>3. ListInv'
  <2> SUFFICES ASSUME ru.pc = "list" PROVE ListInv'
    BY Zenon DEF ListInv
  <2>1. {w \in Workers : Old(w)}' = {w \in Workers : Old(w)}
    BY <1>1
  <2>2. \A w \in Workers : podReady(ru.pods[w]) => podReady(pods'[w])
    BY <1>0, <1>1, Zenon DEF ListInv
  <2>3. \A w \in Workers : Old(w)' =>
              /\ ru.pods[w].run = "up"
              /\ nodes'[w].reboot = "none" => ru.pods[w] = pods'[w]
    <3> SUFFICES ASSUME NEW w \in Workers, Old(w)'
                 PROVE  /\ ru.pods[w].run = "up"
                        /\ nodes'[w].reboot = "none" => ru.pods[w] = pods'[w]
      BY Zenon
    <3>1. Old(w)
      BY <1>1, Zenon
    <3>2. nodes[w].reboot = "none" => ru.pods[w] = pods[w] /\ pods'[w] = pods[w]
      BY <1>0, <1>1, <3>1, Zenon DEF ListInv
    <3>3. nodes'[w].reboot = "none" => nodes[w].reboot = "none"
      BY <1>1, <3>1, Zenon
    <3>4. ru.pods[w].run = "up"
      BY <1>0, <3>1, Zenon DEF ListInv
    <3> QED
      BY <3>2, <3>3, <3>4
  <2>4. /\ ru.operationID = 1 /\ revision = 1 /\ ru.todo = {w \in Workers : Old(w)}
        /\ ru.ready = Cardinality({w \in Workers : podReady(ru.pods[w])})
    BY <1>0, Zenon DEF ListInv
  <2> QED
    BY <2>1, <2>2, <2>3, <2>4, ZenonT(40) DEF ListInv
<1>4. PickedInv'
  BY <1>0, <1>1, ZenonT(40) DEF PickedInv
<1>5. Disrupted' \subseteq Disrupted
  BY DEF WorkerMoves, Disrupted
<1>6. CountInv'
  BY <1>0, <1>5, CountKept
<1> QED
  BY <1>2, <1>3, <1>4, <1>6, Zenon

-----------------------------------------------------------------------------
(* Steps of a pass.                                                        *)

LEMMA IdleFields ==
    /\ Idle.pc = "idle" /\ Idle.picked = {} /\ Idle.operationID = 0 /\ Idle.ready = 0
    /\ Idle.undrain = {} /\ Idle.todo = {} /\ Idle.pods = <<>>
  BY Zenon DEF Idle

LEMMA RestBudget ==
    ASSUME ru'.pc \in {"idle", "cleanup"}, ru'.picked = {}
    PROVE  DeletesInv' /\ ListInv' /\ PickedInv'
  BY DEF DeletesInv, ListInv, PickedInv

LEMMA PassBudget ==
    ASSUME TypeInv, TypeInv', BudgetInv, UpdateStep
    PROVE  /\ \A w \in Workers : StageInv(w)'
           /\ DeletesInv' /\ ListInv' /\ PickedInv' /\ CountInv'
<1>1. ASSUME NEW w \in Workers
      PROVE  IF pods'[w] = NoPod THEN handoff'[w].pc = "off" ELSE handoff'[w] = handoff[w]
  <2> USE <1>1
  <2>1. Off.pc = "off"
    BY DEF Off
  <2>2. handoff'[w] = IF pods'[w] = NoPod THEN Off ELSE handoff[w]
    BY Zenon DEF UpdateStep
  <2> QED
    BY <2>1, <2>2, ZenonT(40)
\* Workers the step leaves alone.
<1>2. ASSUME revision' = revision, NEW w \in Workers, StageInv(w),
             pods'[w] = pods[w], nodes'[w] = nodes[w]
      PROVE  StageInv(w)'
  <2> USE <1>2
  <2>1. left'["faults"] <= left["faults"]
    <3>1. left' = left /\ left \in [Bounds -> Nat]
      BY DEF UpdateStep, TypeInv
    <3> QED
      BY <3>1 DEF Bounds
  <2>2. handoff'[w] = handoff[w] \/ (pods[w] = NoPod /\ handoff'[w].pc = "off")
    BY <1>1, Zenon
  <2> QED
    BY <2>1, <2>2, StageSame, ZenonT(40)
<1>3. /\ Done \in PassRecord /\ Done.pc = ru.pc /\ Done.picked = ru.picked
      /\ Done.pods = ru.pods /\ Done.todo = ru.todo \ {First}
      /\ Done.undrain = ru.undrain /\ Done.operationID = ru.operationID
  <2>1. ru \in PassRecord
    BY Zenon DEF TypeInv, PassOK
  <2> QED
    BY <2>1 DEF PassRecord, Done
\* A call for the first worker leaves the others to be called for as they were.
<1>4. ASSUME ru.pc \in {"delete", "call"}, Goes(Done), revision' = revision,
             First \notin ru.picked,
             \A v \in Workers \ {First} : pods'[v] = pods[v] /\ nodes'[v] = nodes[v]
      PROVE  DeletesInv' /\ ListInv' /\ PickedInv' /\ ru'.picked \subseteq ru.picked
  <2> USE <1>4
  <2>0. /\ ru.todo \subseteq Workers /\ ru.picked \subseteq Workers
        /\ DeletesInv /\ PickedInv
    BY Zenon DEF BudgetInv, TypeInv, PassOK, PassRecord
  <2>1. \A v \in Workers \ {First} : Old(v)' <=> Old(v)
    BY Zenon DEF Old
  <2>2. PICK d : d = Done
    BY Zenon
  <2>3. /\ d \in PassRecord /\ d.pc = ru.pc /\ d.picked = ru.picked
        /\ d.pods = ru.pods /\ d.todo = ru.todo \ {First}
        /\ d.undrain = ru.undrain /\ d.operationID = ru.operationID /\ Goes(d)
    BY <2>2, <1>3, Zenon
  <2>4. CASE ru' = d
    <3>1. DeletesInv'
      <4>1. \A w \in ru'.todo : w \in ru.todo /\ w \in Workers \ {First}
        BY <2>0, <2>3, <2>4, SMTT(30)
      <4> QED
        BY <2>0, <2>1, <2>3, <2>4, <4>1, ZenonT(40) DEF DeletesInv
    <3>2. ListInv'
      BY <2>3, <2>4 DEF ListInv
    <3>3. PickedInv'
      <4>1. CASE ru.pc = "delete"
        <5>1. ru.picked = {}
          BY <2>0, <4>1, SMTT(30) DEF PickedInv
        <5> QED
          BY <2>3, <2>4, <5>1 DEF PickedInv
      <4>2. CASE ru.pc = "call"
        <5>1. \A w \in ru'.picked : w \in ru.picked /\ w \in Workers \ {First}
          BY <2>0, <2>3, <2>4, SMTT(30)
        <5>2. ru'.pc = "call" /\ ru'.pods = ru.pods /\ ru'.operationID = ru.operationID
          BY <2>3, <2>4, <4>2
        <5>3. ASSUME NEW w \in ru'.picked
              PROVE  Old(w)' /\ nodes'[w].reboot = "none" /\ revision' = 1
                     /\ ru'.operationID = 1 /\ ru'.pods[w] = pods'[w]
          BY <2>0, <2>1, <4>2, <5>1, <5>2, <5>3, ZenonT(40) DEF PickedInv
        <5> QED
          BY <5>2, <5>3, SMTT(30) DEF PickedInv
      <4> QED
        BY <4>1, <4>2
    <3> QED
      BY <2>3, <2>4, <3>1, <3>2, <3>3, Zenon
  <2>5. CASE d.picked # {} /\ ru' = [d EXCEPT !.pc = "label", !.todo = d.picked]
    <3>1. /\ ru'.pc = "label" /\ ru'.todo = ru.picked /\ ru'.picked = ru.picked
          /\ ru'.pods = ru.pods /\ ru'.operationID = ru.operationID
      BY <2>3, <2>5, Zenon DEF PassRecord
    <3>2. ru.pc = "call"
      BY <2>0, <2>3, <2>5 DEF PickedInv
    <3>3. ASSUME NEW w \in ru'.picked
          PROVE  Old(w)' /\ nodes'[w].reboot = "none" /\ revision' = 1
                 /\ ru'.operationID = 1 /\ ru'.pods[w] = pods'[w] /\ w \in ru'.todo
      <4>1. w \in ru.picked /\ w \in Workers \ {First}
        BY <2>0, <3>1, <3>3
      <4> QED
        BY <2>0, <2>1, <3>1, <3>2, <3>3, <4>1, ZenonT(40) DEF PickedInv
    <3>4. PickedInv'
      BY <3>1, <3>3 DEF PickedInv
    <3>5. DeletesInv' /\ ListInv'
      BY <3>1 DEF DeletesInv, ListInv
    <3> QED
      BY <3>1, <3>4, <3>5, Zenon
  <2>6. CASE ru' = Idle
    BY <2>6, IdleFields, RestBudget
  <2> QED
    BY <2>3, <2>4, <2>5, <2>6, ZenonT(40) DEF Goes
\* A pod whose reboot has been issued is deleted: its worker stays disrupted.
<1>5. ASSUME ru.pc \in {"delete", "call"}, First \notin ru.undrain,
             DeletePod(First), nodes' = nodes, revision' = revision, Goes(Done)
      PROVE  /\ \A w \in Workers : StageInv(w)'
             /\ DeletesInv' /\ ListInv' /\ PickedInv' /\ CountInv'
  <2> USE <1>5
  <2>0. PICK f : f = First
    BY Zenon
  <2>1. f \in ru.todo /\ f \in Workers
    BY <2>0, FirstInTodo DEF TypeInv, PassOK
  <2>2. Old(f) /\ nodes[f].reboot = "issued" /\ StageInv(f)
    BY <2>0, <2>1, Zenon DEF BudgetInv, DeletesInv
  <2>3. f \notin ru.picked
    BY <2>2, Zenon DEF BudgetInv, PickedInv
  <2>4. pods'[f] = NoPod /\ \A v \in Workers \ {f} : pods'[v] = pods[v]
    <3>1. pods \in [Workers -> PodOrNone]
      BY Zenon DEF TypeInv
    <3> QED
      BY <2>0, <2>1, <3>1, Zenon DEF DeletePod
  <2>5. StageInv(f)'
    <3>1. revision = 1
      BY <2>2, Zenon DEF StageInv, OldInv
    <3>2. ~Old(f)'
      BY <2>4, Zenon DEF Old
    <3>3. handoff'[f].pc = "off"
      BY <2>1, <2>4, <1>1, Zenon
    <3> QED
      BY <2>2, <2>4, <3>1, <3>2, <3>3, ZenonT(40) DEF StageInv, NewInv, ProgramInv
  <2>6. ASSUME NEW v \in Workers \ {f} PROVE StageInv(v)'
    <3>1. StageInv(v) /\ pods'[v] = pods[v] /\ nodes'[v] = nodes[v]
      BY <2>4, Zenon DEF BudgetInv
    <3> QED
      BY <3>1, <1>2, Zenon
  <2>7. DeletesInv' /\ ListInv' /\ PickedInv' /\ ru'.picked \subseteq ru.picked
    BY <2>0, <2>3, <2>4, <1>4, ZenonT(40)
  <2>8. f \in Disrupted
    BY <2>1, <2>2, ZenonT(40) DEF Disrupted, StageInv, OldInv, IsRebootState
  <2>9. Disrupted' \subseteq Disrupted
    <3>1. ASSUME NEW v \in Disrupted' PROVE v \in Disrupted
      <4>1. CASE v = f
        BY <2>8, <4>1
      <4>2. CASE v # f
        <5>1. v \in Workers /\ pods'[v] = pods[v] /\ nodes'[v] = nodes[v]
          BY <2>4, <3>1, <4>2, ZenonT(40) DEF Disrupted
        <5> QED
          BY <3>1, <5>1, Zenon DEF Disrupted
      <4> QED
        BY <4>1, <4>2
    <3> QED
      BY <3>1
  <2>10. CountInv'
    <3>1. CountInv
      BY Zenon DEF BudgetInv
    <3> QED
      BY <2>7, <2>9, <3>1, CountKept
  <2> QED
    BY <2>5, <2>6, <2>7, <2>10, ZenonT(40)
\* A stale drain is removed: the worker already has its new pod.
<1>6. ASSUME ru.pc = "call", First \in ru.undrain, UndrainNode(First), pods' = pods,
             revision' = revision, Goes(Done)
      PROVE  /\ \A w \in Workers : StageInv(w)'
             /\ DeletesInv' /\ ListInv' /\ PickedInv' /\ CountInv'
  <2> USE <1>6
  <2>0. PICK f : f = First
    BY Zenon
  <2>1. f \in ru.todo /\ f \in Workers
    BY <2>0, FirstInTodo DEF TypeInv, PassOK
  <2>2. ~Old(f) /\ StageInv(f)
    BY <2>0, <2>1, Zenon DEF BudgetInv, DeletesInv
  <2>3. f \notin ru.picked
    BY <2>2, Zenon DEF BudgetInv, PickedInv
  <2>4. nodes'[f].reboot = nodes[f].reboot
        /\ \A v \in Workers \ {f} : nodes'[v] = nodes[v]
    <3>1. nodes \in [Workers -> SlurmNode] /\ nodes[f] \in SlurmNode
      BY <2>1, WorkerTypes, Zenon
    <3>2. PICK n : n = [nodes[f] EXCEPT !.drain = FALSE,
                            !.reason = IF nodes[f].drain THEN "none" ELSE @]
      BY Zenon
    <3>3. nodes' = [nodes EXCEPT ![f] = n]
      BY <2>0, <2>1, <3>1, <3>2, Zenon DEF UndrainNode
    <3>4. n.reboot = nodes[f].reboot
      BY <3>1, <3>2, Zenon DEF SlurmNode
    <3> QED
      BY <2>1, <3>1, <3>3, <3>4, Zenon
  <2>5. StageInv(f)'
    <3>1. ~Old(f)'
      BY <2>2, Zenon DEF Old
    <3>2. handoff'[f].pc = "off"
      <4>1. handoff[f].pc = "off"
        BY <2>2, Zenon DEF StageInv, ProgramInv
      <4> QED
        BY <2>1, <4>1, <1>1, Zenon
    <3> QED
      BY <2>2, <2>4, <3>1, <3>2, Zenon DEF StageInv, NewInv, ProgramInv
  <2>6. ASSUME NEW v \in Workers \ {f} PROVE StageInv(v)'
    <3>1. StageInv(v) /\ pods'[v] = pods[v] /\ nodes'[v] = nodes[v]
      BY <2>4, Zenon DEF BudgetInv
    <3> QED
      BY <3>1, <1>2, Zenon
  <2>7. DeletesInv' /\ ListInv' /\ PickedInv' /\ ru'.picked \subseteq ru.picked
    BY <2>0, <2>3, <2>4, <1>4, Zenon
  <2>8. Disrupted' \subseteq Disrupted
    <3>1. \A v \in Workers : nodes'[v].reboot = nodes[v].reboot
      BY <2>4, Zenon
    <3> QED
      BY <3>1, Zenon DEF Disrupted, IsRebootState
  <2>9. CountInv'
    <3>1. CountInv
      BY Zenon DEF BudgetInv
    <3> QED
      BY <2>7, <2>8, <3>1, CountKept
  <2> QED
    BY <2>5, <2>6, <2>7, <2>9, Zenon
<1>7. ASSUME UNCHANGED <<pods, nodes, revision>>
      PROVE  /\ \A w \in Workers : StageInv(w)'
             /\ \A w \in Workers : Old(w)' <=> Old(w)
             /\ Disrupted' = Disrupted
  <2> USE <1>7
  <2>1. pods' = pods /\ nodes' = nodes /\ revision' = revision
    BY Zenon
  <2>2. ASSUME NEW w \in Workers PROVE StageInv(w)'
    <3>1. StageInv(w) /\ pods'[w] = pods[w] /\ nodes'[w] = nodes[w]
      BY <2>1, Zenon DEF BudgetInv
    <3> QED
      BY <2>1, <3>1, <1>2, Zenon
  <2>3. \A w \in Workers : Old(w)' <=> Old(w)
    BY <2>1, Zenon DEF Old
  <2>4. Disrupted' = Disrupted
    BY <2>1, Zenon DEF Disrupted
  <2> QED
    BY <2>2, <2>3, <2>4, Zenon
\* A pass begins with all the first pods, or with those that are ready to be
\* deleted.
<1>8. ASSUME Reconcile(ActualStatus)
      PROVE  /\ \A w \in Workers : StageInv(w)'
             /\ DeletesInv' /\ ListInv' /\ PickedInv' /\ CountInv'
  <2> USE <1>8
  <2>1. UNCHANGED <<pods, nodes, revision>>
    BY DEF Reconcile
  <2>2. /\ \A w \in Workers : StageInv(w)'
        /\ \A w \in Workers : Old(w)' <=> Old(w)
        /\ Disrupted' = Disrupted
    BY <2>1, <1>7, Zenon
  <2>3. PICK sts : sts = ActualStatus
    BY Zenon
  <2>4. sts.revision = revision /\ sts.ready = Cardinality({w \in Workers : podReady(pods[w])})
    BY <2>3, Zenon DEF ActualStatus
  <2>5. Reconcile(sts)
    BY <2>3, Zenon
  <2>6. \A w \in Workers : StageInv(w)
    BY Zenon DEF BudgetInv
  <2>7. \A w \in Workers : pods[w] # NoPod =>
           /\ pods[w].run \in {"starting", "up"}
           /\ pods[w].rev # revision => Old(w) /\ revision = 1
    <3> SUFFICES ASSUME NEW w \in Workers, pods[w] # NoPod
                 PROVE  /\ pods[w].run \in {"starting", "up"}
                        /\ pods[w].rev # revision => Old(w) /\ revision = 1
      OBVIOUS
    <3>1. CASE ~Old(w)
      BY <2>6, <3>1, Zenon DEF StageInv, NewInv
    <3>2. CASE Old(w)
      <4>1. pods[w].run = "up" /\ pods[w].rev = 0
        BY <2>6, <3>2, Zenon DEF StageInv, OldInv, Old
      <4>2. revision \in Nat /\ left["changes"] \in Nat /\ revision + left["changes"] <= 1
        <5>1. left \in [Bounds -> Nat] /\ revision \in Nat
          BY WorkerTypes, Zenon
        <5> QED
          BY <5>1 DEF Bounds, BudgetInv, BoundsInv
      <4> QED
        BY <3>2, <4>1, <4>2
    <3> QED
      BY <3>1, <3>2
  <2>8. ru.pc = "idle" /\ ru.picked = {}
    BY <2>5 DEF Reconcile, BudgetInv, PickedInv
  <2>9. ASSUME ru'.picked = {} PROVE CountInv'
    <3>1. CountInv /\ Disrupted' \cup ru'.picked \subseteq Disrupted \cup ru.picked
      BY <2>2, <2>9, Zenon DEF BudgetInv
    <3> QED
      BY <3>1, CountKept, Zenon
  <2>10. CASE ru' = [Idle EXCEPT !.pc = "cleanup", !.todo = eligibleNodeNames(sts.revision)]
    <3>1. ru'.pc = "cleanup" /\ ru'.picked = {}
      BY <2>10, Zenon DEF Idle
    <3> QED
      BY <2>2, <2>9, <3>1, RestBudget, Zenon
  <2>11. CASE ru' = [Idle EXCEPT !.pc = "delete", !.todo = Finished(sts.revision)]
    <3>1. /\ ru'.pc = "delete" /\ ru'.picked = {} /\ ru'.undrain = {}
          /\ ru'.todo = Finished(revision)
      BY <2>4, <2>11, Zenon DEF Idle
    <3>2. ASSUME NEW w \in Finished(revision)
          PROVE  w \in Workers /\ Old(w) /\ nodes[w].reboot = "issued"
      <4>1. /\ w \in Workers /\ pods[w] # NoPod /\ pods[w].rev # revision
            /\ pods[w].phase = "ready"
        BY <3>2 DEF Finished, filterOutdatedPods, workerOperationPhase
      <4>2. Old(w) /\ OldInv(w)
        BY <2>6, <2>7, <4>1, Zenon DEF StageInv
      <4>3. nodes[w].reboot \in {"none", "requested", "issued"}
        BY <4>1, WorkerTypes
      <4>4. nodes[w].reboot # "none" /\ nodes[w].reboot # "requested"
        BY <4>1, <4>2 DEF OldInv
      <4> QED
        BY <4>1, <4>2, <4>3, <4>4, Zenon
    <3>3. DeletesInv'
      BY <2>1, <2>2, <3>1, <3>2, ZenonT(40) DEF DeletesInv
    <3>4. ListInv' /\ PickedInv'
      BY <3>1 DEF ListInv, PickedInv
    <3> QED
      BY <2>2, <2>9, <3>1, <3>3, <3>4, Zenon
  <2>12. InitCrashing(sts.revision) = {}
    BY <2>7 DEF InitCrashing, filterOutdatedPods
  <2>13. CASE /\ filterOutdatedPods(pods, sts.revision) # {}
              /\ ru' = [Idle EXCEPT !.pc = "list", !.operationID = sts.revision,
                                    !.ready = sts.ready, !.pods = pods,
                                    !.todo = filterOutdatedPods(pods, sts.revision)]
    <3>1. /\ ru'.pc = "list" /\ ru'.picked = {} /\ ru'.operationID = revision
          /\ ru'.ready = sts.ready /\ ru'.pods = pods
          /\ ru'.todo = filterOutdatedPods(pods, revision)
      BY <2>4, <2>13, Zenon DEF Idle
    <3>2. revision = 1
      BY <2>4, <2>7, <2>13 DEF filterOutdatedPods
    <3>3. filterOutdatedPods(pods, revision) = {w \in Workers : Old(w)}
      BY <2>7, <3>2 DEF filterOutdatedPods, Old
    <3>4. {w \in Workers : Old(w)}' = {w \in Workers : Old(w)}
      BY <2>2
    <3>5. \A w \in Workers : Old(w) => pods[w].run = "up"
      BY <2>6, Zenon DEF StageInv, OldInv
    <3>6. ListInv'
      BY <2>1, <2>2, <2>4, <3>1, <3>2, <3>3, <3>4, <3>5, ZenonT(40) DEF ListInv
    <3>7. DeletesInv' /\ PickedInv'
      BY <3>1 DEF DeletesInv, PickedInv
    <3> QED
      BY <2>2, <2>9, <3>1, <3>6, <3>7, Zenon
  <2> QED
    BY <2>5, <2>10, <2>11, <2>12, <2>13, ZenonT(40) DEF Reconcile
\* Only nodes whose reboot is over are found to be drained for nothing.
<1>9. ASSUME cleanupStaleRollingUpdateDrains
      PROVE  /\ \A w \in Workers : StageInv(w)'
             /\ DeletesInv' /\ ListInv' /\ PickedInv' /\ CountInv'
  <2> USE <1>9
  <2>1. UNCHANGED <<pods, nodes, revision>> /\ ru.pc = "cleanup"
    BY DEF cleanupStaleRollingUpdateDrains, workerVars
  <2>2. /\ \A w \in Workers : StageInv(w)'
        /\ \A w \in Workers : Old(w)' <=> Old(w)
        /\ Disrupted' = Disrupted
    BY <2>1, <1>7, Zenon
  <2>3. PICK stale : stale = {w \in ru.todo : staleRollingUpdateDrain(nodes[w])}
    BY Zenon
  <2>4. ru \in PassRecord /\ ru.todo \subseteq Workers /\ stale \subseteq ru.todo
    BY <2>3 DEF TypeInv, PassOK, PassRecord
  <2>5. \A w \in stale : ~Old(w)
    <3> SUFFICES ASSUME NEW w \in stale, Old(w) PROVE FALSE
      BY Zenon
    <3>1. w \in Workers /\ nodes[w].drain /\ ~IsRebootState(nodes[w])
      BY <2>3, <2>4, Zenon DEF staleRollingUpdateDrain
    <3>2. nodes[w].reboot = "none"
      BY <3>1, WorkerTypes DEF IsRebootState
    <3> QED
      BY <3>1, <3>2, Zenon DEF BudgetInv, StageInv, OldInv
  <2>6. PICK r : r = [ru EXCEPT !.pc = "call", !.todo = stale, !.undrain = stale]
    BY Zenon
  <2>7. /\ r.pc = "call" /\ r.todo = stale /\ r.undrain = stale /\ r.picked = ru.picked
    BY <2>4, <2>6, Zenon DEF PassRecord
  <2>8. Goes(r) /\ ru.picked = {}
    <3>1. Goes(r)
      BY <2>3, <2>6, Zenon DEF cleanupStaleRollingUpdateDrains
    <3>2. ru.picked = {}
      BY <2>1 DEF BudgetInv, PickedInv
    <3> QED
      BY <3>1, <3>2
  <2>9. ru' = r \/ ru' = Idle
    BY <2>7, <2>8, Zenon DEF Goes
  <2>10. ru'.picked = {}
    BY <2>7, <2>8, <2>9, IdleFields
  <2>11. CountInv'
    <3>1. CountInv /\ Disrupted' \cup ru'.picked \subseteq Disrupted \cup ru.picked
      BY <2>2, <2>10, Zenon DEF BudgetInv
    <3> QED
      BY <3>1, CountKept, Zenon
  <2>12. CASE ru' = r
    <3>1. DeletesInv'
      <4>1. \A w \in stale : w \in Workers /\ ~Old(w)'
        BY <2>2, <2>4, <2>5, ZenonT(40)
      <4> QED
        BY <2>7, <2>12, <4>1 DEF DeletesInv
    <3>2. ListInv' /\ PickedInv'
      BY <2>7, <2>10, <2>12 DEF ListInv, PickedInv
    <3> QED
      BY <2>2, <2>11, <3>1, <3>2, Zenon
  <2>13. CASE ru' = Idle
    BY <2>2, <2>11, <2>13, IdleFields, RestBudget
  <2> QED
    BY <2>9, <2>12, <2>13
\* What the loop decides for the first pods.
<1>10. ASSUME ru.pc = "list", NEW w \in ru.todo, NEW d,
              d = decideWorkerUpdateAction(ru.pods[w], nodes[w], ru.operationID)
       PROVE  /\ w \in Workers /\ Old(w)
              /\ nodes[w].reboot = "none" => d = "ScheduleReboot"
              /\ nodes[w].reboot # "none" => d \in {"Delete", "TrackInFlight"}
              /\ d = "Delete" => nodes[w].reboot = "issued"
  <2> USE <1>10
  <2>1. w \in Workers /\ Old(w) /\ ru.pods[w].run = "up"
    <3>1. ListInv
      BY Zenon DEF BudgetInv
    <3>2. ru.todo = {v \in Workers : Old(v)}
      BY <3>1, Zenon DEF ListInv
    <3>3. w \in Workers /\ Old(w)
      BY <3>2, Zenon
    <3> QED
      BY <3>1, <3>3, Zenon DEF ListInv
  <2>2. OldInv(w)
    BY <2>1, Zenon DEF BudgetInv, StageInv
  <2>3. nodes[w].reboot \in {"none", "requested", "issued"}
    BY <2>1, WorkerTypes
  <2>4. IsRebootState(nodes[w]) <=> nodes[w].reboot # "none"
    BY <2>3 DEF IsRebootState
  <2>5. ~staleRollingUpdateDrain(nodes[w])
    BY <2>2, <2>4, Zenon DEF OldInv, staleRollingUpdateDrain
  <2>6. safeToDeleteOfflineSlurmNode(nodes[w]) => nodes[w].reboot = "issued"
    <3>1. safeToDeleteOfflineSlurmNode(nodes[w]) => nodes[w].down
      BY <2>2, Zenon DEF OldInv, safeToDeleteOfflineSlurmNode
    <3>2. nodes[w].down => nodes[w].reboot # "none" /\ nodes[w].reboot # "requested"
      BY <2>2, Zenon DEF OldInv
    <3> QED
      BY <2>3, <3>1, <3>2, Zenon
  <2>7. CASE nodes[w].reboot = "none"
    <3>1. d = "ScheduleReboot"
      BY <2>1, <2>4, <2>5, <2>7, SMTT(30) DEF decideWorkerUpdateAction
    <3> QED
      BY <2>1, <2>7, <3>1
  <2>8. CASE nodes[w].reboot # "none"
    <3>1. \/ d = "Delete" /\ safeToDeleteOfflineSlurmNode(nodes[w])
          \/ d = "TrackInFlight"
      BY <2>1, <2>4, <2>5, <2>8 DEF decideWorkerUpdateAction
    <3> QED
      BY <2>1, <2>6, <2>8, <3>1, SMTT(30)
  <2> QED
    BY <2>7, <2>8
\* Workers that are not ready, and ready ones on their way to a reboot, are
\* counted before reboots are given out.
<1>11. ASSUME ru.pc = "list", NEW B \in SUBSET Workers,
              \A w \in ru.todo : nodes[w].reboot # "none" /\ podReady(ru.pods[w]) => w \in B,
              NEW F \in SUBSET Workers,
              F = {} \/ Cardinality(F) <= rebootBudget - unavailableReplicas - Cardinality(B)
       PROVE  Cardinality(Disrupted \cup F) <= rebootBudget
  <2> USE <1>11
  <2> DEFINE R == {w \in Workers : podReady(ru.pods[w])}
  <2>1. ListInv /\ \A w \in Workers : StageInv(w)
    BY Zenon DEF BudgetInv
  <2>2. ru.todo = {w \in Workers : Old(w)} /\ ru.ready = Cardinality(R)
        /\ \A w \in R : podReady(pods[w])
    BY <2>1, Zenon DEF ListInv
  <2>3. Disrupted \subseteq (Workers \ R) \cup B
    <3> SUFFICES ASSUME NEW w \in Disrupted, w \in R PROVE w \in B
      BY DEF Disrupted
    <3>1. w \in Workers /\ podReady(ru.pods[w]) /\ podReady(pods[w])
      BY <2>2
    <3>2. pods[w].registered /\ IsRebootState(nodes[w]) /\ pods[w] # NoPod
      BY <3>1, Zenon DEF Disrupted, podReady
    <3>3. nodes[w].reboot # "none"
      BY <3>2 DEF IsRebootState
    <3>4. Old(w)
      BY <2>1, <3>1, <3>2, <3>3, ZenonT(40) DEF StageInv, NewInv
    <3>5. w \in ru.todo
      BY <2>2, <3>1, <3>4
    <3> QED
      BY <3>1, <3>3, <3>5
  <2>4. R \in SUBSET Workers /\ Workers \ R \in SUBSET Workers
    OBVIOUS
  <2> HIDE DEF R
  <2>5. Disrupted \in SUBSET Workers
    BY DEF Disrupted
  <2> HIDE DEF Disrupted
  <2>6. Cardinality(Workers \ R) = unavailableReplicas
    BY <2>2, <2>4, CountComplement DEF unavailableReplicas
  <2>7. Cardinality(Disrupted) <= Cardinality((Workers \ R) \cup B)
    <3>1. (Workers \ R) \cup B \in SUBSET Workers
      BY <2>4
    <3> QED
      BY <2>3, <3>1, CountShrinks
  <2>8. Cardinality((Workers \ R) \cup B) <= Cardinality(Workers \ R) + Cardinality(B)
    BY <2>4, CountUnion, Zenon
  <2>9. Cardinality(Disrupted \cup F) <= Cardinality(Disrupted) + Cardinality(F)
    BY <2>5, CountUnion, ZenonT(40)
  <2>10. /\ Cardinality(Disrupted) \in Nat /\ Cardinality(B) \in Nat
         /\ Cardinality(F) \in Nat /\ Cardinality(Workers \ R) \in Nat
         /\ Cardinality((Workers \ R) \cup B) \in Nat
         /\ Cardinality(Disrupted \cup F) \in Nat
    <3>1. (Workers \ R) \cup B \in SUBSET Workers /\ Disrupted \cup F \in SUBSET Workers
      BY <2>4, <2>5
    <3> QED
      BY <2>4, <2>5, <3>1, CountWorkers
  <2>11. rebootBudget \in Int
    BY WorkerAssumption, BudgetAssumption DEF rebootBudget
  <2>12. CASE F = {}
    <3>1. Disrupted \cup F \subseteq Disrupted \cup ru.picked
          /\ Disrupted \cup ru.picked \in SUBSET Workers
      BY <2>5, <2>12 DEF TypeInv, PassOK, PassRecord
    <3>2. /\ Cardinality(Disrupted \cup F) <= Cardinality(Disrupted \cup ru.picked)
          /\ Cardinality(Disrupted \cup ru.picked) \in Nat
      BY <3>1, CountShrinks
    <3>3. Cardinality(Disrupted \cup ru.picked) <= rebootBudget
      BY Zenon DEF BudgetInv, CountInv
    <3> QED
      BY <2>10, <2>11, <3>2, <3>3, SMTT(30)
  <2>13. CASE Cardinality(F) <= rebootBudget - unavailableReplicas - Cardinality(B)
    BY <2>6, <2>7, <2>8, <2>9, <2>10, <2>11, <2>13
  <2> QED
    BY <2>12, <2>13
<1>12. ASSUME ListNodes
       PROVE  /\ \A w \in Workers : StageInv(w)'
              /\ DeletesInv' /\ ListInv' /\ PickedInv' /\ CountInv'
  <2> USE <1>12
  <2> DEFINE decided(action) ==
                 {w \in ru.todo :
                     decideWorkerUpdateAction(ru.pods[w], nodes[w], ru.operationID) = action}
  <2>1. UNCHANGED <<pods, nodes, revision>> /\ ru.pc = "list"
    BY DEF ListNodes, workerVars
  <2>2. /\ \A w \in Workers : StageInv(w)'
        /\ \A w \in Workers : Old(w)' <=> Old(w)
        /\ Disrupted' = Disrupted
    BY <2>1, <1>7, Zenon
  <2>3. PICK U, D, T, S : /\ U = decided("Undrain") /\ D = decided("Delete")
                          /\ T = decided("TrackInFlight") /\ S = decided("ScheduleReboot")
    BY Zenon
  <2>4. \A w \in ru.todo :
           /\ w \in Workers /\ Old(w)
           /\ nodes[w].reboot = "none" => w \in S /\ w \notin U \cup D \cup T
           /\ nodes[w].reboot # "none" => w \in D \cup T /\ w \notin U \cup S
           /\ w \in D => nodes[w].reboot = "issued"
    <3> SUFFICES ASSUME NEW w \in ru.todo
                 PROVE  /\ w \in Workers /\ Old(w)
                        /\ nodes[w].reboot = "none" => w \in S /\ w \notin U \cup D \cup T
                        /\ nodes[w].reboot # "none" => w \in D \cup T /\ w \notin U \cup S
                        /\ w \in D => nodes[w].reboot = "issued"
      BY Zenon
    <3>1. PICK d : d = decideWorkerUpdateAction(ru.pods[w], nodes[w], ru.operationID)
      BY Zenon
    <3>2. /\ w \in U <=> d = "Undrain"
          /\ w \in D <=> d = "Delete"
          /\ w \in T <=> d = "TrackInFlight"
          /\ w \in S <=> d = "ScheduleReboot"
      BY <2>3, <3>1, Zenon
    <3>3. /\ w \in Workers /\ Old(w)
          /\ nodes[w].reboot = "none" => d = "ScheduleReboot"
          /\ nodes[w].reboot # "none" => d \in {"Delete", "TrackInFlight"}
          /\ d = "Delete" => nodes[w].reboot = "issued"
      BY <2>1, <3>1, <1>10, Zenon
    <3> QED
      BY <3>2, <3>3
  <2>5. U \subseteq ru.todo /\ D \subseteq ru.todo /\ T \subseteq ru.todo /\ S \subseteq ru.todo
    BY <2>3
  <2>6. PICK B : B = {w \in U \cup D \cup T : podReady(ru.pods[w])}
    BY Zenon
  <2>7. PICK k : k = rebootBudget - unavailableReplicas - Cardinality(B)
    BY Zenon
  <2>8. PICK F : F = FirstOf(S, k)
    BY Zenon
  <2>9. PICK r : r = [ru EXCEPT !.pc = "call", !.ready = 0, !.todo = U \cup D,
                                !.undrain = U, !.picked = F]
    BY Zenon
  <2>10. Goes(r)
    BY <2>3, <2>6, <2>7, <2>8, <2>9, ZenonT(40) DEF ListNodes
  <2> HIDE DEF decided
  <2>11. ru \in PassRecord /\ ListInv /\ \A w \in Workers : StageInv(w)
    BY Zenon DEF TypeInv, PassOK, BudgetInv
  <2>12. /\ r.pc = "call" /\ r.todo = U \cup D /\ r.undrain = U /\ r.picked = F
         /\ r.pods = ru.pods /\ r.operationID = ru.operationID
    BY <2>9, <2>11, ZenonT(40) DEF PassRecord
  <2>13. /\ U \in SUBSET Workers /\ D \in SUBSET Workers /\ T \in SUBSET Workers
         /\ S \in SUBSET Workers /\ B \in SUBSET Workers
    BY <2>4, <2>5, <2>6, SMTT(30)
  <2>14. rebootBudget \in Int /\ unavailableReplicas \in Int /\ Cardinality(B) \in Nat
         /\ k \in Int
    <3>1. ru.ready \in 0 .. Replicas /\ Replicas \in Nat
      BY <2>11, Constants DEF PassRecord
    <3>2. rebootBudget \in Int
      BY WorkerAssumption, BudgetAssumption DEF rebootBudget
    <3>3. Cardinality(B) \in Nat
      BY <2>13, CountWorkers
    <3>4. unavailableReplicas \in Int
      BY <3>1 DEF unavailableReplicas
    <3> QED
      BY <2>7, <3>2, <3>3, <3>4
  <2>15. F \in SUBSET S /\ (F = {} \/ Cardinality(F) <= k)
    BY <2>8, <2>13, <2>14, FirstOfCount, SMTT(30)
  <2>16. Cardinality(Disrupted \cup F) <= rebootBudget
    <3>1. \A w \in ru.todo : nodes[w].reboot # "none" /\ podReady(ru.pods[w]) => w \in B
      BY <2>4, <2>6, SMTT(30)
    <3>2. F \in SUBSET Workers
      BY <2>13, <2>15
    <3> QED
      BY <2>1, <2>7, <2>13, <2>15, <3>1, <3>2, <1>11, ZenonT(40)
  <2>17. \A w \in F : /\ w \in Workers /\ Old(w)' /\ nodes'[w].reboot = "none"
                      /\ revision' = 1 /\ ru.operationID = 1 /\ ru.pods[w] = pods'[w]
    <3> SUFFICES ASSUME NEW w \in F
                 PROVE  /\ w \in Workers /\ Old(w)' /\ nodes'[w].reboot = "none"
                        /\ revision' = 1 /\ ru.operationID = 1 /\ ru.pods[w] = pods'[w]
      BY Zenon
    <3>1. w \in ru.todo /\ w \in S
      BY <2>5, <2>15
    <3>2. w \in Workers /\ Old(w) /\ nodes[w].reboot = "none"
      BY <2>4, <3>1
    <3>3. revision = 1 /\ ru.operationID = 1 /\ ru.pods[w] = pods[w]
      BY <2>1, <2>11, <3>2, Zenon DEF ListInv
    <3> QED
      BY <2>1, <2>2, <3>2, <3>3, ZenonT(40)
  <2>18. ASSUME ru'.picked \subseteq F PROVE CountInv'
    <3>1. Disrupted \cup F \in SUBSET Workers
      BY <2>13, <2>15 DEF Disrupted
    <3>2. Disrupted' \cup ru'.picked \subseteq Disrupted \cup F
      BY <2>2, <2>18
    <3> HIDE DEF Disrupted
    <3>3. /\ Cardinality(Disrupted' \cup ru'.picked) <= Cardinality(Disrupted \cup F)
          /\ Cardinality(Disrupted' \cup ru'.picked) \in Nat
          /\ Cardinality(Disrupted \cup F) \in Nat
      BY <3>1, <3>2, CountShrinks
    <3> QED
      BY <2>14, <2>16, <3>3 DEF CountInv
  <2>19. CASE ru' = r
    <3>1. DeletesInv'
      <4>1. \A w \in ru'.todo : /\ w \notin ru'.undrain /\ Old(w)'
                                /\ nodes'[w].reboot = "issued"
        <5> SUFFICES ASSUME NEW w \in U \cup D
                     PROVE  w \notin U /\ Old(w)' /\ nodes'[w].reboot = "issued"
          BY <2>12, <2>19, SMTT(30)
        <5>1. w \in ru.todo
          BY <2>5
        <5>2. w \in Workers /\ Old(w) /\ w \notin U /\ nodes[w].reboot = "issued"
          BY <2>4, <5>1
        <5> QED
          BY <2>1, <2>2, <5>2, ZenonT(40)
      <4>2. ru'.pc = "call"
        BY <2>12, <2>19, SMTT(30)
      <4> QED
        BY <4>1, <4>2 DEF DeletesInv
    <3>2. ListInv'
      BY <2>12, <2>19 DEF ListInv
    <3>3. PickedInv'
      <4>1. ru'.pc = "call" /\ ru'.picked = F /\ ru'.pods = ru.pods
            /\ ru'.operationID = ru.operationID
        BY <2>12, <2>19
      <4> QED
        BY <2>17, <4>1 DEF PickedInv
    <3>4. ru'.picked \subseteq F
      BY <2>12, <2>19
    <3> QED
      BY <2>2, <2>18, <3>1, <3>2, <3>3, <3>4, ZenonT(40)
  <2>20. CASE ru' = [r EXCEPT !.pc = "label", !.todo = r.picked]
    <3>1. /\ ru'.pc = "label" /\ ru'.picked = F /\ ru'.pods = ru.pods /\ ru'.todo = F
          /\ ru'.operationID = ru.operationID
      <4>1. r \in [pc : {"call"}, operationID : {ru.operationID}, ready : {0},
                   pods : {ru.pods}, todo : {U \cup D}, undrain : {U}, picked : {F}]
        BY <2>9, <2>11, Zenon DEF PassRecord
      <4> QED
        BY <2>20, <4>1, Zenon
    <3>2. PickedInv'
      BY <2>17, <3>1, SMTT(30) DEF PickedInv
    <3>3. DeletesInv' /\ ListInv'
      BY <3>1 DEF DeletesInv, ListInv
    <3> QED
      BY <2>2, <2>18, <3>1, <3>2, <3>3, ZenonT(40)
  <2>21. CASE ru' = Idle
    <3>1. ru'.pc = "idle" /\ ru'.picked = {}
      BY <2>21, IdleFields
    <3>2. ru'.picked \subseteq F
      BY <3>1
    <3> QED
      BY <2>2, <2>18, <3>1, <3>2, RestBudget
  <2> QED
    BY <2>10, <2>12, <2>19, <2>20, <2>21, ZenonT(40) DEF Goes
\* A worker is labelled, unless it was before: its pod is still the one the pass
\* has read.
<1>13. ASSUME Label
       PROVE  /\ \A w \in Workers : StageInv(w)'
              /\ DeletesInv' /\ ListInv' /\ PickedInv' /\ CountInv'
  <2> USE <1>13
  <2>0. PICK f : f = First
    BY Zenon
  <2>1. f \in ru.todo /\ f \in ru.picked /\ f \in Workers /\ ru.pc = "label"
        /\ ru.todo \subseteq ru.picked /\ ru.picked \subseteq Workers
    <3>1. ru.pc = "label" /\ PassOK(ru)
      BY Zenon DEF Label, TypeInv
    <3>2. First \in ru.todo /\ First \in Workers
      BY <3>1, FirstInTodo DEF PassOK
    <3> QED
      BY <2>0, <3>1, <3>2 DEF PassOK, PassRecord
  <2>2. /\ Old(f) /\ nodes[f].reboot = "none" /\ revision = 1 /\ ru.operationID = 1
        /\ ru.pods[f] = pods[f] /\ StageInv(f)
    BY <2>1, Zenon DEF BudgetInv, PickedInv
  <2>3. nodes' = nodes /\ revision' = revision
    BY DEF Label
  <2>4. /\ pods'[f] # NoPod /\ pods'[f].rev = pods[f].rev /\ pods'[f].run = pods[f].run
        /\ pods'[f].registered = pods[f].registered /\ Labelled(pods'[f])
        /\ \A v \in Workers \ {f} : pods'[v] = pods[v]
        /\ Goes(Done)
    <3>1. pods \in [Workers -> PodOrNone] /\ pods[f] \in Pod
      BY <2>1, <2>2, WorkerTypes, Zenon DEF Old
    <3>2. CASE workerOperationPhase(ru.pods[f], ru.operationID) = "stopping"
      <4>1. pods' = pods /\ Goes(Done)
        BY <2>0, <3>2, Zenon DEF Label
      <4>2. Labelled(pods[f])
        BY <2>2, <3>2 DEF workerOperationPhase, Labelled
      <4> QED
        BY <2>2, <4>1, <4>2, Zenon DEF Old
    <3>3. CASE workerOperationPhase(ru.pods[f], ru.operationID) # "stopping"
      <4>1. /\ pods' = [pods EXCEPT ![f].op = ru.operationID, ![f].phase = "stopping"]
            /\ Goes(Done)
        BY <2>0, <2>2, <3>3, Zenon DEF Label
      <4>2. PICK p : p = [pods[f] EXCEPT !.op = ru.operationID, !.phase = "stopping"]
        BY Zenon
      <4>3. pods' = [pods EXCEPT ![f] = p]
        BY <3>1, <4>1, <4>2, Zenon
      <4>4. /\ p.rev = pods[f].rev /\ p.run = pods[f].run /\ p.op = 1
            /\ p.registered = pods[f].registered /\ p.phase = "stopping"
        BY <2>2, <3>1, <4>2, Zenon DEF Pod
      <4>5. p # NoPod
        <5>1. p.rev # NoPod.rev
          BY <2>2, <4>4 DEF Old, NoPod, NoOperation
        <5> QED
          BY <5>1, ZenonT(40)
      <4>6. pods'[f] = p /\ \A v \in Workers \ {f} : pods'[v] = pods[v]
        BY <2>1, <3>1, <4>3, Zenon
      <4> QED
        BY <4>1, <4>4, <4>5, <4>6, Zenon DEF Labelled
    <3> QED
      BY <3>2, <3>3
  <2>5. StageInv(f)'
    <3>1. Old(f)'
      BY <2>2, <2>4, Zenon DEF Old
    <3>2. OldInv(f)
      BY <2>2, Zenon DEF StageInv
    <3>3. pods'[f].phase # "ready"
      BY <2>4 DEF Labelled
    <3>4. nodes'[f] = nodes[f] /\ nodes'[f].reboot = "none"
      BY <2>2, <2>3, ZenonT(40)
    <3>5. OldInv(f)'
      BY <2>4, <3>2, <3>3, <3>4 DEF OldInv
    <3>6. handoff'[f].pc = "off"
      <4>1. handoff[f].pc = "off"
        BY <2>2, Zenon DEF StageInv, ProgramInv
      <4> QED
        BY <2>1, <4>1, <1>1, Zenon
    <3> QED
      BY <3>1, <3>5, <3>6, Zenon DEF StageInv, ProgramInv
  <2>6. ASSUME NEW v \in Workers \ {f} PROVE StageInv(v)'
    <3>1. StageInv(v) /\ pods'[v] = pods[v] /\ nodes'[v] = nodes[v]
      BY <2>3, <2>4, ZenonT(40) DEF BudgetInv
    <3> QED
      BY <2>3, <3>1, <1>2, Zenon
  <2>7. \A w \in ru.picked : /\ Old(w)' /\ nodes'[w].reboot = "none" /\ revision' = 1
                             /\ w \in ru.todo \ {f} => ru.pods[w] = pods'[w]
                             /\ w \notin ru.todo \ {f} => Labelled(pods'[w])
    <3> SUFFICES ASSUME NEW w \in ru.picked
                 PROVE  /\ Old(w)' /\ nodes'[w].reboot = "none" /\ revision' = 1
                        /\ w \in ru.todo \ {f} => ru.pods[w] = pods'[w]
                        /\ w \notin ru.todo \ {f} => Labelled(pods'[w])
      BY Zenon
    <3>1. CASE w = f
      BY <2>2, <2>3, <2>4, <3>1, Zenon DEF Old
    <3>2. CASE w # f
      <4>1. w \in Workers \ {f}
        BY <2>1, <3>2
      <4>2. pods'[w] = pods[w]
        BY <2>4, <4>1
      <4>3. PickedInv
        BY Zenon DEF BudgetInv
      <4> QED
        BY <2>1, <2>3, <4>1, <4>2, <4>3, ZenonT(40) DEF PickedInv, Old
    <3> QED
      BY <3>1, <3>2
  <2>8. PICK d : d = Done
    BY Zenon
  <2>9. /\ d.pc = "label" /\ d.picked = ru.picked
        /\ d.pods = ru.pods /\ d.todo = ru.todo \ {f}
        /\ d.operationID = 1 /\ Goes(d)
    BY <2>0, <2>1, <2>2, <2>4, <2>8, <1>3, Zenon
  <2>10. DeletesInv' /\ ListInv' /\ PickedInv' /\ ru'.picked = ru.picked
    <3>1. CASE ru' = d
      <4>1. PickedInv'
        BY <2>7, <2>9, <3>1, SMTT(30) DEF PickedInv
      <4>2. DeletesInv' /\ ListInv'
        BY <2>9, <3>1 DEF DeletesInv, ListInv
      <4> QED
        BY <2>9, <3>1, <4>1, <4>2, ZenonT(40)
    <3>2. CASE d.todo = {} /\ ru' = [Idle EXCEPT !.pc = "reboot", !.picked = d.picked]
      <4>1. ru'.pc = "reboot" /\ ru'.picked = ru.picked
        BY <2>9, <3>2, Zenon DEF Idle
      <4>2. PickedInv'
        BY <2>7, <2>9, <3>2, <4>1, ZenonT(40) DEF PickedInv
      <4>3. DeletesInv' /\ ListInv'
        BY <4>1 DEF DeletesInv, ListInv
      <4> QED
        BY <4>1, <4>2, <4>3, ZenonT(40)
    <3> QED
      BY <2>9, <3>1, <3>2, Zenon DEF Goes
  <2>11. Disrupted' \subseteq Disrupted
    <3>1. ASSUME NEW v \in Disrupted' PROVE v \in Disrupted
      <4>1. v \in Workers /\ nodes'[v] = nodes[v]
        BY <2>3, <3>1, ZenonT(40) DEF Disrupted
      <4>2. CASE v = f
        <5>1. podReady(pods[f]) => podReady(pods'[f])
          BY <2>4 DEF podReady
        <5> QED
          BY <2>4, <3>1, <4>1, <4>2, <5>1, ZenonT(40) DEF Disrupted
      <4>3. CASE v # f
        BY <2>4, <3>1, <4>1, <4>3, Zenon DEF Disrupted
      <4> QED
        BY <4>2, <4>3
    <3> QED
      BY <3>1
  <2>12. CountInv'
    <3>1. CountInv
      BY Zenon DEF BudgetInv
    <3> QED
      BY <2>10, <2>11, <3>1, CountKept
  <2> QED
    BY <2>5, <2>6, <2>10, <2>12, Zenon
\* The workers whose reboot is requested had their place in the budget.
<1>14. ASSUME Reboot
       PROVE  /\ \A w \in Workers : StageInv(w)'
              /\ DeletesInv' /\ ListInv' /\ PickedInv' /\ CountInv'
  <2> USE <1>14
  <2>1. /\ pods' = pods /\ revision' = revision /\ ru' = Idle /\ ru.pc = "reboot"
        /\ nodes' = [w \in Workers |->
                        IF w \in ru.picked THEN [nodes[w] EXCEPT !.drain = TRUE,
                                                                 !.reason = "update",
                                                                 !.reboot = "requested"]
                                           ELSE nodes[w]]
    BY Zenon DEF Reboot, RebootNodes, End
  <2>2. DeletesInv' /\ ListInv' /\ PickedInv' /\ ru'.picked = {}
    BY <2>1, IdleFields, RestBudget, Zenon
  <2>3. ASSUME NEW w \in Workers, w \in ru.picked PROVE StageInv(w)'
    <3>1. /\ Old(w) /\ nodes[w].reboot = "none" /\ revision = 1 /\ Labelled(pods[w])
          /\ StageInv(w)
      BY <2>1, <2>3, Zenon DEF BudgetInv, PickedInv
    <3>2. OldInv(w) /\ handoff[w].pc = "off"
      BY <3>1, Zenon DEF StageInv, ProgramInv
    <3>3. PICK n : n = [nodes[w] EXCEPT !.drain = TRUE, !.reason = "update",
                                        !.reboot = "requested"]
      BY Zenon
    <3>4. nodes'[w] = n
      BY <2>1, <2>3, <3>3, Zenon
    <3>5. /\ n.responding = nodes[w].responding /\ n.down = nodes[w].down
          /\ n.reason = "update" /\ n.reboot = "requested"
      <4>1. nodes[w] \in SlurmNode
        BY WorkerTypes, Zenon
      <4> QED
        BY <3>3, <4>1, Zenon DEF SlurmNode
    <3>6. Old(w)'
      BY <2>1, <3>1, Zenon DEF Old
    <3>7. ~nodes[w].down /\ pods[w].op = 1 /\ pods[w].phase = "stopping"
      BY <3>1, <3>2, Zenon DEF OldInv, Labelled
    <3>8. OldInv(w)'
      BY <2>1, <3>1, <3>2, <3>4, <3>5, <3>7, ZenonT(40) DEF OldInv
    <3>9. handoff'[w].pc = "off"
      BY <3>2, <1>1, Zenon
    <3> QED
      BY <3>6, <3>8, <3>9, Zenon DEF StageInv, ProgramInv
  <2>4. ASSUME NEW w \in Workers, w \notin ru.picked PROVE StageInv(w)'
    <3>1. StageInv(w) /\ pods'[w] = pods[w] /\ nodes'[w] = nodes[w]
      BY <2>1, <2>4, Zenon DEF BudgetInv
    <3> QED
      BY <2>1, <3>1, <1>2, Zenon
  <2>5. Disrupted' \subseteq Disrupted \cup ru.picked
    <3>1. ASSUME NEW v \in Disrupted', v \notin ru.picked PROVE v \in Disrupted
      <4>1. v \in Workers
        BY <3>1, Zenon DEF Disrupted
      <4>2. nodes'[v] = nodes[v] /\ pods'[v] = pods[v]
        BY <2>1, <3>1, <4>1, ZenonT(40)
      <4> QED
        BY <3>1, <4>1, <4>2, Zenon DEF Disrupted
    <3> QED
      BY <3>1
  <2>6. CountInv'
    <3>1. CountInv /\ Disrupted' \cup ru'.picked \subseteq Disrupted \cup ru.picked
      BY <2>2, <2>5, Zenon DEF BudgetInv
    <3> QED
      BY <3>1, CountKept, Zenon
  <2> QED
    BY <2>2, <2>3, <2>4, <2>6, Zenon
<1>15. CASE Reconcile(ActualStatus)
  BY <1>15, <1>8, Zenon
<1>16. CASE DeleteFinished
  <2>1. ru.pc = "delete" /\ DeletePod(First) /\ Goes(Done) /\ nodes' = nodes
        /\ revision' = revision
    BY <1>16, Zenon DEF DeleteFinished
  <2>2. First \notin ru.undrain
    BY <2>1 DEF BudgetInv, DeletesInv
  <2> QED
    BY <2>1, <2>2, <1>5, Zenon
<1>17. CASE Call
  <2>1. ru.pc = "call" /\ Goes(Done) /\ revision' = revision
    BY <1>17, Zenon DEF Call
  <2>2. CASE First \in ru.undrain
    <3>1. UndrainNode(First) /\ pods' = pods
      BY <1>17, <2>2, Zenon DEF Call
    <3> QED
      BY <2>1, <2>2, <3>1, <1>6, Zenon
  <2>3. CASE First \notin ru.undrain
    <3>1. DeletePod(First) /\ nodes' = nodes
      BY <1>17, <2>3, Zenon DEF Call
    <3> QED
      BY <2>1, <2>3, <3>1, <1>5, Zenon
  <2> QED
    BY <2>2, <2>3
<1>18. CASE ListNodes
  BY <1>18, <1>12, Zenon
<1>19. CASE cleanupStaleRollingUpdateDrains
  BY <1>19, <1>9, ZenonT(40)
<1>20. CASE Label
  BY <1>20, <1>13, Zenon
<1>21. CASE Reboot
  BY <1>21, <1>14, Zenon
<1> QED
  BY <1>15, <1>16, <1>17, <1>18, <1>19, <1>20, <1>21, ZenonT(40) DEF UpdateStep, RollingUpdateNext

-----------------------------------------------------------------------------
(* The invariant.                                                          *)

\* Before the template changes, no worker is touched.
LEMMA ChangeBudget ==
    ASSUME TypeInv, TypeInv', BudgetInv, ChangeTemplate
    PROVE  BudgetInv'
<1>1. /\ pods' = pods /\ nodes' = nodes /\ handoff' = handoff /\ ru' = ru
      /\ revision' = revision + 1 /\ Spend("changes")
  BY Zenon DEF ChangeTemplate
<1>2. left \in [Bounds -> Nat] /\ revision \in Nat
  BY Constants DEF TypeInv
<1>3. /\ left["changes"] > 0 /\ left'["changes"] = left["changes"] - 1
      /\ left'["crashes"] = left["crashes"] /\ left'["stale"] = left["stale"]
      /\ left'["faults"] = left["faults"]
  BY <1>1 DEF Spend, SpendAll, Bounds
<1>4. left["changes"] \in Nat /\ revision + left["changes"] <= 1
  BY <1>2 DEF Bounds, BudgetInv, BoundsInv
<1>5. BoundsInv' /\ revision = 0
  <2>1. revision = 0
    BY <1>2, <1>3, <1>4
  <2>2. revision' + left'["changes"] <= 1
    BY <1>1, <1>2, <1>3, <1>4
  <2> QED
    BY <1>3, <2>1, <2>2 DEF BudgetInv, BoundsInv
<1>6. ASSUME NEW w \in Workers
      PROVE  StageInv(w)' /\ WorkerMoves(w)
  <2>1. StageInv(w)
    BY Zenon DEF BudgetInv
  <2>2. revision # 1
    BY <1>5
  <2>3. Old(w) /\ OldInv(w) /\ nodes[w].reboot = "none"
    BY <2>1, <2>2, Zenon DEF StageInv, NewInv, OldInv
  <2>4. handoff[w].pc = "off"
    BY <2>1, <2>3, Zenon DEF StageInv, ProgramInv
  <2>5. Old(w)'
    BY <1>1, <2>3, Zenon DEF Old
  <2>6. OldInv(w)'
    <3>1. nodes'[w].reboot # "requested" /\ nodes'[w].reboot # "issued"
      BY <1>1, <2>3
    <3> QED
      BY <1>1, <2>3, <3>1, Zenon DEF OldInv
  <2>7. StageInv(w)'
    BY <1>1, <2>4, <2>5, <2>6, Zenon DEF StageInv, ProgramInv
  <2>8. WorkerMoves(w)
    BY <1>1, <2>3, <2>5, Zenon DEF WorkerMoves, Disrupted
  <2> QED
    BY <2>7, <2>8, Zenon
<1>7. DeletesInv' /\ ListInv' /\ PickedInv' /\ CountInv'
  <2>1. revision = 1 => revision' = 1
    BY <1>5
  <2> QED
    BY <1>1, <1>6, <2>1, PassStays, Zenon
<1> QED
  BY <1>5, <1>6, <1>7, Zenon DEF BudgetInv

\* A step of one worker.
LEMMA WorkerBudget ==
    ASSUME TypeInv, TypeInv', BudgetInv, NEW w \in Workers,
           StageInv(w)', WorkerMoves(w), OnlyWorker(w), revision' = revision, ru' = ru,
           left'["faults"] <= left["faults"]
    PROVE  /\ \A v \in Workers : StageInv(v)'
           /\ DeletesInv' /\ ListInv' /\ PickedInv' /\ CountInv'
<1>1. \A v \in Workers : StageInv(v)
  BY Zenon DEF BudgetInv
<1>2. \A v \in Workers : StageInv(v)' /\ WorkerMoves(v)
  BY <1>1, OthersStay, Zenon
<1> QED
  BY <1>2, PassStays, Zenon

LEMMA SpendsFaults ==
    ASSUME TypeInv, BoundsInv, revision' = revision, left' = left \/ Trouble("faults")
    PROVE  BoundsInv' /\ left'["faults"] <= left["faults"]
<1>1. left \in [Bounds -> Nat] /\ MaxAttempts \in Nat
  BY Constants DEF TypeInv
<1>2. CASE left' = left
  BY <1>1, <1>2 DEF BoundsInv, Bounds
<1>3. CASE Trouble("faults")
  <2>1. /\ left'["changes"] = left["changes"] /\ left'["crashes"] = left["crashes"]
        /\ left'["stale"] = left["stale"] /\ left'["faults"] = left["faults"] - 1
    BY <1>1, <1>3 DEF Trouble, SpendAll, Bounds
  <2>2. left["faults"] \in Nat
    BY <1>1 DEF Bounds
  <2> QED
    BY <1>1, <2>1, <2>2 DEF BoundsInv
<1> QED
  BY <1>2, <1>3

LEMMA BudgetStep == TypeInv /\ TypeInv' /\ BudgetInv /\ [Next]_vars => BudgetInv'
<1> SUFFICES ASSUME TypeInv, TypeInv', BudgetInv, [Next]_vars PROVE BudgetInv'
  OBVIOUS
<1>0. BoundsInv /\ \A w \in Workers : StageInv(w)
  BY Zenon DEF BudgetInv
<1>1. CASE ChangeTemplate
  BY <1>1, ChangeBudget, Zenon
<1>2. CASE UpdateStep
  <2>1. revision' = revision /\ left' = left
    BY <1>2 DEF UpdateStep, RollingUpdateNext, Reconcile, DeleteFinished, ListNodes,
       cleanupStaleRollingUpdateDrains, Call, Label, Reboot, workerVars
  <2> QED
    BY <1>0, <1>2, <2>1, PassBudget, SpendsFaults, ZenonT(40) DEF BudgetInv
<1>3. ~StalePass
  <2>1. StalePass => left["stale"] > 0
    BY DEF StalePass, Trouble, SpendAll
  <2> QED
    BY <1>0, <2>1 DEF BoundsInv
<1>4. ASSUME NEW w \in Workers, revision' = revision, ru' = ru,
             left' = left \/ Trouble("faults"),
             StageInv(w)' /\ WorkerMoves(w) /\ OnlyWorker(w)
      PROVE  BudgetInv'
  BY <1>0, <1>4, SpendsFaults, WorkerBudget, Zenon DEF BudgetInv
<1>5. CASE Fault
  <2>1. Trouble("faults")
    BY <1>5, Zenon DEF Fault
  <2>2. CASE PassFails /\ UNCHANGED handoff
    <3>1. /\ ru' = Idle /\ pods' = pods /\ nodes' = nodes /\ revision' = revision
          /\ handoff' = handoff
      BY <2>2, Zenon DEF PassFails, End, workerVars
    <3>2. BoundsInv' /\ left'["faults"] <= left["faults"]
      BY <1>0, <2>1, <3>1, SpendsFaults, Zenon
    <3>3. \A w \in Workers : StageInv(w)'
      BY <1>0, <3>1, <3>2, StageSame, Zenon
    <3>4. DeletesInv' /\ ListInv' /\ PickedInv' /\ ru'.picked = {}
      BY <3>1, IdleFields, RestBudget
    <3>5. CountInv'
      <4>1. CountInv /\ Disrupted' = Disrupted
        BY <3>1, Zenon DEF BudgetInv, Disrupted
      <4> QED
        BY <3>4, <4>1, CountKept
    <3> QED
      BY <3>2, <3>3, <3>4, <3>5, Zenon DEF BudgetInv
  <2>3. ASSUME NEW w \in Workers, HandoffRequestFails(w), UNCHANGED ru
        PROVE  BudgetInv'
    <3>1. revision' = revision
      BY <2>3, Zenon DEF HandoffRequestFails
    <3>2. StageInv(w)' /\ WorkerMoves(w) /\ OnlyWorker(w)
      BY <1>0, <2>1, <2>3, WorkerSteps, Zenon
    <3> QED
      BY <1>4, <2>1, <2>3, <3>1, <3>2, Zenon
  <2> QED
    BY <1>5, <2>2, <2>3, Zenon DEF Fault
<1>6. ASSUME NEW w \in Workers,
             \/ RecreatePod(w) \/ PodUp(w) \/ Fail(w) \/ Return(w) \/ StartJob(w)
             \/ EndJob(w) \/ Silent(w) \/ Register(w) \/ IssueReboot(w)
             \/ RebootTimesOut(w) \/ HandoffStep(w)
      PROVE  BudgetInv'
  <2>1. ~Fail(w) /\ ~Return(w) /\ ~RebootTimesOut(w)
    BY <1>0, WorkerSteps, Zenon
  <2>2. revision' = revision /\ ru' = ru /\ left' = left
    BY <1>6, <2>1, Zenon DEF RecreatePod, PodUp, StartJob, EndJob, Silent, Register,
       IssueReboot, HandoffStep, get_worker_operation, mark_ready, workerVars
  <2>3. StageInv(w)' /\ WorkerMoves(w) /\ OnlyWorker(w)
    BY <1>0, <1>6, <2>1, WorkerSteps, Zenon
  <2> QED
    BY <1>4, <2>2, <2>3, Zenon
<1>7. CASE UNCHANGED vars
  <2>1. /\ pods' = pods /\ nodes' = nodes /\ revision' = revision /\ handoff' = handoff
        /\ ru' = ru /\ left' = left
    BY <1>7, Zenon DEF vars, workerVars
  <2>2. BoundsInv' /\ left'["faults"] <= left["faults"]
    BY <1>0, <2>1, SpendsFaults, Zenon
  <2>3. \A w \in Workers : StageInv(w)' /\ WorkerMoves(w)
    BY <1>0, <2>1, <2>2, StageSame, Zenon
  <2> QED
    BY <2>1, <2>2, <2>3, PassStays, Zenon DEF BudgetInv
<1> QED
  BY <1>1, <1>2, <1>3, <1>5, <1>6, <1>7, Zenon DEF Next

LEMMA BudgetInit == Init /\ OneQuietChange => BudgetInv
<1> SUFFICES ASSUME Init, OneQuietChange PROVE BudgetInv
  OBVIOUS
<1>1. BoundsInv
  <2>1. left \in Scenarios /\ revision = 0
    BY Zenon DEF Init, WorkerInit
  <2>2. /\ left["changes"] <= 1 /\ left["crashes"] = 0 /\ left["stale"] = 0
        /\ left["faults"] < MaxAttempts
    BY <2>1 DEF OneQuietChange
  <2>3. left["changes"] \in Nat
    BY <2>1, UpdateAssumption DEF Bounds
  <2> QED
    BY <2>1, <2>2, <2>3 DEF BoundsInv
<1>2. ASSUME NEW w \in Workers
      PROVE  /\ pods[w].rev = 0 /\ pods[w].run = "up" /\ pods[w].registered = TRUE
             /\ pods[w].phase = "" /\ nodes[w].responding = TRUE /\ nodes[w].down = FALSE
             /\ nodes[w].drain = FALSE /\ nodes[w].reboot = "none"
             /\ handoff[w].pc = "off"
  BY Zenon DEF Init, WorkerInit, HandoffInit, Off
<1>3. ASSUME NEW w \in Workers PROVE Old(w)
  <2>1. NoPod.rev # 0
    BY DEF NoPod, NoOperation
  <2> QED
    BY <1>2, <2>1, Zenon DEF Old
<1>4. ASSUME NEW w \in Workers PROVE StageInv(w)
  <2>1. OldInv(w)
    BY <1>2, Zenon DEF OldInv
  <2> QED
    BY <1>2, <1>3, <2>1, Zenon DEF StageInv, ProgramInv
<1>5. ru.pc = "idle" /\ ru.picked = {}
  BY IdleFields DEF Init, RollingUpdateInit
<1>6. DeletesInv /\ ListInv /\ PickedInv
  BY <1>5 DEF DeletesInv, ListInv, PickedInv
<1>7. Disrupted = {}
  <2>1. ASSUME NEW w \in Disrupted PROVE FALSE
    <3>1. w \in Workers /\ (podReady(pods[w]) => IsRebootState(nodes[w]))
      BY <2>1, Zenon DEF Disrupted
    <3>2. podReady(pods[w]) /\ ~IsRebootState(nodes[w])
      BY <1>2, <1>3, <3>1, Zenon DEF podReady, IsRebootState, Old
    <3> QED
      BY <3>1, <3>2
  <2> QED
    BY <2>1
<1>8. CountInv
  <2>1. Disrupted \cup ru.picked = {}
    BY <1>5, <1>7
  <2>2. Cardinality(Disrupted \cup ru.picked) = 0
    BY <2>1, FS_EmptySet
  <2>3. rebootBudget >= 0
    BY WorkerAssumption, BudgetAssumption DEF rebootBudget
  <2> QED
    BY <2>2, <2>3 DEF CountInv
<1> QED
  BY <1>1, <1>4, <1>6, <1>8, Zenon DEF BudgetInv
=============================================================================
