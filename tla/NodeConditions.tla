--------------------------- MODULE NodeConditions ---------------------------
(***************************************************************************)
(* The conditions of a Kubernetes Node object, the message board through   *)
(* which SlurmNodesController, K8SNodesController and the per-node         *)
(* Rebooter coordinate draining, rebooting and replacing a node.           *)
(*                                                                         *)
(* One Kubernetes node (and its successive replacements, told apart by     *)
(* gen) carries the worker pods Workers.  Both controllers run in one      *)
(* manager process and read the node through one informer cache, mcache,   *)
(* which is some past version of the node.                                 *)
(*                                                                         *)
(* Simplifications.  Timestamps are whole seconds (metav1.Time); only      *)
(* those that some code compares are kept.  The order of the condition     *)
(* list is kept only for the two types processMaintenance folds over.      *)
(* Labels, messages, heartbeats and conditions nobody here reads are left  *)
(* out.  A cached read and the write that follows it are one step: the     *)
(* staleness of the cache already covers what happens between the two.     *)
(***************************************************************************)
EXTENDS Naturals

CONSTANTS Workers, \* worker pods (and Slurm nodes) placed on the node
          Placed,  \* those that are on the node at the start
          MaxTime  \* bound on the clock, in seconds

ASSUME BoardAssumption == Placed \subseteq Workers /\ MaxTime \in Nat

VARIABLES now,    \* the clock
          node,   \* the Node object in the API server
          mcache, \* the manager's cached copy of it
          pod     \* the worker pods bound to the node

boardVars == <<now, node, mcache, pod>>

CondType == {"SlurmNodeDrain", "SlurmNodeReboot", "NodeDegraded",
             "NodeMaintenance", "HardwareIssuesSuspected",
             "MaintenanceScheduled", "Ready"}

CondReason == {"", "NeedDrain", "Draining", "Drained", "Undrained",
               "NeedReboot", "Rebooting", "Rebooted",
               "GPUHealthCheckFailed", "External"}

Cond == [status : {"", "True", "False"}, reason : CondReason, ltt : Nat]

NoCond == [status |-> "", reason |-> "", ltt |-> 0]

\* The condition types whose LastTransitionTime is compared with something.
Timed == {"SlurmNodeReboot", "NodeDegraded", "Ready"}

newNodeCondition(type, status, reason, time) ==
    [status |-> status, reason |-> reason,
     ltt |-> IF type \in Timed THEN time ELSE 0]

IsConditionTrue(c) == c.status = "True"

IsConditionFalseOrEmpty(c) == c.status \in {"", "False"}

NodeObject == [gen : Nat, exists : BOOLEAN, created : Nat,
               conds : [CondType -> Cond], maintLast : BOOLEAN,
               unschedulable : BOOLEAN, tainted : BOOLEAN]

\* A node that has just joined the cluster.
FreshNode(gen, time) ==
    [gen |-> gen, exists |-> TRUE, created |-> time,
     conds |-> [t \in CondType |->
                  IF t = "Ready"
                  THEN newNodeCondition(t, "True", "External", time)
                  ELSE NoCond],
     maintLast |-> FALSE, unschedulable |-> FALSE, tainted |-> FALSE]

\* Object n with condition type set; a type not listed yet is appended, which
\* decides which of the two maintenance types stands last in the list.
Conditioned(n, type, c) ==
    [n EXCEPT !.conds[type] = c,
              !.maintLast = IF n.conds[type].status # "" THEN @
                            ELSE CASE type = "MaintenanceScheduled" -> TRUE
                                   [] type = "HardwareIssuesSuspected" -> FALSE
                                   [] OTHER -> @]

Live(gen) == node.exists /\ node.gen = gen

\* A JSON merge patch has no resourceVersion and lists are atomic in it: the
\* whole condition list of the live object becomes that of n.
MergePatched(n) ==
    [node EXCEPT !.conds = n.conds, !.maintLast = n.maintLast]

Cached(gen) == mcache.exists /\ mcache.gen = gen

AlreadySet(type, c) ==
    /\ mcache.conds[type].status = c.status
    /\ mcache.conds[type].reason = c.reason

\* setK8SNodeCondition returns an error: the patched object is gone, or the
\* type is not listed and Status().Update carries a stale resourceVersion.
setConditionFails(gen, type, c) ==
    /\ Cached(gen)
    /\ \/ ~Live(gen)
       \/ mcache.conds[type].status = "" /\ mcache # node

\* The Node object after setK8SNodeCondition.
setK8SNodeCondition(gen, type, c) ==
    IF \/ ~Cached(gen)
       \/ AlreadySet(type, c)
       \/ setConditionFails(gen, type, c)
    THEN node
    ELSE MergePatched(Conditioned(mcache, type, c))

BoardTypeOK ==
    /\ now \in Nat
    /\ node \in NodeObject
    /\ mcache \in NodeObject
    /\ pod \in [Workers -> [on : BOOLEAN, at : Nat]]

BoardInit ==
    /\ now = 1
    /\ node = FreshNode(0, 0)
    /\ mcache = node
    /\ pod = [w \in Workers |-> [on |-> w \in Placed, at |-> 0]]

Tick ==
    /\ now < MaxTime
    /\ now' = now + 1
    /\ UNCHANGED <<node, mcache, pod>>

\* The informer catches up with the API server.
SyncManager ==
    /\ mcache # node
    /\ mcache' = node
    /\ UNCHANGED <<now, node, pod>>

=============================================================================
